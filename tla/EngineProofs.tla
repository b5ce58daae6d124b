---------------------------- MODULE EngineProofs ----------------------------
(***************************************************************************)
(* Machine-checked proofs about Engine, for every value of its constants:  *)
(* any number of collectors, indicators, permits and requests, whatever    *)
(* collectors report and however their tasks end.  In this order: the runs *)
(* and their statuses, the refinement of SourceLedger, permits, evidence,  *)
(* the limits of pivots and where they come from, the sources that must    *)
(* have run, the deadline, and how the report accounts for each source.    *)
(***************************************************************************)
EXTENDS Engine, TLAPS, SequenceTheorems, FiniteSetTheorems

USE DEF setup, book, knowledge, engineOnly

-----------------------------------------------------------------------------
(* Data *)

LEMMA NoCollectionType == NoCollection \in Collection
  BY DEF NoCollection, Collection

LEMMA NewTaskType ==
  ASSUME NEW s \in Sources, NEW i \in Indicators, NEW d \in 0..DepthCap
  PROVE  NewTask(s, i, d) \in TaskRecord
  BY NoCollectionType DEF NewTask, TaskRecord

(* Replacing one task's record keeps a well-typed table of the same size. *)
LEMMA UpdateTask ==
  ASSUME tasks \in Seq(TaskRecord), NEW t \in DOMAIN tasks,
         NEW rec \in TaskRecord
  PROVE  /\ [tasks EXCEPT ![t] = rec] \in Seq(TaskRecord)
         /\ DOMAIN [tasks EXCEPT ![t] = rec] = DOMAIN tasks
  BY ExceptSeq

(* Recording an outcome appends to one entry of the status table. *)
LEMMA RecordType ==
  ASSUME statuses \in [Runs -> Seq(Outcomes)],
         NEW r \in Runs, NEW o \in Outcomes
  PROVE  Record(r, o) \in [Runs -> Seq(Outcomes)]
  BY AppendProperties DEF Record

LEMMA ExaminedType ==
  ASSUME NEW p \in Seq(Indicators)
  PROVE  /\ Examined(p) \in Seq(Indicators)
         /\ Excess(p) \in Nat
<1>1. CASE Len(p) > MaxCandidates
  <2>1. \A k \in 1..MaxCandidates : p[k] \in Indicators
    BY <1>1, LimitsAssumption, ElementOfSeq
  <2>2. SubSeq(p, 1, MaxCandidates) \in Seq(Indicators)
    BY <2>1, LimitsAssumption, SubSeqProperties
  <2>3. QED
    BY <1>1, <2>2, LimitsAssumption, LenProperties DEF Examined, Excess
<1>2. CASE ~(Len(p) > MaxCandidates)
  BY <1>2 DEF Examined, Excess
<1>3. QED
  BY <1>1, <1>2

LEMMA ChildDepthType ==
  ASSUME NEW d \in 0..DepthCap
  PROVE  ChildDepth(d) \in 0..DepthCap
  BY LimitsAssumption DEF ChildDepth

(* A task's record, and what it says, are typed. *)
LEMMA TaskType ==
  ASSUME TypeOK, NEW t \in DOMAIN tasks
  PROVE  /\ tasks[t] \in TaskRecord
         /\ RunOf(t) \in Runs
         /\ tasks[t].collection \in Collection
         /\ t \in Nat \ {0}
<1>1. tasks \in Seq(TaskRecord)
  BY DEF TypeOK
<1>2. t \in 1..Len(tasks)
  BY <1>1, LenProperties
<1>3. tasks[t] \in TaskRecord
  BY <1>1, <1>2, ElementOfSeq
<1>4. /\ tasks[t].source \in Sources
      /\ tasks[t].indicator \in Indicators
      /\ tasks[t].collection \in Collection
  BY <1>3 DEF TaskRecord
<1>5. t \in Nat \ {0}
  BY <1>1, <1>2, LenProperties
<1>6. QED
  BY <1>3, <1>4, <1>5 DEF RunOf, Runs

-----------------------------------------------------------------------------
(* Type correctness *)

LEMMA InitType == Init => TypeOK
<1> SUFFICES ASSUME Init PROVE TypeOK
  OBVIOUS
<1>1. target \in Indicators /\ submitted \in Seq(Sources)
  BY ConstantsAssumption DEF Init
<1>2. IsFiniteSet({})
  BY FS_EmptySet
<1>3. statuses \in [Runs -> Seq(Outcomes)]
  BY DEF Init
<1>4. relationships \in [Edges -> SUBSET Observations]
  BY DEF Init
<1>5. cursor \in [indicator : Indicators, depth : 0..DepthCap, next : Nat \ {0}]
  BY <1>1, LimitsAssumption DEF Init, NoCursor
<1>6. current \in [task : Nat, outcome : Answers \cup {"none"},
                   candidates : Seq(Indicators)]
  BY DEF Init, Idle
<1>7. permits \in Nat /\ used \in 0..MaxRequests
  BY LimitsAssumption DEF Init, Capacity
<1>8. tasks \in Seq(TaskRecord) /\ registry \in Seq(Sources)
  BY EmptySeq DEF Init
<1>9. stats \in [source_runs : Nat, pivots_followed : Nat, pivots_dropped : Nat,
                 requests_used : Nat, deadline_exceeded : BOOLEAN]
  BY DEF Init
<1>10. /\ pending = {} /\ visited = {} /\ dropped = {} /\ considered = {}
       /\ overflow = 0 /\ observations = {} /\ findings = {}
       /\ pc = "register" /\ deadline = FALSE
  BY DEF Init
<1>11. QED
  BY <1>1, <1>2, <1>3, <1>4, <1>5, <1>6, <1>7, <1>8, <1>9, <1>10 DEF TypeOK

(* The steps of a task: only its record, the permits and the budget move. *)
LEMMA TaskStepType ==
  ASSUME TypeOK, NEW t \in DOMAIN tasks, NEW rec \in TaskRecord,
         tasks' = [tasks EXCEPT ![t] = rec],
         permits' \in Nat, used' \in 0..MaxRequests, UNCHANGED engineOnly
  PROVE  TypeOK'
<1>1. tasks' \in Seq(TaskRecord) /\ DOMAIN tasks' = DOMAIN tasks
  BY UpdateTask DEF TypeOK
<1>2. QED
  BY <1>1 DEF TypeOK

LEMMA EndType ==
  ASSUME TypeOK, NEW t \in DOMAIN tasks,
         NEW state \in {"finished", "crashed"},
         NEW result \in {"none", "ok", "error", "budget", "timeout"},
         NEW c \in Collection, End(t, state, result, c)
  PROVE  TypeOK'
<1> DEFINE rec == [tasks[t] EXCEPT !.state = state, !.result = result,
                                   !.collection = c]
<1>1. rec \in TaskRecord
  BY TaskType DEF TaskRecord
<1>2. tasks' = [tasks EXCEPT ![t] = rec]
  BY DEF End
<1>3. permits' \in Nat /\ used' \in 0..MaxRequests
  BY DEF End, TypeOK
<1>4. UNCHANGED engineOnly
  BY DEF End
<1> HIDE DEF rec
<1>5. QED
  BY <1>1, <1>2, <1>3, <1>4, TaskStepType

LEMMA TaskActionType ==
  ASSUME TypeOK, NEW t \in DOMAIN tasks, Task(t)
  PROVE  TypeOK'
<1>1. tasks[t] \in TaskRecord
  BY TaskType
<1>2. CASE Acquire(t)
  <2>1. [tasks[t] EXCEPT !.state = "running"] \in TaskRecord
    BY <1>1 DEF TaskRecord
  <2>2. /\ tasks' = [tasks EXCEPT ![t] = [tasks[t] EXCEPT !.state = "running"]]
        /\ permits' \in Nat /\ used' \in 0..MaxRequests
        /\ UNCHANGED engineOnly
    BY <1>2 DEF Acquire, TypeOK
  <2>3. QED
    BY <2>1, <2>2, TaskStepType
<1>3. CASE Request(t)
  <2> DEFINE rec == OneMoreRequest(tasks[t])
  <2>1. rec \in TaskRecord
    BY <1>1 DEF TaskRecord, OneMoreRequest
  <2>2. tasks' = [tasks EXCEPT ![t] = rec]
    BY <1>3 DEF Request
  <2>3. used' \in 0..MaxRequests
    <3>1. used \in 0..MaxRequests
      BY DEF TypeOK
    <3>2. used < MaxRequests /\ used' = used + 1
      BY <1>3 DEF Request, BudgetLeft
    <3>3. QED
      BY <3>1, <3>2, LimitsAssumption
  <2>4. permits' \in Nat /\ UNCHANGED engineOnly
    BY <1>3 DEF Request, TypeOK
  <2> HIDE DEF rec
  <2>5. QED
    BY <2>1, <2>2, <2>3, <2>4, TaskStepType
<1>4. CASE RequestDenied(t)
  <2>1. [tasks[t] EXCEPT !.denied = TRUE] \in TaskRecord
    BY <1>1 DEF TaskRecord
  <2>2. /\ tasks' = [tasks EXCEPT ![t] = [tasks[t] EXCEPT !.denied = TRUE]]
        /\ permits' \in Nat /\ used' \in 0..MaxRequests
        /\ UNCHANGED engineOnly
    BY <1>4 DEF RequestDenied, TypeOK
  <2>3. QED
    BY <2>1, <2>2, TaskStepType
<1>5. CASE Return(t)
  <2>1. PICK c \in Collections[RunOf(t)] : End(t, "finished", "ok", c)
    BY <1>5 DEF Return
  <2>2. c \in Collection
    BY ConstantsAssumption, TaskType
  <2>3. QED
    BY <2>1, <2>2, EndType
<1>6. CASE Fail(t) \/ FailOnBudget(t) \/ SourceTimeout(t) \/ Panic(t)
  BY <1>6, EndType, NoCollectionType DEF Fail, FailOnBudget, SourceTimeout, Panic
<1>7. QED
  BY <1>2, <1>3, <1>4, <1>5, <1>6 DEF Task

(* The steps of the engine up to the first await. *)
LEMMA StartType ==
  ASSUME TypeOK,
         Register \/ RefuseDuplicate \/ Investigate \/ RefuseTarget
  PROVE  TypeOK'
<1>1. CASE Register
  <2>1. submitted[Len(registry) + 1] \in Sources
    BY <1>1, ElementOfSeq, LenProperties DEF Register, Taken, NewID, TypeOK
  <2>2. registry' \in Seq(Sources)
    BY <1>1, <2>1, AppendProperties DEF Register, NewID, TypeOK
  <2>3. QED
    BY <1>1, <2>2 DEF Register, TypeOK
<1>2. CASE RefuseDuplicate
  BY <1>2 DEF RefuseDuplicate, TypeOK
<1>3. CASE Investigate
  <2>1. visited' \subseteq Indicators /\ IsFiniteSet(visited')
    BY <1>3, FS_Singleton DEF Investigate, TypeOK
  <2>2. cursor' \in [indicator : Indicators, depth : 0..DepthCap,
                     next : Nat \ {0}]
    BY <1>3, LimitsAssumption DEF Investigate, NoCursor, TypeOK
  <2>3. QED
    BY <1>3, <2>1, <2>2 DEF Investigate, TypeOK
<1>4. CASE RefuseTarget
  BY <1>4 DEF RefuseTarget, TypeOK
<1>5. QED
  BY <1>1, <1>2, <1>3, <1>4

(* The cursor of `schedule` always names a registered collector. *)
LEMMA CursorType ==
  ASSUME TypeOK, Scheduling
  PROVE  /\ cursor.next \in 1..Len(registry)
         /\ Source \in Sources
         /\ cursor.indicator \in Indicators
         /\ cursor.depth \in 0..DepthCap
         /\ <<Source, cursor.indicator>> \in Runs
         /\ NextCollector => cursor' \in [indicator : Indicators,
                                          depth : 0..DepthCap,
                                          next : Nat \ {0}]
<1>1. cursor.next \in Nat \ {0} /\ cursor.indicator \in Indicators
      /\ cursor.depth \in 0..DepthCap
  BY DEF TypeOK
<1>2. registry \in Seq(Sources) /\ Len(registry) \in Nat
  BY LenProperties DEF TypeOK
<1>3. cursor.next \in 1..Len(registry)
  BY <1>1, <1>2 DEF Scheduling
<1>4. Source \in Sources
  BY <1>2, <1>3, ElementOfSeq DEF Source
<1>5. ASSUME NextCollector
      PROVE  cursor' \in [indicator : Indicators, depth : 0..DepthCap,
                          next : Nat \ {0}]
  <2>1. cursor.next + 1 \in Nat \ {0}
    BY <1>1
  <2>2. QED
    BY <1>1, <1>5, <2>1 DEF NextCollector, TypeOK
<1>6. QED
  BY <1>1, <1>3, <1>4, <1>5 DEF Runs

LEMMA ScheduleType ==
  ASSUME TypeOK, SkipCollector \/ MarkUnavailable \/ Spawn \/ EndSchedule
  PROVE  TypeOK'
<1>1. CASE SkipCollector
  BY <1>1, CursorType DEF SkipCollector, TypeOK
<1>2. CASE MarkUnavailable
  <2>1. statuses' \in [Runs -> Seq(Outcomes)]
    BY <1>2, CursorType, RecordType DEF MarkUnavailable, TypeOK, Outcomes
  <2>2. considered' \subseteq Sources
    BY <1>2, CursorType DEF MarkUnavailable, Consider, TypeOK
  <2>3. cursor' \in [indicator : Indicators, depth : 0..DepthCap,
                     next : Nat \ {0}]
    BY <1>2, CursorType DEF MarkUnavailable
  <2>4. QED
    BY <1>2, <2>1, <2>2, <2>3 DEF MarkUnavailable, TypeOK
<1>3. CASE Spawn
  <2> DEFINE new == NewTask(Source, cursor.indicator, cursor.depth)
  <2>1. Scheduling
    BY <1>3 DEF Spawn
  <2>2. new \in TaskRecord
    BY <2>1, CursorType, NewTaskType
  <2>3. tasks' = Append(tasks, new) /\ tasks \in Seq(TaskRecord)
    BY <1>3 DEF Spawn, TypeOK
  <2> HIDE DEF new
  <2>4. /\ tasks' \in Seq(TaskRecord)
        /\ DOMAIN tasks = 1..Len(tasks)
        /\ DOMAIN tasks' = 1..(Len(tasks) + 1)
        /\ Len(tasks) \in Nat
    BY <2>2, <2>3, AppendProperties, LenProperties
  <2>5. pending' \subseteq DOMAIN tasks'
    BY <1>3, <2>4 DEF Spawn, TypeOK
  <2>6. considered' \subseteq Sources
    BY <1>3, <2>1, CursorType DEF Spawn, Consider, TypeOK
  <2>7. cursor' \in [indicator : Indicators, depth : 0..DepthCap,
                     next : Nat \ {0}]
    BY <1>3, <2>1, CursorType DEF Spawn
  <2>8. stats' \in [source_runs : Nat, pivots_followed : Nat,
                    pivots_dropped : Nat, requests_used : Nat,
                    deadline_exceeded : BOOLEAN]
    <3>1. stats.source_runs + 1 \in Nat
      BY DEF TypeOK
    <3>2. QED
      BY <1>3, <3>1 DEF Spawn, TypeOK
  <2>9. QED
    BY <1>3, <2>4, <2>5, <2>6, <2>7, <2>8 DEF Spawn, TypeOK
<1>4. CASE EndSchedule
  BY <1>4 DEF EndSchedule, TypeOK
<1>5. QED
  BY <1>1, <1>2, <1>3, <1>4

(* The evidence of an edge only gains observations that are known. *)
LEMMA MergeType ==
  ASSUME TypeOK, NEW c \in Collection, Merge(c)
  PROVE  /\ observations' \subseteq Observations
         /\ relationships' \in [Edges -> SUBSET Observations]
         /\ findings' \subseteq Finding
<1>1. /\ c.observations \subseteq Observations
      /\ c.findings \subseteq Finding
  BY DEF Collection
<1>2. Known(c) \subseteq Observations
  BY <1>1 DEF Known, TypeOK
<1>3. \A e \in Edges : Cited(c, e) \subseteq Known(c)
  BY DEF Cited
<1>4. relationships' \in [Edges -> SUBSET Observations]
  BY <1>2, <1>3 DEF Merge, TypeOK
<1>5. QED
  BY <1>1, <1>2, <1>4 DEF Merge, TypeOK

(* Taking a task out of the JoinSet. *)
LEMMA JoinedType ==
  ASSUME TypeOK, NEW t \in DOMAIN tasks, Joinable(t)
  PROVE  /\ tasks' \in Seq(TaskRecord)
         /\ DOMAIN tasks' = DOMAIN tasks
         /\ pending' \subseteq DOMAIN tasks'
<1>1. [tasks[t] EXCEPT !.state = "joined"] \in TaskRecord
  BY TaskType DEF TaskRecord
<1>2. tasks' = [tasks EXCEPT ![t] = [tasks[t] EXCEPT !.state = "joined"]]
  BY DEF Joinable
<1>3. tasks' \in Seq(TaskRecord) /\ DOMAIN tasks' = DOMAIN tasks
  BY <1>1, <1>2, UpdateTask DEF TypeOK
<1>4. QED
  BY <1>3 DEF Joinable, TypeOK

LEMMA JoinType ==
  ASSUME TypeOK, NEW t \in DOMAIN tasks, Join(t)
  PROVE  TypeOK'
<1>1. CASE CompleteOk(t)
  <2> DEFINE c == tasks[t].collection
  <2>1. Joinable(t) /\ Merge(c)
    BY <1>1 DEF CompleteOk
  <2>2. c \in Collection /\ c.pivots \in Seq(Indicators) /\ t \in Nat
    BY TaskType DEF Collection
  <2>3. Examined(c.pivots) \in Seq(Indicators) /\ Excess(c.pivots) \in Nat
    BY <2>2, ExaminedType
  <2>4. overflow' \in Nat
    <3>1. overflow \in Nat
      BY DEF TypeOK
    <3>2. overflow' = overflow + Excess(c.pivots)
      BY <1>1 DEF CompleteOk
    <3>3. QED
      BY <2>3, <3>1, <3>2
  <2>5. current' \in [task : Nat, outcome : Answers \cup {"none"},
                      candidates : Seq(Indicators)]
    BY <1>1, <2>2, <2>3 DEF CompleteOk, Answers
  <2>6. /\ observations' \subseteq Observations
        /\ relationships' \in [Edges -> SUBSET Observations]
        /\ findings' \subseteq Finding
    BY <2>1, <2>2, MergeType
  <2>7. /\ tasks' \in Seq(TaskRecord)
        /\ pending' \subseteq DOMAIN tasks'
    BY <2>1, JoinedType
  <2>8. QED
    BY <1>1, <2>4, <2>5, <2>6, <2>7 DEF CompleteOk, TypeOK
<1>2. CASE CompleteError(t)
  <2>1. ErrorOutcome(tasks[t].result) \in Outcomes
    BY DEF ErrorOutcome, Outcomes
  <2>2. statuses' \in [Runs -> Seq(Outcomes)]
    BY <1>2, <2>1, TaskType, RecordType DEF CompleteError, TypeOK
  <2>3. /\ tasks' \in Seq(TaskRecord)
        /\ pending' \subseteq DOMAIN tasks'
    BY <1>2, JoinedType DEF CompleteError
  <2>4. QED
    BY <1>2, <2>2, <2>3 DEF CompleteError, TypeOK
<1>3. CASE Crashed(t)
  <2>1. statuses' \in [Runs -> Seq(Outcomes)]
    BY <1>3, TaskType, RecordType DEF Crashed, TypeOK, Outcomes
  <2>2. /\ tasks' \in Seq(TaskRecord)
        /\ pending' \subseteq DOMAIN tasks'
    BY <1>3, JoinedType DEF Crashed
  <2>3. QED
    BY <1>3, <2>1, <2>2 DEF Crashed, TypeOK
<1>4. QED
  BY <1>1, <1>2, <1>3 DEF Join

LEMMA ReapType ==
  ASSUME TypeOK, NEW t \in DOMAIN tasks, Reap(t)
  PROVE  TypeOK'
<1>1. [tasks[t] EXCEPT !.state = "joined"] \in TaskRecord
  BY TaskType DEF TaskRecord
<1>2. tasks' = [tasks EXCEPT ![t] = [tasks[t] EXCEPT !.state = "joined"]]
  BY DEF Reap
<1>3. permits' \in Nat
  BY DEF Reap, TypeOK
<1>4. used' \in 0..MaxRequests /\ UNCHANGED engineOnly
  BY DEF Reap, TypeOK
<1>5. QED
  BY <1>1, <1>2, <1>3, <1>4, TaskStepType

(* The completion in hand while consider_pivots runs. *)
LEMMA InHand ==
  ASSUME TypeOK, ControlOK, pc = "pivot"
  PROVE  /\ current.task \in DOMAIN tasks
         /\ current.task \notin pending
         /\ current.outcome \in Answers
         /\ current.candidates \in Seq(Indicators)
         /\ PivotDepth \in 0..DepthCap
<1>1. /\ current.task \in DOMAIN tasks /\ current.task \notin pending
      /\ current.outcome \in Answers
  BY DEF ControlOK
<1>2. tasks[current.task].depth \in 0..DepthCap
  BY <1>1, TaskType DEF TaskRecord
<1>3. PivotDepth \in 0..DepthCap
  BY <1>2, ChildDepthType DEF PivotDepth
<1>4. QED
  BY <1>1, <1>3 DEF TypeOK

LEMMA ConsideringType ==
  ASSUME TypeOK, Considering
  PROVE  /\ Pivot \in Indicators
         /\ current' \in [task : Nat, outcome : Answers \cup {"none"},
                          candidates : Seq(Indicators)]
         /\ current'.task = current.task
         /\ current'.outcome = current.outcome
<1>1. current \in [task : Nat, outcome : Answers \cup {"none"},
                   candidates : Seq(Indicators)]
  BY DEF TypeOK
<1>2. /\ current.candidates \in Seq(Indicators)
      /\ current.candidates # <<>>
      /\ current' = [current EXCEPT !.candidates = Tail(current.candidates)]
  BY <1>1 DEF Considering
<1>3. Pivot \in Indicators /\ Tail(current.candidates) \in Seq(Indicators)
  BY <1>2, HeadTailProperties DEF Pivot
<1>4. QED
  BY <1>1, <1>2, <1>3

LEMMA PivotType ==
  ASSUME TypeOK, ControlOK,
         SkipPivot \/ DropPivot \/ FollowPivot \/ RecordAnswer
  PROVE  TypeOK'
<1>1. CASE SkipPivot
  BY <1>1, ConsideringType DEF SkipPivot, TypeOK
<1>2. CASE DropPivot
  <2>1. dropped' \subseteq Indicators /\ IsFiniteSet(dropped')
    BY <1>2, ConsideringType, FS_AddElement DEF DropPivot, TypeOK
  <2>2. QED
    BY <1>2, <2>1, ConsideringType DEF DropPivot, TypeOK
<1>3. CASE FollowPivot
  <2>1. Considering /\ pc = "pivot"
    BY <1>3 DEF FollowPivot, Considering
  <2>2. visited' \subseteq Indicators /\ IsFiniteSet(visited')
    BY <1>3, <2>1, ConsideringType, FS_AddElement DEF FollowPivot, TypeOK
  <2>3. cursor' \in [indicator : Indicators, depth : 0..DepthCap,
                     next : Nat \ {0}]
    BY <1>3, <2>1, ConsideringType, InHand DEF FollowPivot
  <2>4. stats.pivots_followed + 1 \in Nat
    BY DEF TypeOK
  <2>5. stats' \in [source_runs : Nat, pivots_followed : Nat,
                    pivots_dropped : Nat, requests_used : Nat,
                    deadline_exceeded : BOOLEAN]
    BY <1>3, <2>4 DEF FollowPivot, TypeOK
  <2>6. QED
    BY <1>3, <2>1, <2>2, <2>3, <2>5, ConsideringType DEF FollowPivot, TypeOK
<1>4. CASE RecordAnswer
  <2>1. pc = "pivot"
    BY <1>4 DEF RecordAnswer
  <2>2. RunOf(current.task) \in Runs /\ current.outcome \in Outcomes
    BY <2>1, InHand, TaskType DEF Answers, Outcomes
  <2>3. statuses' \in [Runs -> Seq(Outcomes)]
    BY <1>4, <2>2, RecordType DEF RecordAnswer, TypeOK
  <2>4. current' \in [task : Nat, outcome : Answers \cup {"none"},
                      candidates : Seq(Indicators)]
    BY <1>4 DEF RecordAnswer, Idle
  <2>5. QED
    BY <1>4, <2>3, <2>4 DEF RecordAnswer, TypeOK
<1>5. QED
  BY <1>1, <1>2, <1>3, <1>4

LEMMA CloseType ==
  ASSUME TypeOK,
         Elapse \/ DrainPending \/ AllJoined \/ Report \/ DeadlinePasses
  PROVE  TypeOK'
<1>1. CASE Elapse
  BY <1>1 DEF Elapse, TypeOK
<1>2. CASE DrainPending
  <2>1. ASSUME NEW r \in Runs
        PROVE  Append(statuses[r], "timed_out_investigation") \in Seq(Outcomes)
    BY AppendProperties DEF TypeOK, Outcomes
  <2>2. statuses' \in [Runs -> Seq(Outcomes)]
    BY <1>2, <2>1 DEF DrainPending, CutOff, TypeOK
  <2>3. QED
    BY <1>2, <2>2 DEF DrainPending, TypeOK
<1>3. CASE AllJoined
  BY <1>3 DEF AllJoined, TypeOK
<1>4. CASE Report
  <2>1. ASSUME NEW r \in Runs
        PROVE  Append(statuses[r], "unsupported") \in Seq(Outcomes)
    BY AppendProperties DEF TypeOK, Outcomes
  <2>2. statuses' \in [Runs -> Seq(Outcomes)]
    BY <1>4, <2>1 DEF Report, TypeOK
  <2>3. Cardinality(dropped) \in Nat /\ overflow \in Nat
    BY FS_CardinalityType DEF TypeOK
  <2>4. Cardinality(dropped) + overflow \in Nat
    BY <2>3
  <2>5. used \in Nat
    BY LimitsAssumption DEF TypeOK
  <2>6. stats' \in [source_runs : Nat, pivots_followed : Nat,
                    pivots_dropped : Nat, requests_used : Nat,
                    deadline_exceeded : BOOLEAN]
    BY <1>4, <2>4, <2>5 DEF Report, FinalStats, TypeOK
  <2>7. QED
    BY <1>4, <2>2, <2>6 DEF Report, TypeOK
<1>5. CASE DeadlinePasses
  BY <1>5 DEF DeadlinePasses, TypeOK
<1>6. QED
  BY <1>1, <1>2, <1>3, <1>4, <1>5

LEMMA StepType ==
  ASSUME TypeOK, ControlOK, [Next]_vars
  PROVE  TypeOK'
<1>1. CASE Sequential
  BY <1>1, StartType, ScheduleType, PivotType, CloseType DEF Sequential
<1>2. CASE \E t \in DOMAIN tasks : Join(t) \/ Reap(t) \/ Task(t)
  BY <1>2, JoinType, ReapType, TaskActionType
<1>3. CASE DeadlinePasses
  BY <1>3, CloseType
<1>4. CASE Over \/ UNCHANGED vars
  BY <1>4 DEF Over, vars, TypeOK
<1>5. QED
  BY <1>1, <1>2, <1>3, <1>4 DEF Next

-----------------------------------------------------------------------------
(* The control of the engine's future *)

LEMMA IdleTask == Idle.task = 0
  BY DEF Idle

LEMMA InitControl == Init => ControlOK
  BY DEF Init, ControlOK

LEMMA StepControl ==
  ASSUME TypeOK, ControlOK, [Next]_vars
  PROVE  ControlOK'
<1> USE DEF ControlOK
<1>1. DOMAIN tasks = 1..Len(tasks) /\ Len(tasks) \in Nat
  BY LenProperties DEF TypeOK
<1>2. CASE Register \/ RefuseDuplicate \/ Investigate \/ RefuseTarget
  BY <1>2 DEF Register, RefuseDuplicate, Investigate, RefuseTarget
<1>3. CASE SkipCollector \/ MarkUnavailable \/ EndSchedule
  BY <1>3 DEF SkipCollector, MarkUnavailable, EndSchedule, Scheduling
<1>4. CASE Spawn
  <2> DEFINE new == NewTask(Source, cursor.indicator, cursor.depth)
  <2>1. Scheduling
    BY <1>4 DEF Spawn
  <2>2. new \in TaskRecord
    BY <2>1, CursorType, NewTaskType
  <2>3. tasks' = Append(tasks, new) /\ tasks \in Seq(TaskRecord)
    BY <1>4 DEF Spawn, TypeOK
  <2> HIDE DEF new
  <2>4. DOMAIN tasks' = 1..(Len(tasks) + 1)
    BY <2>2, <2>3, AppendProperties, LenProperties
  <2>5. current.task \in DOMAIN tasks => current.task # Len(tasks) + 1
    BY <1>1
  <2>6. DOMAIN tasks \subseteq DOMAIN tasks'
    BY <1>1, <2>4
  <2>7. QED
    BY <1>4, <2>1, <2>5, <2>6 DEF Spawn, Scheduling
<1>5. CASE SkipPivot \/ DropPivot \/ FollowPivot
  <2>1. Considering /\ pc = "pivot"
    BY <1>5 DEF SkipPivot, DropPivot, FollowPivot, Considering
  <2>2. /\ current'.task = current.task
        /\ current'.outcome = current.outcome
    BY <2>1, ConsideringType
  <2>3. /\ current.task \in DOMAIN tasks \ pending
        /\ current.outcome \in Answers
    BY <2>1
  <2>4. current' # Idle
    BY <1>1, <2>2, <2>3, IdleTask
  <2>5. UNCHANGED <<tasks, pending>> /\ pc' \in {"pivot", "schedule"}
    BY <1>5, <2>1 DEF SkipPivot, DropPivot, FollowPivot
  <2>6. QED
    BY <2>2, <2>3, <2>4, <2>5
<1>6. CASE RecordAnswer
  BY <1>6 DEF RecordAnswer
<1>7. CASE Elapse \/ DrainPending \/ AllJoined \/ Report \/ DeadlinePasses
  BY <1>7 DEF Elapse, DrainPending, AllJoined, Report, DeadlinePasses
<1>8. ASSUME NEW t \in DOMAIN tasks, CompleteOk(t)
      PROVE  ControlOK'
  <2>1. /\ DOMAIN tasks' = DOMAIN tasks
        /\ pending' = pending \ {t}
    BY <1>8, JoinedType DEF CompleteOk, Joinable
  <2>2. /\ current'.task = t
        /\ current'.outcome \in Answers
        /\ pc' = "pivot"
    BY <1>8 DEF CompleteOk, Answers
  <2>3. current' # Idle
    BY <1>1, <2>2, IdleTask
  <2>4. QED
    BY <2>1, <2>2, <2>3
<1>9. ASSUME NEW t \in DOMAIN tasks, CompleteError(t) \/ Crashed(t)
      PROVE  ControlOK'
  BY <1>9 DEF CompleteError, Crashed, Joinable
<1>10. ASSUME NEW t \in DOMAIN tasks, Reap(t)
       PROVE  ControlOK'
  BY <1>10 DEF Reap
<1>11. ASSUME NEW t \in DOMAIN tasks, Task(t)
       PROVE  ControlOK'
  <2>1. UNCHANGED engineOnly
    BY <1>11 DEF Task, Acquire, Request, RequestDenied, Return, Fail,
                 FailOnBudget, SourceTimeout, Panic, End
  <2>2. DOMAIN tasks' = DOMAIN tasks
    BY <1>11 DEF Task, Acquire, Request, RequestDenied, Return, Fail,
                 FailOnBudget, SourceTimeout, Panic, End
  <2>3. pc # "register"
    BY <1>11, LenProperties DEF TypeOK
  <2>4. QED
    BY <2>1, <2>2, <2>3
<1>12. CASE Over \/ UNCHANGED vars
  BY <1>12 DEF Over, vars
<1>13. QED
  BY <1>2, <1>3, <1>4, <1>5, <1>6, <1>7, <1>8, <1>9, <1>10, <1>11, <1>12
     DEF Next, Sequential, Join

-----------------------------------------------------------------------------
(* One status per run *)

(* A step that leaves the tasks' sources and indicators as they are. *)
SameRuns ==
  /\ DOMAIN tasks' = DOMAIN tasks
  /\ \A u \in DOMAIN tasks : /\ tasks'[u].source = tasks[u].source
                             /\ tasks'[u].indicator = tasks[u].indicator

(* The part of RunInvariant that is not about types and control. *)
Bookkeeping ==
  /\ RegistryDistinct
  /\ TasksAreJustified
  /\ CursorAhead
  /\ NoRepeatedRun
  /\ StatusesAreJustified
  /\ OneStatusPerRun

LEMMA RecordEffect ==
  ASSUME TypeOK, NEW r \in Runs, NEW o \in Outcomes
  PROVE  /\ Len(Record(r, o)[r]) = Len(statuses[r]) + 1
         /\ \A q \in Runs : q # r => Record(r, o)[q] = statuses[q]
<1>1. statuses \in [Runs -> Seq(Outcomes)]
  BY DEF TypeOK
<1>2. statuses[r] \in Seq(Outcomes)
  BY <1>1
<1>3. Record(r, o)[r] = Append(statuses[r], o)
  BY <1>1 DEF Record
<1>4. \A q \in Runs : q # r => Record(r, o)[q] = statuses[q]
  BY <1>1 DEF Record
<1>5. QED
  BY <1>2, <1>3, <1>4, AppendProperties

(* Steps that move neither runs, statuses nor what is settled. *)
LEMMA FrameStep ==
  ASSUME RunInvariant, SameRuns,
         UNCHANGED <<registry, visited, considered, statuses, pending>>,
         current'.task = current.task,
         pc = "done" => pc' = "done",
         pc' = "schedule" => UNCHANGED <<cursor, pc>>
  PROVE  Bookkeeping'
<1>1. \A u \in DOMAIN tasks : RunOf(u)' = RunOf(u)
  BY DEF SameRuns, RunOf
<1>2. RegistryDistinct' /\ TasksAreJustified'
  BY DEF RunInvariant, RegistryDistinct, TasksAreJustified, SameRuns, Registered
<1>3. CursorAhead'
  BY DEF RunInvariant, CursorAhead, SameRuns
<1>4. NoRepeatedRun'
  BY <1>1 DEF RunInvariant, NoRepeatedRun, SameRuns
<1>5. StatusesAreJustified'
  BY <1>1 DEF RunInvariant, StatusesAreJustified, SameRuns
<1>6. OneStatusPerRun'
  BY <1>1 DEF RunInvariant, OneStatusPerRun, SameRuns, Unsettled
<1>7. QED
  BY <1>2, <1>3, <1>4, <1>5, <1>6 DEF Bookkeeping

(* Steps that give one unsettled run its status. *)
LEMMA SettleStep ==
  ASSUME RunInvariant, SameRuns, NEW t \in DOMAIN tasks, Unsettled(t),
         NEW o \in Outcomes, statuses' = Record(RunOf(t), o),
         \A u \in DOMAIN tasks : Unsettled(u)' <=> (Unsettled(u) /\ u # t),
         UNCHANGED <<registry, visited, considered>>,
         pc = "join" \/ pc = "pivot", pc' = "join"
  PROVE  Bookkeeping'
<1>1. \A u \in DOMAIN tasks : RunOf(u)' = RunOf(u)
  BY DEF SameRuns, RunOf
<1>2. RegistryDistinct' /\ TasksAreJustified' /\ CursorAhead'
  BY DEF RunInvariant, RegistryDistinct, TasksAreJustified, CursorAhead,
         SameRuns, Registered
<1>3. NoRepeatedRun'
  BY <1>1 DEF RunInvariant, NoRepeatedRun, SameRuns
<1>4. \A u \in DOMAIN tasks : RunOf(u) \in Runs
  BY TaskType DEF RunInvariant
<1>5. /\ Len(statuses'[RunOf(t)]) = Len(statuses[RunOf(t)]) + 1
      /\ \A q \in Runs : q # RunOf(t) => statuses'[q] = statuses[q]
  BY <1>4, RecordEffect DEF RunInvariant
<1>6. Len(statuses[RunOf(t)]) = 0
  BY DEF RunInvariant, OneStatusPerRun
<1>7. StatusesAreJustified'
  <2> SUFFICES ASSUME NEW r \in Runs, statuses'[r] # <<>>
               PROVE  \/ r[1] \notin Ready
                      \/ \E u \in DOMAIN tasks' : RunOf(u)' = r
    BY DEF StatusesAreJustified
  <2>1. CASE r = RunOf(t)
    BY <1>1, <2>1 DEF SameRuns
  <2>2. CASE r # RunOf(t)
    <3>1. statuses[r] # <<>>
      BY <1>5, <2>2
    <3>2. r[1] \notin Ready \/ \E u \in DOMAIN tasks : RunOf(u) = r
      BY <3>1 DEF RunInvariant, StatusesAreJustified
    <3>3. QED
      BY <1>1, <3>2 DEF SameRuns
  <2>3. QED
    BY <2>1, <2>2
<1>8. OneStatusPerRun'
  <2> SUFFICES ASSUME NEW u \in DOMAIN tasks
               PROVE  Len(statuses'[RunOf(u)]) = IF Unsettled(u)' THEN 0 ELSE 1
    BY <1>1 DEF OneStatusPerRun, SameRuns
  <2>1. CASE u = t
    <3>1. ~Unsettled(u)'
      BY <2>1 DEF Unsettled
    <3>2. Len(statuses'[RunOf(u)]) = 1
      BY <1>5, <1>6, <2>1
    <3>3. QED
      BY <3>1, <3>2
  <2>2. CASE u # t
    <3>1. RunOf(u) # RunOf(t)
      BY <2>2 DEF RunInvariant, NoRepeatedRun
    <3>2. statuses'[RunOf(u)] = statuses[RunOf(u)]
      BY <1>4, <1>5, <3>1
    <3>3. Len(statuses[RunOf(u)]) = IF Unsettled(u) THEN 0 ELSE 1
      BY DEF RunInvariant, OneStatusPerRun
    <3>4. Unsettled(u)' <=> Unsettled(u)
      BY <2>2 DEF Unsettled
    <3>5. CASE Unsettled(u)
      BY <3>2, <3>3, <3>4, <3>5
    <3>6. CASE ~Unsettled(u)
      BY <3>2, <3>3, <3>4, <3>6
    <3>7. QED
      BY <3>5, <3>6
  <2>3. QED
    BY <2>1, <2>2
<1>9. QED
  BY <1>2, <1>3, <1>7, <1>8 DEF Bookkeeping

(* Nothing has been spawned before the investigation starts. *)
LEMMA StartStep ==
  ASSUME RunInvariant,
         Register \/ RefuseDuplicate \/ Investigate \/ RefuseTarget
  PROVE  Bookkeeping'
<1>1. pc = "register" /\ tasks = <<>>
  BY DEF RunInvariant, ControlOK, Register, RefuseDuplicate, Investigate,
         RefuseTarget
<1>2. UNCHANGED <<tasks, statuses>>
  BY DEF Register, RefuseDuplicate, Investigate, RefuseTarget
<1>3. TasksAreJustified' /\ NoRepeatedRun' /\ OneStatusPerRun'
  BY <1>1, <1>2 DEF TasksAreJustified, NoRepeatedRun, OneStatusPerRun
<1>4. StatusesAreJustified'
  BY <1>1, <1>2 DEF RunInvariant, StatusesAreJustified
<1>5. CursorAhead'
  BY <1>1, <1>2 DEF CursorAhead, Register, RefuseDuplicate, Investigate,
                    RefuseTarget, NoCursor
<1>6. RegistryDistinct'
  <2>1. CASE Register
    <3> DEFINE new == submitted[Len(registry) + 1]
    <3>1. new \in Sources
      BY <2>1, ElementOfSeq, LenProperties DEF Register, RunInvariant, TypeOK
    <3>2. /\ registry' = Append(registry, new)
          /\ registry \in Seq(Sources)
          /\ \A k \in DOMAIN registry : registry[k] # new
      BY <2>1 DEF Register, Taken, NewID, RunInvariant, TypeOK, Registered
    <3> HIDE DEF new
    <3>3. /\ DOMAIN registry = 1..Len(registry)
          /\ DOMAIN registry' = 1..(Len(registry) + 1)
          /\ \A k \in 1..Len(registry) : registry'[k] = registry[k]
          /\ registry'[Len(registry) + 1] = new
          /\ Len(registry) \in Nat
      BY <3>1, <3>2, AppendProperties, LenProperties
    <3>4. QED
      BY <3>2, <3>3 DEF RegistryDistinct, RunInvariant
  <2>2. CASE RefuseDuplicate \/ Investigate \/ RefuseTarget
    BY <2>2 DEF RefuseDuplicate, Investigate, RefuseTarget, RunInvariant,
                RegistryDistinct
  <2>3. QED
    BY <2>1, <2>2
<1>7. QED
  BY <1>3, <1>4, <1>5, <1>6 DEF Bookkeeping

LEMMA SkipStep ==
  ASSUME RunInvariant, SkipCollector \/ MarkUnavailable
  PROVE  Bookkeeping'
<1>1. TypeOK /\ Scheduling /\ pc = "schedule" /\ pc' = "schedule" /\ NextCollector
  BY DEF RunInvariant, SkipCollector, MarkUnavailable, Scheduling
<1>2. UNCHANGED <<registry, visited, tasks, pending, current>>
  BY DEF SkipCollector, MarkUnavailable
<1>3. considered \subseteq considered'
  BY DEF SkipCollector, MarkUnavailable, Consider
<1>4. RegistryDistinct' /\ TasksAreJustified' /\ NoRepeatedRun'
  BY <1>2, <1>3 DEF RunInvariant, RegistryDistinct, TasksAreJustified,
                    NoRepeatedRun, RunOf, Registered
<1>5. CursorAhead'
  <2>1. /\ cursor'.indicator = cursor.indicator
        /\ cursor'.next = cursor.next + 1
        /\ cursor.next \in Nat
    BY <1>1 DEF NextCollector, TypeOK
  <2>2. \A k \in DOMAIN registry : k \in Nat
    BY <1>1, LenProperties DEF TypeOK
  <2>3. \A k \in DOMAIN registry : k < cursor.next => k < cursor'.next
    BY <2>1, <2>2
  <2>4. QED
    BY <1>1, <1>2, <2>1, <2>3 DEF RunInvariant, CursorAhead
<1>6. \A t \in DOMAIN tasks : RunOf(t) \in Runs /\ RunOf(t)[1] \in Ready
  BY <1>1, TaskType DEF RunInvariant, TasksAreJustified, RunOf
<1>7. \A r \in Runs : r[1] \in Ready => statuses'[r] = statuses[r]
  <2>1. CASE statuses' = statuses
    BY <2>1
  <2>2. CASE /\ Source \notin Ready
             /\ statuses' = Record(<<Source, cursor.indicator>>, "unavailable")
    <3>1. <<Source, cursor.indicator>> \in Runs
      BY <1>1, CursorType
    <3>2. "unavailable" \in Outcomes
      BY DEF Outcomes
    <3>3. \A q \in Runs : q # <<Source, cursor.indicator>> =>
            statuses'[q] = statuses[q]
      BY <1>1, <2>2, <3>1, <3>2, RecordEffect
    <3>4. QED
      BY <2>2, <3>3
  <2>3. QED
    BY <2>1, <2>2 DEF SkipCollector, MarkUnavailable
<1>8. StatusesAreJustified'
  BY <1>1, <1>2, <1>7 DEF RunInvariant, StatusesAreJustified, RunOf
<1>9. OneStatusPerRun'
  BY <1>2, <1>6, <1>7 DEF RunInvariant, OneStatusPerRun, RunOf, Unsettled
<1>10. QED
  BY <1>4, <1>5, <1>8, <1>9 DEF Bookkeeping

(* The heart of "exactly one status": a collector is spawned for an        *)
(* indicator only once, and before it has a status there.                  *)
(* The new task is for a run that no task is for and that has no status. *)
LEMMA SpawnEffect ==
  ASSUME RunInvariant, Spawn
  PROVE  /\ <<Source, cursor.indicator>> \in Runs
         /\ statuses[<<Source, cursor.indicator>>] = <<>>
         /\ \A u \in DOMAIN tasks : RunOf(u) # <<Source, cursor.indicator>>
         /\ \E n \in Nat \ {0} :
              /\ n \notin DOMAIN tasks
              /\ DOMAIN tasks' = DOMAIN tasks \cup {n}
              /\ pending' = pending \cup {n}
              /\ \A u \in DOMAIN tasks : tasks'[u] = tasks[u]
              /\ tasks'[n].source = Source
              /\ tasks'[n].indicator = cursor.indicator
              /\ tasks'[n].depth = cursor.depth
              /\ tasks'[n].state = "queued"
<1>0. PICK n \in Nat : n = Len(tasks) + 1
  BY LenProperties DEF RunInvariant, TypeOK
<1> DEFINE new == NewTask(Source, cursor.indicator, cursor.depth)
           run == <<Source, cursor.indicator>>
<1>1. /\ TypeOK /\ Scheduling /\ pc = "schedule" /\ pc' = "schedule"
      /\ NextCollector /\ Source \in Ready
      /\ UNCHANGED <<registry, visited, statuses, current>>
      /\ considered' = considered \cup {Source}
      /\ tasks' = Append(tasks, new)
      /\ pending' = pending \cup {n}
  BY <1>0 DEF RunInvariant, Spawn, Consider, Scheduling
<1>2. /\ new \in TaskRecord /\ new.source = Source
      /\ new.indicator = cursor.indicator
      /\ new.depth = cursor.depth
      /\ new.state = "queued"
  BY <1>1, CursorType, NewTaskType DEF NewTask
<1>3. /\ cursor.next \in DOMAIN registry
      /\ Source = registry[cursor.next]
      /\ Source \in Registered
      /\ \A k \in DOMAIN registry : k \in Nat
      /\ cursor.next \in Nat
  <2>1. /\ DOMAIN registry = 1..Len(registry) /\ Len(registry) \in Nat
        /\ cursor.next \in 1..Len(registry)
    BY <1>1, CursorType, LenProperties DEF TypeOK
  <2>2. QED
    BY <2>1 DEF Source, Registered
<1>4. run \in Runs
  BY <1>1, CursorType
<1> HIDE DEF new
<1>5. /\ DOMAIN tasks = 1..Len(tasks) /\ Len(tasks) \in Nat
      /\ DOMAIN tasks' = 1..n
      /\ \A u \in DOMAIN tasks : tasks'[u] = tasks[u]
      /\ tasks'[n] = new
  BY <1>0, <1>1, <1>2, AppendProperties, LenProperties DEF TypeOK
<1>6. /\ DOMAIN tasks' = DOMAIN tasks \cup {n}
      /\ n \notin DOMAIN tasks
  BY <1>0, <1>5
(* The collectors before the cursor are other sources. *)
<1>7. \A u \in DOMAIN tasks : RunOf(u) # run
  <2> SUFFICES ASSUME NEW u \in DOMAIN tasks, RunOf(u) = run
               PROVE  FALSE
    OBVIOUS
  <2>1. tasks[u].indicator = cursor.indicator /\ tasks[u].source = Source
    BY DEF RunOf
  <2>2. PICK k \in DOMAIN registry :
          k < cursor.next /\ registry[k] = tasks[u].source
    BY <1>1, <2>1 DEF RunInvariant, CursorAhead
  <2>3. k = cursor.next
    BY <1>3, <2>1, <2>2 DEF RunInvariant, RegistryDistinct
  <2>4. QED
    BY <1>3, <2>2, <2>3
<1>8. statuses[run] = <<>>
  BY <1>1, <1>4, <1>7 DEF RunInvariant, StatusesAreJustified
<1>9. n # 0
  BY <1>0, <1>5
<1>10. QED
  BY <1>1, <1>2, <1>4, <1>5, <1>6, <1>7, <1>8, <1>9

LEMMA SpawnStep ==
  ASSUME RunInvariant, Spawn
  PROVE  Bookkeeping'
<1> DEFINE run == <<Source, cursor.indicator>>
<1>1. /\ TypeOK /\ Scheduling /\ pc = "schedule" /\ pc' = "schedule"
      /\ NextCollector /\ Source \in Ready
      /\ UNCHANGED <<registry, visited, statuses, current>>
      /\ considered' = considered \cup {Source}
  BY DEF RunInvariant, Spawn, Consider, Scheduling
<1>2. PICK n \in Nat \ {0} :
        /\ n \notin DOMAIN tasks
        /\ DOMAIN tasks' = DOMAIN tasks \cup {n}
        /\ pending' = pending \cup {n}
        /\ \A u \in DOMAIN tasks : tasks'[u] = tasks[u]
        /\ tasks'[n].source = Source
        /\ tasks'[n].indicator = cursor.indicator
  BY SpawnEffect
<1>3. /\ cursor.next \in DOMAIN registry
      /\ Source = registry[cursor.next]
      /\ Source \in Registered
      /\ \A k \in DOMAIN registry : k \in Nat
      /\ cursor.next \in Nat
  <2>1. /\ DOMAIN registry = 1..Len(registry) /\ Len(registry) \in Nat
        /\ cursor.next \in 1..Len(registry)
    BY <1>1, CursorType, LenProperties DEF TypeOK
  <2>2. QED
    BY <2>1 DEF Source, Registered
<1>4. run \in Runs /\ statuses[run] = <<>>
  BY SpawnEffect
<1>5. \A u \in DOMAIN tasks : RunOf(u) # run
  BY SpawnEffect
<1>6. /\ \A u \in DOMAIN tasks : RunOf(u)' = RunOf(u)
      /\ RunOf(n)' = run
  BY <1>2 DEF RunOf
<1>7. RegistryDistinct'
  BY <1>1 DEF RunInvariant, RegistryDistinct
<1>8. TasksAreJustified'
  <2>1. cursor.indicator \in visited
    BY <1>1 DEF RunInvariant, CursorAhead
  <2>2. QED
    BY <1>1, <1>2, <1>3, <2>1
       DEF RunInvariant, TasksAreJustified, Registered
<1>9. CursorAhead'
  <2>1. /\ cursor'.indicator = cursor.indicator
        /\ cursor'.next = cursor.next + 1
    BY <1>1 DEF NextCollector, TypeOK
  <2>2. cursor.next < cursor'.next
    BY <1>3, <2>1
  <2>3. \A k \in DOMAIN registry : k < cursor.next => k < cursor'.next
    BY <1>3, <2>1
  <2>4. QED
    BY <1>1, <1>2, <1>3, <2>1, <2>2, <2>3
       DEF RunInvariant, CursorAhead
<1>10. NoRepeatedRun'
  BY <1>2, <1>5, <1>6 DEF RunInvariant, NoRepeatedRun
<1>11. StatusesAreJustified'
  BY <1>1, <1>2, <1>6 DEF RunInvariant, StatusesAreJustified
<1>12. OneStatusPerRun'
  <2> SUFFICES ASSUME NEW u \in DOMAIN tasks'
               PROVE  Len(statuses[RunOf(u)']) = IF Unsettled(u)' THEN 0 ELSE 1
    BY <1>1 DEF OneStatusPerRun
  <2>1. CASE u = n
    <3>1. Unsettled(u)'
      BY <1>2, <2>1 DEF Unsettled
    <3>2. Len(statuses[RunOf(u)']) = 0
      BY <1>4, <1>6, <2>1
    <3>3. QED
      BY <3>1, <3>2
  <2>2. CASE u \in DOMAIN tasks
    <3>1. Unsettled(u)' <=> Unsettled(u)
      BY <1>1, <1>2, <2>2 DEF Unsettled
    <3>2. Len(statuses[RunOf(u)]) = IF Unsettled(u) THEN 0 ELSE 1
      BY <2>2 DEF RunInvariant, OneStatusPerRun
    <3>3. QED
      BY <1>6, <2>2, <3>1, <3>2
  <2>3. QED
    BY <1>2, <2>1, <2>2
<1>13. QED
  BY <1>7, <1>8, <1>9, <1>10, <1>11, <1>12 DEF Bookkeeping

LEMMA FollowStep ==
  ASSUME RunInvariant, FollowPivot
  PROVE  Bookkeeping'
<1>1. /\ TypeOK /\ Considering /\ pc = "pivot" /\ pc' = "schedule"
      /\ UNCHANGED <<registry, considered, tasks, pending, statuses>>
      /\ visited' = visited \cup {Pivot}
      /\ cursor'.indicator = Pivot
      /\ Pivot \notin visited
  BY DEF RunInvariant, FollowPivot, Considering, Seen
<1>2. current'.task = current.task
  BY <1>1, ConsideringType
<1>3. CursorAhead'
  BY <1>1 DEF RunInvariant, CursorAhead, TasksAreJustified
<1>4. RegistryDistinct' /\ TasksAreJustified' /\ NoRepeatedRun'
  BY <1>1 DEF RunInvariant, RegistryDistinct, TasksAreJustified,
              NoRepeatedRun, RunOf, Registered
<1>5. StatusesAreJustified' /\ OneStatusPerRun'
  BY <1>1, <1>2 DEF RunInvariant, StatusesAreJustified, OneStatusPerRun,
                    RunOf, Unsettled
<1>6. QED
  BY <1>3, <1>4, <1>5 DEF Bookkeeping

LEMMA ConsiderStep ==
  ASSUME RunInvariant, SkipPivot \/ DropPivot
  PROVE  Bookkeeping'
<1>1. Considering /\ TypeOK
  BY DEF RunInvariant, SkipPivot, DropPivot
<1>2. current'.task = current.task
  BY <1>1, ConsideringType
<1>3. /\ UNCHANGED <<registry, visited, considered, statuses, pending, tasks, pc>>
      /\ pc = "pivot"
  BY <1>1 DEF SkipPivot, DropPivot, Considering
<1>4. SameRuns
  BY <1>3 DEF SameRuns
<1>5. QED
  BY <1>2, <1>3, <1>4, FrameStep

LEMMA AnswerStep ==
  ASSUME RunInvariant, RecordAnswer
  PROVE  Bookkeeping'
<1> DEFINE t == current.task
<1>1. pc = "pivot" /\ pc' = "join"
  BY DEF RecordAnswer
<1>2. t \in DOMAIN tasks /\ t \notin pending /\ current.outcome \in Outcomes
  BY <1>1, InHand DEF RunInvariant, Answers, Outcomes
<1>3. /\ UNCHANGED <<registry, visited, considered, pending, tasks>>
      /\ statuses' = Record(RunOf(t), current.outcome)
      /\ current'.task = 0
  BY IdleTask DEF RecordAnswer
<1>4. \A u \in DOMAIN tasks : u # 0
  BY LenProperties DEF RunInvariant, TypeOK
<1>5. SameRuns
  BY <1>3 DEF SameRuns
<1>6. \A u \in DOMAIN tasks : Unsettled(u)' <=> (Unsettled(u) /\ u # t)
  BY <1>2, <1>3, <1>4 DEF Unsettled
<1>7. Unsettled(t)
  BY DEF Unsettled
<1> HIDE DEF t
<1>8. QED
  BY <1>1, <1>2, <1>3, <1>5, <1>6, <1>7, SettleStep

LEMMA JoinableRuns ==
  ASSUME RunInvariant, NEW t \in DOMAIN tasks, Joinable(t)
  PROVE  /\ SameRuns
         /\ pending' = pending \ {t}
         /\ t \in pending
         /\ pc = "join"
         /\ current = Idle
         /\ \A u \in DOMAIN tasks : u # 0
<1>1. tasks' = [tasks EXCEPT ![t] = [tasks[t] EXCEPT !.state = "joined"]]
  BY DEF Joinable
<1>2. tasks[t] \in TaskRecord
  BY TaskType DEF RunInvariant
<1>3. SameRuns
  BY <1>1, <1>2 DEF SameRuns, TaskRecord
<1>4. \A u \in DOMAIN tasks : u # 0
  BY LenProperties DEF RunInvariant, TypeOK
<1>5. QED
  BY <1>3, <1>4 DEF Joinable, RunInvariant, ControlOK

LEMMA JoinStep ==
  ASSUME RunInvariant, NEW t \in DOMAIN tasks, Join(t)
  PROVE  Bookkeeping'
<1>1. Joinable(t)
  BY DEF Join, CompleteOk, CompleteError, Crashed
<1>2. /\ SameRuns
      /\ pending' = pending \ {t}
      /\ t \in pending
      /\ pc = "join"
      /\ current = Idle
      /\ \A u \in DOMAIN tasks : u # 0
  BY <1>1, JoinableRuns
<1>3. UNCHANGED <<registry, visited, considered>>
  BY DEF Join, CompleteOk, CompleteError, Crashed
<1>4. CASE CompleteOk(t)
  <2>1. UNCHANGED statuses /\ current'.task = t /\ pc' = "pivot"
    BY <1>4 DEF CompleteOk
  <2>2. \A u \in DOMAIN tasks : RunOf(u)' = RunOf(u)
    BY <1>2 DEF SameRuns, RunOf
  <2>3. \A u \in DOMAIN tasks : Unsettled(u)' <=> Unsettled(u)
    BY <1>2, <2>1, IdleTask DEF Unsettled
  <2>4. RegistryDistinct' /\ TasksAreJustified' /\ CursorAhead'
    BY <1>2, <1>3, <2>1 DEF RunInvariant, RegistryDistinct,
       TasksAreJustified, CursorAhead, SameRuns, Registered
  <2>5. NoRepeatedRun'
    BY <1>2, <2>2 DEF RunInvariant, NoRepeatedRun, SameRuns
  <2>6. StatusesAreJustified'
    BY <1>2, <2>1, <2>2 DEF RunInvariant, StatusesAreJustified, SameRuns
  <2>7. OneStatusPerRun'
    <3> SUFFICES ASSUME NEW u \in DOMAIN tasks
                 PROVE  Len(statuses[RunOf(u)])
                          = IF Unsettled(u)' THEN 0 ELSE 1
      BY <1>2, <2>1, <2>2 DEF OneStatusPerRun, SameRuns
    <3>1. Len(statuses[RunOf(u)]) = IF Unsettled(u) THEN 0 ELSE 1
      BY DEF RunInvariant, OneStatusPerRun
    <3>2. Unsettled(u)' <=> Unsettled(u)
      BY <1>2, <2>1, IdleTask DEF Unsettled
    <3>3. QED
      BY <3>1, <3>2
  <2>8. QED
    BY <2>4, <2>5, <2>6, <2>7 DEF Bookkeeping
<1>5. ASSUME NEW o \in Outcomes, statuses' = Record(RunOf(t), o),
             UNCHANGED <<pc, current>>
      PROVE  Bookkeeping'
  <2>1. Unsettled(t)
    BY <1>2 DEF Unsettled
  <2>2. \A u \in DOMAIN tasks : Unsettled(u)' <=> (Unsettled(u) /\ u # t)
    BY <1>2, <1>5, IdleTask DEF Unsettled
  <2>3. QED
    BY <1>2, <1>3, <1>5, <2>1, <2>2, SettleStep
<1>6. CASE CompleteError(t)
  <2>1. ErrorOutcome(tasks[t].result) \in Outcomes
    BY DEF ErrorOutcome, Outcomes
  <2>2. QED
    BY <1>5, <1>6, <2>1 DEF CompleteError
<1>7. CASE Crashed(t)
  BY <1>5, <1>7 DEF Crashed, Outcomes
<1>8. QED
  BY <1>4, <1>6, <1>7 DEF Join

(* What a task does, and its cancellation, is invisible to the report.     *)
(* A task changes its own record only, and keeps its run; it works on      *)
(* until it is joined or reaped.                                           *)
LEMMA TaskEffect ==
  ASSUME TypeOK, NEW t \in DOMAIN tasks, Task(t) \/ Reap(t)
  PROVE  /\ UNCHANGED engineOnly
         /\ SameRuns
         /\ Task(t) => \A u \in DOMAIN tasks :
                         tasks'[u].state = "joined" <=> tasks[u].state = "joined"
<1> DEFINE Keeps(rec) == /\ tasks' = [tasks EXCEPT ![t] = rec]
                         /\ rec.source = tasks[t].source
                         /\ rec.indicator = tasks[t].indicator
           Working(rec) == tasks[t].state # "joined" /\ rec.state # "joined"
<1>1. /\ tasks[t] \in TaskRecord
      /\ DOMAIN tasks = 1..Len(tasks)
  BY TaskType, LenProperties DEF TypeOK
<1>2. UNCHANGED engineOnly
  BY DEF Reap, Task, Acquire, Request, RequestDenied, Return, Fail,
         FailOnBudget, SourceTimeout, Panic, End
<1>3. CASE Task(t)
  <2> DEFINE Works == \E rec : Keeps(rec) /\ Working(rec)
  <2>1. ASSUME Acquire(t) PROVE Works
    <3> DEFINE new == [tasks[t] EXCEPT !.state = "running"]
    <3>1. tasks' = [tasks EXCEPT ![t] = new] /\ tasks[t].state = "queued"
      BY <2>1 DEF Acquire
    <3>2. /\ new.source = tasks[t].source /\ new.indicator = tasks[t].indicator
          /\ new.state = "running"
      BY <1>1 DEF TaskRecord
    <3> HIDE DEF new
    <3>3. Keeps(new) /\ Working(new)
      BY <3>1, <3>2
    <3>4. QED
      BY <3>3
  <2>2. ASSUME Request(t) PROVE Works
    <3> DEFINE new == OneMoreRequest(tasks[t])
    <3>1. tasks' = [tasks EXCEPT ![t] = new] /\ tasks[t].state = "running"
      BY <2>2 DEF Request, MayRequest
    <3>2. /\ new.source = tasks[t].source /\ new.indicator = tasks[t].indicator
          /\ new.state = tasks[t].state
      BY <1>1 DEF TaskRecord, OneMoreRequest
    <3> HIDE DEF new
    <3>3. Keeps(new) /\ Working(new)
      BY <3>1, <3>2
    <3>4. QED
      BY <3>3
  <2>3. ASSUME RequestDenied(t) PROVE Works
    <3> DEFINE new == [tasks[t] EXCEPT !.denied = TRUE]
    <3>1. tasks' = [tasks EXCEPT ![t] = new] /\ tasks[t].state = "running"
      BY <2>3 DEF RequestDenied, MayRequest
    <3>2. /\ new.source = tasks[t].source /\ new.indicator = tasks[t].indicator
          /\ new.state = tasks[t].state
      BY <1>1 DEF TaskRecord
    <3> HIDE DEF new
    <3>3. Keeps(new) /\ Working(new)
      BY <3>1, <3>2
    <3>4. QED
      BY <3>3
  <2>4. ASSUME NEW state \in {"finished", "crashed"}, NEW result, NEW c,
               End(t, state, result, c)
        PROVE  Works
    <3> DEFINE new == [tasks[t] EXCEPT !.state = state,
                                           !.result = result,
                                           !.collection = c]
    <3>1. tasks' = [tasks EXCEPT ![t] = new] /\ tasks[t].state = "running"
      BY <2>4 DEF End
    <3>2. /\ new.source = tasks[t].source /\ new.indicator = tasks[t].indicator
          /\ new.state = state
      BY <1>1 DEF TaskRecord
    <3> HIDE DEF new
    <3>3. Keeps(new) /\ Working(new)
      BY <3>1, <3>2
    <3>4. QED
      BY <3>3
  <2>5. ASSUME \/ Return(t) \/ Fail(t) \/ FailOnBudget(t)
               \/ SourceTimeout(t) \/ Panic(t)
        PROVE  Works
    <3> HIDE DEF Works
    <3> QED
      BY <2>4, <2>5 DEF Return, Fail, FailOnBudget, SourceTimeout, Panic
  <2>6. Works
    <3> HIDE DEF Works
    <3> QED
      BY <1>3, <2>1, <2>2, <2>3, <2>5 DEF Task
  <2>7. PICK rec : Keeps(rec) /\ Working(rec)
    BY <2>6
  <2>8. QED
    BY <1>1, <1>2, <2>7 DEF SameRuns
<1>4. CASE Reap(t) /\ ~Task(t)
  <2> DEFINE new == [tasks[t] EXCEPT !.state = "joined"]
  <2>1. tasks' = [tasks EXCEPT ![t] = new]
    BY <1>4 DEF Reap
  <2>2. new.source = tasks[t].source /\ new.indicator = tasks[t].indicator
    BY <1>1 DEF TaskRecord
  <2> HIDE DEF new
  <2>3. QED
    BY <1>1, <1>2, <1>4, <2>1, <2>2 DEF SameRuns
<1>5. QED
  BY <1>3, <1>4

LEMMA TaskStep ==
  ASSUME RunInvariant, NEW t \in DOMAIN tasks, Task(t) \/ Reap(t)
  PROVE  Bookkeeping'
<1>1. UNCHANGED engineOnly /\ SameRuns
  BY TaskEffect DEF RunInvariant
<1>2. QED
  BY <1>1, FrameStep

(* The deadline and the end of the investigation. *)
LEMMA DrainStep ==
  ASSUME RunInvariant, DrainPending
  PROVE  Bookkeeping'
<1>1. /\ pc = "cancel" /\ pc' = "report" /\ pending' = {} /\ current = Idle
      /\ UNCHANGED <<registry, visited, considered, tasks, current>>
      /\ TypeOK
  BY DEF RunInvariant, ControlOK, DrainPending
<1>2. \A u \in DOMAIN tasks : u # 0 /\ RunOf(u) \in Runs
  BY <1>1, TaskType, LenProperties DEF TypeOK
<1>3. \A r \in Runs :
        statuses'[r] = IF \E t \in pending : RunOf(t) = r
                       THEN Append(statuses[r], "timed_out_investigation")
                       ELSE statuses[r]
  BY DEF DrainPending, CutOff
<1>4. pending \subseteq DOMAIN tasks
  BY <1>1 DEF TypeOK
<1>5. RegistryDistinct' /\ TasksAreJustified' /\ CursorAhead' /\ NoRepeatedRun'
  BY <1>1 DEF RunInvariant, RegistryDistinct, TasksAreJustified, CursorAhead,
              NoRepeatedRun, RunOf, Registered
<1>6. StatusesAreJustified'
  <2> SUFFICES ASSUME NEW r \in Runs, statuses'[r] # <<>>
               PROVE  \/ r[1] \notin Ready
                      \/ \E u \in DOMAIN tasks : RunOf(u) = r
    BY <1>1 DEF StatusesAreJustified, RunOf
  <2>1. CASE \E t \in pending : RunOf(t) = r
    BY <1>4, <2>1
  <2>2. CASE ~\E t \in pending : RunOf(t) = r
    BY <1>1, <1>3, <2>2 DEF RunInvariant, StatusesAreJustified
  <2>3. QED
    BY <2>1, <2>2
<1>7. OneStatusPerRun'
  <2> SUFFICES ASSUME NEW u \in DOMAIN tasks
               PROVE  Len(statuses'[RunOf(u)]) = 1
    BY <1>1, <1>2, IdleTask DEF OneStatusPerRun, RunOf, Unsettled
  <2>1. Len(statuses[RunOf(u)]) = IF u \in pending THEN 0 ELSE 1
    BY <1>1, <1>2, IdleTask DEF RunInvariant, OneStatusPerRun, Unsettled
  <2>2. CASE u \in pending
    <3>1. statuses[RunOf(u)] \in Seq(Outcomes)
      BY <1>1, <1>2 DEF TypeOK
    <3>2. "timed_out_investigation" \in Outcomes
      BY DEF Outcomes
    <3>3. statuses'[RunOf(u)]
            = Append(statuses[RunOf(u)], "timed_out_investigation")
      BY <1>2, <1>3, <2>2
    <3>4. Len(statuses'[RunOf(u)]) = Len(statuses[RunOf(u)]) + 1
      BY <3>1, <3>2, <3>3, AppendProperties
    <3>5. QED
      BY <2>1, <2>2, <3>4
  <2>3. CASE u \notin pending
    <3>1. ~\E t \in pending : RunOf(t) = RunOf(u)
      BY <1>4, <2>3 DEF RunInvariant, NoRepeatedRun
    <3>2. statuses'[RunOf(u)] = statuses[RunOf(u)]
      BY <1>2, <1>3, <3>1
    <3>3. QED
      BY <2>1, <2>3, <3>2
  <2>4. QED
    BY <2>2, <2>3
<1>8. QED
  BY <1>5, <1>6, <1>7 DEF Bookkeeping

LEMMA ReportStep ==
  ASSUME RunInvariant, Report
  PROVE  Bookkeeping'
<1>1. /\ pc = "report" /\ pc' = "done" /\ TypeOK
      /\ UNCHANGED <<registry, visited, considered, tasks, pending, current>>
  BY DEF RunInvariant, Report
<1>2. \A u \in DOMAIN tasks : /\ RunOf(u) \in Runs
                              /\ RunOf(u)[1] \notin Unconsidered
  BY <1>1, TaskType DEF RunInvariant, TasksAreJustified, Unconsidered, RunOf
<1>3. \A u \in DOMAIN tasks : statuses'[RunOf(u)] = statuses[RunOf(u)]
  BY <1>2 DEF Report
<1>4. RegistryDistinct' /\ TasksAreJustified' /\ CursorAhead'
      /\ NoRepeatedRun' /\ StatusesAreJustified'
  BY <1>1 DEF RunInvariant, RegistryDistinct, TasksAreJustified, CursorAhead,
              NoRepeatedRun, StatusesAreJustified, RunOf, Registered
<1>5. OneStatusPerRun'
  BY <1>1, <1>3 DEF RunInvariant, OneStatusPerRun, RunOf, Unsettled
<1>6. QED
  BY <1>4, <1>5 DEF Bookkeeping

LEMMA WaitStep ==
  ASSUME RunInvariant,
         \/ EndSchedule \/ Elapse \/ AllJoined \/ DeadlinePasses
         \/ Over \/ UNCHANGED vars
  PROVE  Bookkeeping'
<1>1. /\ UNCHANGED <<registry, visited, considered, statuses, pending, tasks,
                     current, cursor>>
      /\ pc = "done" => pc' = "done"
      /\ pc' = "schedule" => UNCHANGED pc
  BY DEF EndSchedule, Elapse, AllJoined, DeadlinePasses, Over, vars
<1>2. SameRuns
  BY <1>1 DEF SameRuns
<1>3. QED
  BY <1>1, <1>2, FrameStep

-----------------------------------------------------------------------------
(* Theorems *)

LEMMA InitInvariant == Init => RunInvariant
<1> SUFFICES ASSUME Init PROVE RunInvariant
  OBVIOUS
<1>1. tasks = <<>> /\ registry = <<>> /\ pc = "register"
      /\ statuses = [r \in Runs |-> <<>>]
  BY DEF Init
<1>2. DOMAIN tasks = {} /\ DOMAIN registry = {}
  BY <1>1
<1>3. RegistryDistinct /\ TasksAreJustified /\ CursorAhead /\ NoRepeatedRun
      /\ StatusesAreJustified /\ OneStatusPerRun
  BY <1>1, <1>2 DEF RegistryDistinct, TasksAreJustified, CursorAhead,
     NoRepeatedRun, StatusesAreJustified, OneStatusPerRun
<1>4. QED
  BY <1>3, InitType, InitControl DEF RunInvariant

LEMMA StepInvariant == RunInvariant /\ [Next]_vars => RunInvariant'
<1> SUFFICES ASSUME RunInvariant, [Next]_vars PROVE RunInvariant'
  OBVIOUS
<1>1. TypeOK' /\ ControlOK'
  BY StepType, StepControl DEF RunInvariant
<1>2. Bookkeeping'
  <2>1. CASE Sequential
    BY <2>1, StartStep, SkipStep, SpawnStep, ConsiderStep, FollowStep,
       AnswerStep, DrainStep, ReportStep, WaitStep DEF Sequential
  <2>2. CASE \E t \in DOMAIN tasks : Join(t) \/ Reap(t) \/ Task(t)
    BY <2>2, JoinStep, TaskStep
  <2>3. CASE DeadlinePasses \/ Over \/ UNCHANGED vars
    BY <2>3, WaitStep
  <2>4. QED
    BY <2>1, <2>2, <2>3 DEF Next
<1>3. QED
  BY <1>1, <1>2 DEF RunInvariant, Bookkeeping

(* The inductive invariant holds of every reachable state.                 *)
THEOREM Invariance == Spec => []RunInvariant
  BY InitInvariant, StepInvariant, PTL DEF Spec

(* Every variable of the engine's Run keeps its type.                      *)
THEOREM TypeCorrect == Spec => []TypeOK
<1>1. RunInvariant => TypeOK
  BY DEF RunInvariant
<1>2. QED
  BY <1>1, Invariance, PTL

(* "Every run produces exactly one SourceStatus" for any collectors, any   *)
(* limits, any interleaving and any deadline.                              *)
THEOREM EveryRunHasOneStatus == Spec => []OneStatusPerRun
<1>1. RunInvariant => OneStatusPerRun
  BY DEF RunInvariant
<1>2. QED
  BY <1>1, Invariance, PTL

(* "No cycles, no repeats": no source runs twice on an indicator.          *)
THEOREM NoRunIsRepeated == Spec => []NoRepeatedRun
<1>1. RunInvariant => NoRepeatedRun
  BY DEF RunInvariant
<1>2. QED
  BY <1>1, Invariance, PTL
-----------------------------------------------------------------------------
(* The engine implements the ledger of source statuses: a proof of         *)
(* Spec => Ledger!Spec.  The refinement maps the runs with no status yet   *)
(* to `open`, the statuses to `verdicts` and the returned report to        *)
(* `closed`.                                                               *)

Tracking == TrackedIffUnjoined /\ NothingOpenAtReport

(* A step that moves neither the tasks nor `pending`. *)
LEMMA TrackingFrame ==
  ASSUME LedgerInvariant, UNCHANGED <<tasks, pending>>,
         \/ pc' \in {"schedule", "pivot", "join"}
              => pc \in {"schedule", "pivot", "join"} \/ tasks = <<>>,
         pc' \in {"report", "done"} =>
           pc \in {"report", "done"} \/ pending = {}
  PROVE  Tracking'
<1>1. tasks = <<>> => pending = {} /\ Unjoined = {}
  BY DEF LedgerInvariant, RunInvariant, TypeOK, Unjoined
<1>2. Unjoined' = Unjoined
  BY DEF Unjoined
<1>3. QED
  BY <1>1, <1>2 DEF LedgerInvariant, Tracking, TrackedIffUnjoined,
                    NothingOpenAtReport

LEMMA SpawnTracking ==
  ASSUME LedgerInvariant, Spawn
  PROVE  Tracking'
<1>1. RunInvariant
  BY DEF LedgerInvariant
<1>2. pc = "schedule" /\ pc' = "schedule"
  BY DEF Spawn, Scheduling
<1>3. PICK n \in Nat \ {0} :
        /\ n \notin DOMAIN tasks
        /\ DOMAIN tasks' = DOMAIN tasks \cup {n}
        /\ pending' = pending \cup {n}
        /\ \A u \in DOMAIN tasks : tasks'[u] = tasks[u]
        /\ tasks'[n].state = "queued"
  BY <1>1, SpawnEffect
<1>4. Unjoined' = Unjoined \cup {n}
  BY <1>3 DEF Unjoined
<1>5. QED
  BY <1>2, <1>3, <1>4 DEF LedgerInvariant, Tracking, TrackedIffUnjoined,
                          NothingOpenAtReport

LEMMA JoinTracking ==
  ASSUME LedgerInvariant, NEW t \in DOMAIN tasks, Join(t)
  PROVE  Tracking'
<1>1. /\ Joinable(t)
      /\ pc' \in {"join", "pivot"}
  BY DEF Join, CompleteOk, CompleteError, Crashed, Joinable
<1> DEFINE new == [tasks[t] EXCEPT !.state = "joined"]
<1>2. tasks' = [tasks EXCEPT ![t] = new]
  BY <1>1 DEF Joinable
<1>3. tasks[t] \in TaskRecord /\ DOMAIN tasks = 1..Len(tasks)
  BY TaskType, LenProperties DEF LedgerInvariant, RunInvariant, TypeOK
<1>4. new.state = "joined"
  BY <1>3 DEF TaskRecord
<1> HIDE DEF new
<1>5. Unjoined' = Unjoined \ {t}
  BY <1>2, <1>3, <1>4 DEF Unjoined
<1>6. QED
  BY <1>1, <1>5 DEF LedgerInvariant, Tracking, TrackedIffUnjoined,
                    NothingOpenAtReport, Joinable

LEMMA TaskTracking ==
  ASSUME LedgerInvariant, NEW t \in DOMAIN tasks, Task(t) \/ Reap(t)
  PROVE  Tracking'
<1>1. UNCHANGED <<pc, pending>> /\ SameRuns
  BY TaskEffect DEF LedgerInvariant, RunInvariant
<1>2. CASE Task(t)
  <2>1. \A u \in DOMAIN tasks :
          tasks'[u].state = "joined" <=> tasks[u].state = "joined"
    BY <1>2, TaskEffect DEF LedgerInvariant, RunInvariant
  <2>2. Unjoined' = Unjoined
    BY <1>1, <2>1 DEF Unjoined, SameRuns
  <2>3. QED
    BY <1>1, <2>2 DEF LedgerInvariant, Tracking, TrackedIffUnjoined,
                      NothingOpenAtReport
<1>3. CASE Reap(t)
  BY <1>1, <1>3 DEF Reap, LedgerInvariant, Tracking, TrackedIffUnjoined,
                    NothingOpenAtReport
<1>4. QED
  BY <1>2, <1>3

LEMMA TrackingStep ==
  ASSUME LedgerInvariant, [Next]_vars
  PROVE  Tracking'
<1>1. CASE Register \/ RefuseDuplicate \/ Investigate \/ RefuseTarget
  <2>1. tasks = <<>>
    BY <1>1 DEF Register, RefuseDuplicate, Investigate, RefuseTarget,
                LedgerInvariant, RunInvariant, ControlOK
  <2>2. /\ UNCHANGED <<tasks, pending>>
        /\ pc' \notin {"report", "done"}
    BY <1>1 DEF Register, RefuseDuplicate, Investigate, RefuseTarget
  <2>3. QED
    BY <2>1, <2>2, TrackingFrame
<1>2. CASE SkipCollector \/ MarkUnavailable \/ EndSchedule
  <2>1. /\ UNCHANGED <<tasks, pending>>
        /\ pc = "schedule" /\ pc' \in {"schedule", "join", "pivot"}
    BY <1>2 DEF SkipCollector, MarkUnavailable, EndSchedule, Scheduling
  <2>2. QED
    BY <2>1, TrackingFrame
<1>3. CASE SkipPivot \/ DropPivot \/ FollowPivot \/ RecordAnswer
  <2>1. /\ UNCHANGED <<tasks, pending>>
        /\ pc = "pivot" /\ pc' \in {"schedule", "join", "pivot"}
    BY <1>3 DEF SkipPivot, DropPivot, FollowPivot, RecordAnswer, Considering
  <2>2. QED
    BY <2>1, TrackingFrame
<1>4. CASE Elapse \/ Report \/ DeadlinePasses \/ Over \/ UNCHANGED vars
  <2>1. /\ UNCHANGED <<tasks, pending>>
        /\ \/ UNCHANGED pc
           \/ pc' = "cancel"
           \/ pc = "report" /\ pc' = "done"
    BY <1>4 DEF Elapse, Report, DeadlinePasses, Over, vars
  <2>2. QED
    BY <2>1, TrackingFrame
<1>5. CASE AllJoined
  <2>1. pending = {}
    BY <1>5 DEF AllJoined, LedgerInvariant, TrackedIffUnjoined
  <2>2. QED
    BY <1>5, <2>1, TrackingFrame DEF AllJoined
<1>6. CASE DrainPending
  BY <1>6 DEF DrainPending, Tracking, TrackedIffUnjoined, NothingOpenAtReport
<1>7. CASE \E t \in DOMAIN tasks : Join(t) \/ Reap(t) \/ Task(t)
  BY <1>7, JoinTracking, TaskTracking
<1>8. QED
  BY <1>1, <1>2, <1>3, <1>4, <1>5, <1>6, <1>7, SpawnTracking
     DEF Next, Sequential

-----------------------------------------------------------------------------
(* What the status of a source says about `considered` *)

LEMMA RecordConsidered ==
  ASSUME LedgerInvariant, pc # "done", NEW r \in Runs, NEW o \in Outcomes,
         statuses' = Record(r, o), r[1] \in considered',
         considered \subseteq considered'
  PROVE  StatusesAreConsidered'
<1>1. \A q \in Runs : q # r => statuses'[q] = statuses[q]
  BY RecordEffect DEF LedgerInvariant, RunInvariant
<1>2. QED
  BY <1>1 DEF LedgerInvariant, StatusesAreConsidered

(* The source of a task was considered. *)
LEMMA TaskConsidered ==
  ASSUME LedgerInvariant, NEW t \in DOMAIN tasks
  PROVE  RunOf(t) \in Runs /\ RunOf(t)[1] \in considered
<1>1. RunOf(t) \in Runs
  BY TaskType DEF LedgerInvariant, RunInvariant
<1>2. tasks[t].source \in considered
  BY DEF LedgerInvariant, RunInvariant, TasksAreJustified
<1>3. QED
  BY <1>1, <1>2 DEF RunOf

LEMMA ConsideredFrame ==
  ASSUME LedgerInvariant, UNCHANGED statuses,
         considered \subseteq considered', pc = "done" => pc' = "done"
  PROVE  StatusesAreConsidered'
  BY DEF LedgerInvariant, StatusesAreConsidered

LEMMA JoinConsidered ==
  ASSUME LedgerInvariant, NEW t \in DOMAIN tasks, Join(t)
  PROVE  StatusesAreConsidered'
<1>1. pc # "done" /\ UNCHANGED considered
  BY DEF Join, CompleteOk, CompleteError, Crashed, Joinable
<1>2. CASE CompleteOk(t)
  BY <1>1, <1>2, ConsideredFrame DEF CompleteOk
<1>3. CASE CompleteError(t)
  <2>1. ErrorOutcome(tasks[t].result) \in Outcomes
    BY DEF ErrorOutcome, Outcomes
  <2>2. QED
    BY <1>1, <1>3, <2>1, TaskConsidered, RecordConsidered DEF CompleteError
<1>4. CASE Crashed(t)
  <2>1. "failed" \in Outcomes
    BY DEF Outcomes
  <2>2. QED
    BY <1>1, <1>4, <2>1, TaskConsidered, RecordConsidered DEF Crashed
<1>5. QED
  BY <1>2, <1>3, <1>4 DEF Join

LEMMA ConsideredStep ==
  ASSUME LedgerInvariant, [Next]_vars
  PROVE  StatusesAreConsidered'
<1>1. CASE \/ Register \/ RefuseDuplicate \/ Investigate \/ RefuseTarget
           \/ SkipCollector \/ Spawn \/ EndSchedule
           \/ SkipPivot \/ DropPivot \/ FollowPivot
           \/ Elapse \/ AllJoined \/ DeadlinePasses \/ Over \/ UNCHANGED vars
  <2>1. /\ UNCHANGED statuses
        /\ considered \subseteq considered'
        /\ pc = "done" => pc' = "done"
    BY <1>1 DEF Register, RefuseDuplicate, Investigate, RefuseTarget,
       SkipCollector, Spawn, Consider, EndSchedule, SkipPivot, DropPivot,
       FollowPivot, Considering, Elapse, AllJoined, DeadlinePasses, Over, vars
  <2>2. QED
    BY <2>1, ConsideredFrame
<1>2. CASE MarkUnavailable
  <2>1. /\ pc # "done" /\ considered' = considered \cup {Source}
        /\ <<Source, cursor.indicator>> \in Runs
        /\ UNCHANGED pc
    BY <1>2, CursorType DEF MarkUnavailable, Consider, Scheduling,
       LedgerInvariant, RunInvariant
  <2>2. "unavailable" \in Outcomes
    BY DEF Outcomes
  <2>3. CASE Source \in considered
    BY <1>2, <2>1, <2>3, ConsideredFrame DEF MarkUnavailable
  <2>4. CASE Source \notin considered
    BY <1>2, <2>1, <2>2, <2>4, RecordConsidered DEF MarkUnavailable
  <2>5. QED
    BY <2>3, <2>4
<1>3. CASE RecordAnswer
  <2>1. /\ pc = "pivot" /\ UNCHANGED considered
        /\ current.task \in DOMAIN tasks
        /\ current.outcome \in Outcomes
    BY <1>3, InHand DEF RecordAnswer, LedgerInvariant, RunInvariant,
       Answers, Outcomes
  <2>2. QED
    BY <1>3, <2>1, TaskConsidered, RecordConsidered DEF RecordAnswer
<1>4. CASE DrainPending
  <2>1. pending \subseteq DOMAIN tasks /\ pc # "done" /\ UNCHANGED considered
    BY <1>4 DEF LedgerInvariant, RunInvariant, TypeOK, DrainPending
  <2>2. \A r \in Runs :
          statuses'[r] = statuses[r] \/ \E t \in pending : RunOf(t) = r
    BY <1>4 DEF DrainPending, CutOff
  <2>3. QED
    BY <2>1, <2>2, TaskConsidered DEF LedgerInvariant, StatusesAreConsidered
<1>5. CASE Report
  BY <1>5 DEF Report, StatusesAreConsidered
<1>6. CASE \E t \in DOMAIN tasks : Reap(t) \/ Task(t)
  BY <1>6, TaskEffect, ConsideredFrame DEF LedgerInvariant, RunInvariant
<1>7. CASE \E t \in DOMAIN tasks : Join(t)
  BY <1>7, JoinConsidered
<1>8. QED
  BY <1>1, <1>2, <1>3, <1>4, <1>5, <1>6, <1>7 DEF Next, Sequential

-----------------------------------------------------------------------------
(* The inductive invariant *)

LEMMA InitLedgerInvariant == Init => LedgerInvariant
<1> SUFFICES ASSUME Init PROVE LedgerInvariant
  OBVIOUS
<1>1. RunInvariant
  BY InitInvariant
<1>2. TrackedIffUnjoined /\ NothingOpenAtReport /\ StatusesAreConsidered
  BY DEF Init, TrackedIffUnjoined, NothingOpenAtReport, StatusesAreConsidered
<1>3. QED
  BY <1>1, <1>2 DEF LedgerInvariant

LEMMA StepLedgerInvariant ==
  LedgerInvariant /\ [Next]_vars => LedgerInvariant'
  BY StepInvariant, TrackingStep, ConsideredStep DEF LedgerInvariant, Tracking

(* The invariant the refinement rests on holds of every reachable state.   *)
THEOREM LedgerInvariance == Spec => []LedgerInvariant
  BY InitLedgerInvariant, StepLedgerInvariant, PTL DEF Spec

(* The JoinSet and `pending` never disagree while the engine can await.    *)
THEOREM TasksAreTracked == Spec => []TrackedIffUnjoined
<1>1. LedgerInvariant => TrackedIffUnjoined
  BY DEF LedgerInvariant
<1>2. QED
  BY <1>1, LedgerInvariance, PTL

-----------------------------------------------------------------------------
(* The refinement: what every step does to the ledger *)

LedgerStep == [Ledger!Next]_<<OpenRuns, statuses, pc = "done">>

(* Runs of tasks are told apart, so a run is open iff its task is unsettled. *)
LEMMA OpenIffUnsettled ==
  ASSUME LedgerInvariant, NEW t \in DOMAIN tasks
  PROVE  /\ RunOf(t) \in Runs
         /\ RunOf(t) \in OpenRuns <=> Unsettled(t)
         /\ Unsettled(t) => statuses[RunOf(t)] = <<>>
<1>1. RunOf(t) \in Runs
  BY TaskType DEF LedgerInvariant, RunInvariant
<1>2. RunOf(t) \in OpenRuns <=> Unsettled(t)
  BY DEF OpenRuns, LedgerInvariant, RunInvariant, NoRepeatedRun
<1>3. Unsettled(t) => Len(statuses[RunOf(t)]) = 0
  BY DEF LedgerInvariant, RunInvariant, OneStatusPerRun
<1>4. statuses[RunOf(t)] \in Seq(Outcomes)
  BY <1>1 DEF LedgerInvariant, RunInvariant, TypeOK
<1>5. QED
  BY <1>1, <1>2, <1>3, <1>4, EmptySeq

LEMMA OpenFrame ==
  ASSUME SameRuns, \A u \in DOMAIN tasks : Unsettled(u)' <=> Unsettled(u)
  PROVE  OpenRuns' = OpenRuns
<1>1. \A u \in DOMAIN tasks : RunOf(u)' = RunOf(u)
  BY DEF SameRuns, RunOf
<1>2. QED
  BY <1>1 DEF SameRuns, OpenRuns

(* A step that settles nothing and records nothing is a stutter. *)
LEMMA Stutter ==
  ASSUME SameRuns, UNCHANGED <<pending, statuses>>,
         current'.task = current.task, pc = "done" <=> pc' = "done"
  PROVE  LedgerStep
<1>1. \A u \in DOMAIN tasks : Unsettled(u)' <=> Unsettled(u)
  BY DEF Unsettled
<1>2. OpenRuns' = OpenRuns
  BY <1>1, OpenFrame
<1>3. (pc = "done")' = (pc = "done")
  OBVIOUS
<1>4. QED
  BY <1>2, <1>3 DEF LedgerStep

(* Appending to the empty statuses of a run gives it one verdict. *)
LEMMA RecordGives ==
  ASSUME TypeOK, NEW r \in Runs, NEW o \in Outcomes, statuses[r] = <<>>
  PROVE  Record(r, o) = [q \in Runs |-> IF q \in {r} THEN <<o>> ELSE statuses[q]]
<1>1. Append(<<>>, o) = <<o>>
  OBVIOUS
<1>2. statuses \in [Runs -> Seq(Outcomes)]
  BY DEF TypeOK
<1>3. QED
  BY <1>1, <1>2 DEF Record

LEMMA SettleLedger ==
  ASSUME LedgerInvariant, SameRuns, NEW t \in DOMAIN tasks, Unsettled(t),
         NEW o \in Answers \cup {"budget_exhausted", "failed", "timed_out_source"},
         statuses' = Record(RunOf(t), o), pc # "done", pc' # "done",
         \A u \in DOMAIN tasks : Unsettled(u)' <=> (Unsettled(u) /\ u # t)
  PROVE  LedgerStep
<1>1. /\ RunOf(t) \in Runs /\ RunOf(t) \in OpenRuns
      /\ statuses[RunOf(t)] = <<>>
  BY OpenIffUnsettled
<1>2. o \in Outcomes
  BY DEF Answers, Outcomes
<1>3. statuses' = [q \in Runs |-> IF q \in {RunOf(t)} THEN <<o>> ELSE statuses[q]]
  BY <1>1, <1>2, RecordGives DEF LedgerInvariant, RunInvariant
<1>4. \A u \in DOMAIN tasks : RunOf(u)' = RunOf(u)
  BY DEF SameRuns, RunOf
<1>5. \A u \in DOMAIN tasks : u # t => RunOf(u) # RunOf(t)
  BY DEF LedgerInvariant, RunInvariant, NoRepeatedRun
<1>6. OpenRuns' = OpenRuns \ {RunOf(t)}
  BY <1>4, <1>5 DEF OpenRuns, SameRuns
<1>7. Ledger!Decide(RunOf(t))
  BY <1>1, <1>3, <1>6 DEF Ledger!Decide, Ledger!Give
<1>8. QED
  BY <1>1, <1>7 DEF LedgerStep, Ledger!Next

LEMMA JoinLedger ==
  ASSUME LedgerInvariant, NEW t \in DOMAIN tasks, Join(t)
  PROVE  LedgerStep
<1>1. /\ Joinable(t) /\ SameRuns /\ t \in pending
      /\ pending' = pending \ {t} /\ current = Idle
      /\ \A u \in DOMAIN tasks : u # 0
      /\ pc = "join" /\ pc' # "done"
  BY JoinableRuns DEF Join, CompleteOk, CompleteError, Crashed,
     LedgerInvariant, RunInvariant
<1>2. CASE CompleteOk(t)
  <2>1. current'.task = t /\ UNCHANGED statuses
    BY <1>2 DEF CompleteOk
  <2>2. \A u \in DOMAIN tasks : Unsettled(u)' <=> Unsettled(u)
    BY <1>1, <2>1, IdleTask DEF Unsettled
  <2>3. OpenRuns' = OpenRuns
    BY <1>1, <2>2, OpenFrame
  <2>4. (pc = "done")' = (pc = "done")
    BY <1>1
  <2>5. QED
    BY <2>1, <2>3, <2>4 DEF LedgerStep
<1>3. CASE CompleteError(t) \/ Crashed(t)
  <2>1. UNCHANGED current
    BY <1>3 DEF CompleteError, Crashed
  <2>2. \A u \in DOMAIN tasks : Unsettled(u)' <=> (Unsettled(u) /\ u # t)
    BY <1>1, <2>1, IdleTask DEF Unsettled
  <2>3. PICK o \in Answers \cup {"budget_exhausted", "failed", "timed_out_source"} :
          statuses' = Record(RunOf(t), o)
    BY <1>3 DEF CompleteError, Crashed, ErrorOutcome
  <2>4. Unsettled(t)
    BY <1>1 DEF Unsettled
  <2>5. QED
    BY <1>1, <2>2, <2>3, <2>4, SettleLedger
<1>4. QED
  BY <1>2, <1>3 DEF Join

LEMMA AnswerLedger ==
  ASSUME LedgerInvariant, RecordAnswer
  PROVE  LedgerStep
<1>1. /\ current.task \in DOMAIN tasks /\ current.task \notin pending
      /\ current.outcome \in Answers
      /\ \A u \in DOMAIN tasks : u # 0
  BY InHand, LenProperties
     DEF RecordAnswer, LedgerInvariant, RunInvariant, TypeOK
<1>2. /\ SameRuns /\ current' = Idle /\ UNCHANGED pending
      /\ pc = "pivot" /\ pc' = "join"
      /\ statuses' = Record(RunOf(current.task), current.outcome)
  BY DEF RecordAnswer, SameRuns
<1>3. \A u \in DOMAIN tasks :
        Unsettled(u)' <=> (Unsettled(u) /\ u # current.task)
  BY <1>1, <1>2, IdleTask DEF Unsettled
<1>4. Unsettled(current.task)
  BY DEF Unsettled
<1>5. QED
  BY <1>1, <1>2, <1>3, <1>4, SettleLedger

LEMMA SpawnLedger ==
  ASSUME LedgerInvariant, Spawn
  PROVE  LedgerStep
<1> DEFINE run == <<Source, cursor.indicator>>
<1>1. RunInvariant /\ pc # "done" /\ UNCHANGED <<pc, current, statuses>>
  BY DEF LedgerInvariant, Spawn, Scheduling
<1>2. /\ run \in Runs /\ statuses[run] = <<>>
      /\ \A u \in DOMAIN tasks : RunOf(u) # run
  BY <1>1, SpawnEffect
<1>3. PICK n \in Nat \ {0} :
        /\ n \notin DOMAIN tasks
        /\ DOMAIN tasks' = DOMAIN tasks \cup {n}
        /\ pending' = pending \cup {n}
        /\ \A u \in DOMAIN tasks : tasks'[u] = tasks[u]
        /\ tasks'[n].source = Source
        /\ tasks'[n].indicator = cursor.indicator
  BY <1>1, SpawnEffect
<1>4. /\ \A u \in DOMAIN tasks : RunOf(u)' = RunOf(u)
      /\ RunOf(n)' = run
  BY <1>3 DEF RunOf
<1>5. \A u \in DOMAIN tasks : Unsettled(u)' <=> Unsettled(u)
  BY <1>1, <1>3 DEF Unsettled
<1>6. Unsettled(n)'
  BY <1>3 DEF Unsettled
<1>7. OpenRuns' = OpenRuns \cup {run}
  BY <1>3, <1>4, <1>5, <1>6 DEF OpenRuns
<1>8. run \notin OpenRuns
  BY <1>2 DEF OpenRuns
<1>9. Ledger!Open(run)
  BY <1>1, <1>2, <1>7, <1>8 DEF Ledger!Open, Ledger!Untouched
<1>10. QED
  BY <1>2, <1>9 DEF LedgerStep, Ledger!Next

(* A source that is not considered yet has no task and no status. *)
LEMMA UnavailableLedger ==
  ASSUME LedgerInvariant, MarkUnavailable
  PROVE  LedgerStep
<1> DEFINE run == <<Source, cursor.indicator>>
<1>1. /\ TypeOK /\ SameRuns /\ UNCHANGED <<pc, current, pending>>
      /\ pc = "schedule"
  BY DEF LedgerInvariant, RunInvariant, MarkUnavailable, Scheduling, SameRuns
<1>2. CASE Source \in considered
  BY <1>1, <1>2, Stutter DEF MarkUnavailable
<1>3. CASE Source \notin considered
  <2>1. run \in Runs
    BY <1>1, CursorType DEF MarkUnavailable
  <2>2. statuses[run] = <<>>
    BY <1>1, <1>3, <2>1 DEF LedgerInvariant, StatusesAreConsidered
  <2>3. run \notin OpenRuns
    BY <1>3, TaskConsidered DEF OpenRuns
  <2>4. "unavailable" \in Outcomes
    BY DEF Outcomes
  <2>5. statuses' = [q \in Runs |-> IF q \in {run} THEN <<"unavailable">>
                                    ELSE statuses[q]]
    BY <1>1, <1>3, <2>1, <2>2, <2>4, RecordGives DEF MarkUnavailable
  <2>6. OpenRuns' = OpenRuns
    BY <1>1, OpenFrame DEF Unsettled
  <2>7. Ledger!Refuse(run)
    BY <1>1, <2>1, <2>2, <2>3, <2>5, <2>6
       DEF Ledger!Refuse, Ledger!Untouched, Ledger!Give
  <2>8. QED
    BY <2>1, <2>7 DEF LedgerStep, Ledger!Next
<1>4. QED
  BY <1>2, <1>3

LEMMA DrainLedger ==
  ASSUME LedgerInvariant, DrainPending
  PROVE  LedgerStep
<1>1. /\ TypeOK /\ pc = "cancel" /\ pc' = "report" /\ pending' = {}
      /\ current = Idle /\ UNCHANGED <<tasks, current>>
      /\ statuses' = CutOff
  BY DEF LedgerInvariant, RunInvariant, ControlOK, DrainPending
<1>2. \A u \in DOMAIN tasks : u # 0
  BY <1>1, LenProperties DEF TypeOK
<1>3. pending \subseteq DOMAIN tasks
  BY <1>1 DEF TypeOK
<1>4. OpenRuns = {RunOf(t) : t \in pending}
  BY <1>1, <1>2, <1>3, IdleTask DEF OpenRuns, Unsettled
<1>5. OpenRuns' = {}
  BY <1>1, <1>2, IdleTask DEF OpenRuns, Unsettled
<1>6. \A r \in OpenRuns : Append(statuses[r], "timed_out_investigation")
                            = <<"timed_out_investigation">>
  <2> SUFFICES ASSUME NEW t \in pending
               PROVE  Append(statuses[RunOf(t)], "timed_out_investigation")
                        = <<"timed_out_investigation">>
    BY <1>4
  <2>1. statuses[RunOf(t)] = <<>>
    BY <1>3, OpenIffUnsettled DEF Unsettled
  <2>2. QED
    BY <2>1
<1>7. CutOff = [r \in Runs |-> IF r \in OpenRuns THEN <<"timed_out_investigation">>
                               ELSE statuses[r]]
  BY <1>4, <1>6 DEF CutOff
<1>8. Ledger!CutAll
  BY <1>1, <1>5, <1>7 DEF Ledger!CutAll, Ledger!Give
<1>9. QED
  BY <1>8 DEF LedgerStep, Ledger!Next

LEMMA ReportLedger ==
  ASSUME LedgerInvariant, Report
  PROVE  LedgerStep
<1>1. /\ TypeOK /\ pc = "report" /\ pc' = "done" /\ pending = {}
      /\ current = Idle /\ UNCHANGED <<tasks, current, pending>>
  BY DEF LedgerInvariant, RunInvariant, ControlOK, NothingOpenAtReport, Report
<1>2. \A u \in DOMAIN tasks : u # 0
  BY <1>1, LenProperties DEF TypeOK
<1>3. OpenRuns = {} /\ OpenRuns' = {}
  BY <1>1, <1>2, IdleTask DEF OpenRuns, Unsettled
<1> DEFINE runs == {r \in Runs : r[1] \in Unconsidered /\ r[2] = target}
<1>4. \A r \in runs : statuses[r] = <<>>
  BY <1>1 DEF LedgerInvariant, StatusesAreConsidered, Unconsidered
<1>5. runs \subseteq Runs
  OBVIOUS
<1>6. \A r \in runs : Append(statuses[r], "unsupported") = <<"unsupported">>
  <2> SUFFICES ASSUME NEW r \in runs
               PROVE  Append(statuses[r], "unsupported") = <<"unsupported">>
    OBVIOUS
  <2>1. statuses[r] = <<>>
    BY <1>4
  <2> HIDE DEF runs
  <2>2. QED
    BY <2>1
<1>7. statuses' = [r \in Runs |-> IF r \in runs THEN <<"unsupported">>
                                  ELSE statuses[r]]
  BY <1>6 DEF Report
<1> HIDE DEF runs
<1>8. Ledger!Close
  BY <1>1, <1>3, <1>4, <1>5, <1>7 DEF Ledger!Close, Ledger!Untouched, Ledger!Give
<1>9. QED
  BY <1>8 DEF LedgerStep, Ledger!Next

LEMMA StepLedger ==
  ASSUME LedgerInvariant, [Next]_vars
  PROVE  LedgerStep
<1>1. CASE \/ Register \/ RefuseDuplicate \/ Investigate \/ RefuseTarget
           \/ SkipCollector \/ EndSchedule \/ Elapse \/ AllJoined
           \/ DeadlinePasses \/ Over \/ UNCHANGED vars
  <2>1. /\ UNCHANGED <<tasks, pending, statuses, current>>
        /\ pc = "done" <=> pc' = "done"
    BY <1>1 DEF Register, RefuseDuplicate, Investigate, RefuseTarget,
       SkipCollector, Scheduling, EndSchedule, Elapse, AllJoined,
       DeadlinePasses, Over, vars
  <2>2. QED
    BY <2>1, Stutter DEF SameRuns
<1>2. CASE SkipPivot \/ DropPivot \/ FollowPivot
  <2>1. /\ Considering /\ UNCHANGED <<tasks, pending, statuses>>
        /\ pc = "pivot" /\ pc' # "done"
    BY <1>2 DEF SkipPivot, DropPivot, FollowPivot, Considering
  <2>2. current'.task = current.task
    BY <2>1, ConsideringType DEF LedgerInvariant, RunInvariant
  <2>3. QED
    BY <2>1, <2>2, Stutter DEF SameRuns
<1>3. CASE \E t \in DOMAIN tasks : Task(t) \/ Reap(t)
  <2>1. /\ SameRuns /\ UNCHANGED <<pc, pending, statuses, current>>
    BY <1>3, TaskEffect DEF LedgerInvariant, RunInvariant
  <2>2. QED
    BY <2>1, Stutter
<1>4. CASE \E t \in DOMAIN tasks : Join(t)
  BY <1>4, JoinLedger
<1>5. QED
  BY <1>1, <1>2, <1>3, <1>4, SpawnLedger, UnavailableLedger, AnswerLedger,
     DrainLedger, ReportLedger DEF Next, Sequential

LEMMA InitLedger == Init => Ledger!Init
<1> SUFFICES ASSUME Init PROVE Ledger!Init
  OBVIOUS
<1>1. OpenRuns = {}
  BY DEF Init, OpenRuns
<1>2. QED
  BY <1>1 DEF Init, Ledger!Init

(* The engine implements the ledger: in every behaviour a run is opened at *)
(* most once, gets exactly one verdict, and the report closes only when    *)
(* every run has one.                                                      *)
THEOREM LedgerRefinement == Spec => ImplementsLedger
<1>1. LedgerInvariant /\ [Next]_vars => [Ledger!Next]_(Ledger!ledger)
  BY StepLedger DEF LedgerStep, Ledger!ledger
<1>2. QED
  BY <1>1, InitLedger, LedgerInvariance, PTL
     DEF Spec, ImplementsLedger, Ledger!Spec

-----------------------------------------------------------------------------
(* What the report of an investigation says is what happened: the          *)
(* concurrency limit, the pivots, the runs, the evidence, the deadline     *)
(* flag and the accounting of every source.                                *)

-----------------------------------------------------------------------------
(* The table of tasks *)

(* Task t's record becomes rec: the run and its depth are fixed, and what  *)
(* it collected is fixed unless the task is running.                       *)
Becomes(t, rec) ==
  /\ tasks' = [tasks EXCEPT ![t] = rec]
  /\ rec.source = tasks[t].source
  /\ rec.indicator = tasks[t].indicator
  /\ rec.depth = tasks[t].depth
  /\ tasks[t].state # "running" => rec.collection = tasks[t].collection

(* A permit is taken when the task starts to run, freed when it stops.     *)
HoldsOrFrees(t, rec) ==
  \/ /\ tasks[t].state # "running" /\ rec.state = "running"
     /\ permits > 0 /\ permits' = permits - 1
  \/ /\ tasks[t].state = "running" <=> rec.state = "running"
     /\ permits' = permits
  \/ /\ tasks[t].state = "running" /\ rec.state # "running"
     /\ permits' = permits + 1

LEMMA EndChange ==
  ASSUME TypeOK, NEW t \in DOMAIN tasks,
         NEW state \in {"finished", "crashed"}, NEW result, NEW c,
         End(t, state, result, c)
  PROVE  \E rec : Becomes(t, rec) /\ HoldsOrFrees(t, rec)
<1> DEFINE new == [tasks[t] EXCEPT !.state = state, !.result = result,
                                   !.collection = c]
<1>1. tasks' = [tasks EXCEPT ![t] = new] /\ tasks[t].state = "running"
      /\ permits' = permits + 1
  BY DEF End
<1>2. /\ new.source = tasks[t].source /\ new.indicator = tasks[t].indicator
      /\ new.depth = tasks[t].depth /\ new.state = state
  BY TaskType DEF TaskRecord
<1> HIDE DEF new
<1>3. Becomes(t, new) /\ HoldsOrFrees(t, new)
  BY <1>1, <1>2 DEF Becomes, HoldsOrFrees
<1>4. QED
  BY <1>3

LEMMA WorkChange ==
  ASSUME TypeOK, NEW t \in DOMAIN tasks, Task(t)
  PROVE  \E rec : Becomes(t, rec) /\ HoldsOrFrees(t, rec)
<1>1. tasks[t] \in TaskRecord
  BY TaskType
<1>2. CASE Acquire(t)
  <2> DEFINE new == [tasks[t] EXCEPT !.state = "running"]
  <2>1. tasks' = [tasks EXCEPT ![t] = new] /\ tasks[t].state = "queued"
        /\ permits > 0 /\ permits' = permits - 1
    BY <1>2 DEF Acquire
  <2>2. /\ new.source = tasks[t].source /\ new.indicator = tasks[t].indicator
        /\ new.depth = tasks[t].depth /\ new.collection = tasks[t].collection
        /\ new.state = "running"
    BY <1>1 DEF TaskRecord
  <2> HIDE DEF new
  <2>3. Becomes(t, new) /\ HoldsOrFrees(t, new)
    BY <2>1, <2>2 DEF Becomes, HoldsOrFrees
  <2>4. QED
    BY <2>3
<1>3. CASE Request(t)
  <2> DEFINE new == OneMoreRequest(tasks[t])
  <2>1. tasks' = [tasks EXCEPT ![t] = new] /\ permits' = permits
    BY <1>3 DEF Request
  <2>2. /\ new.source = tasks[t].source /\ new.indicator = tasks[t].indicator
        /\ new.depth = tasks[t].depth /\ new.collection = tasks[t].collection
        /\ new.state = tasks[t].state
    BY <1>1 DEF TaskRecord, OneMoreRequest
  <2> HIDE DEF new
  <2>3. Becomes(t, new) /\ HoldsOrFrees(t, new)
    BY <2>1, <2>2 DEF Becomes, HoldsOrFrees
  <2>4. QED
    BY <2>3
<1>4. CASE RequestDenied(t)
  <2> DEFINE new == [tasks[t] EXCEPT !.denied = TRUE]
  <2>1. tasks' = [tasks EXCEPT ![t] = new] /\ permits' = permits
    BY <1>4 DEF RequestDenied
  <2>2. /\ new.source = tasks[t].source /\ new.indicator = tasks[t].indicator
        /\ new.depth = tasks[t].depth /\ new.collection = tasks[t].collection
        /\ new.state = tasks[t].state
    BY <1>1 DEF TaskRecord
  <2> HIDE DEF new
  <2>3. Becomes(t, new) /\ HoldsOrFrees(t, new)
    BY <2>1, <2>2 DEF Becomes, HoldsOrFrees
  <2>4. QED
    BY <2>3
<1>5. CASE Return(t) \/ Fail(t) \/ FailOnBudget(t) \/ SourceTimeout(t) \/ Panic(t)
  BY <1>5, EndChange DEF Return, Fail, FailOnBudget, SourceTimeout, Panic
<1>6. QED
  BY <1>2, <1>3, <1>4, <1>5 DEF Task

(* Joining a task that ended, or reaping one that was aborted.             *)
LEMMA LeaveChange ==
  ASSUME TypeOK, NEW t \in DOMAIN tasks, Join(t) \/ Reap(t)
  PROVE  \E rec : /\ Becomes(t, rec) /\ HoldsOrFrees(t, rec)
                  /\ rec.state = "joined"
<1> DEFINE new == [tasks[t] EXCEPT !.state = "joined"]
<1>1. /\ tasks' = [tasks EXCEPT ![t] = new]
      /\ permits' = IF tasks[t].state = "running" THEN permits + 1 ELSE permits
  BY DEF Join, CompleteOk, CompleteError, Crashed, Joinable, Reap
<1>2. /\ new.source = tasks[t].source /\ new.indicator = tasks[t].indicator
      /\ new.depth = tasks[t].depth /\ new.collection = tasks[t].collection
      /\ new.state = "joined"
  BY TaskType DEF TaskRecord
<1> HIDE DEF new
<1>3. Becomes(t, new) /\ HoldsOrFrees(t, new)
  BY <1>1, <1>2 DEF Becomes, HoldsOrFrees
<1>4. QED
  BY <1>2, <1>3

(* Every step of a task, of its cancellation and of its join. *)
LEMMA TaskChange ==
  ASSUME TypeOK, NEW t \in DOMAIN tasks, Join(t) \/ Reap(t) \/ Task(t)
  PROVE  \E rec : Becomes(t, rec) /\ HoldsOrFrees(t, rec)
<1>1. CASE Task(t)
  BY <1>1, WorkChange
<1>2. CASE Join(t) \/ Reap(t)
  BY <1>2, LeaveChange
<1>3. QED
  BY <1>1, <1>2

(* Every other step but Spawn leaves the table and the permits alone.      *)
LEMMA TableFrame ==
  ASSUME [Next]_vars, ~Spawn,
         ~\E t \in DOMAIN tasks : Join(t) \/ Reap(t) \/ Task(t)
  PROVE  UNCHANGED <<tasks, permits>>
<1>1. CASE Register \/ RefuseDuplicate \/ Investigate \/ RefuseTarget
  BY <1>1 DEF Register, RefuseDuplicate, Investigate, RefuseTarget
<1>2. CASE SkipCollector \/ MarkUnavailable \/ EndSchedule
  BY <1>2 DEF SkipCollector, MarkUnavailable, EndSchedule
<1>3. CASE SkipPivot \/ DropPivot \/ FollowPivot \/ RecordAnswer
  BY <1>3 DEF SkipPivot, DropPivot, FollowPivot, RecordAnswer
<1>4. CASE Elapse \/ DrainPending \/ AllJoined \/ Report
  BY <1>4 DEF Elapse, DrainPending, AllJoined, Report
<1>5. CASE DeadlinePasses \/ Over \/ UNCHANGED vars
  BY <1>5 DEF DeadlinePasses, Over, vars
<1>6. QED
  BY <1>1, <1>2, <1>3, <1>4, <1>5 DEF Next, Sequential

-----------------------------------------------------------------------------
(* The concurrency limit *)

LEMMA HoldersFinite ==
  ASSUME TypeOK
  PROVE  /\ IsFiniteSet(Holders)
         /\ Cardinality(Holders) \in Nat
<1>1. DOMAIN tasks = 1..Len(tasks) /\ Len(tasks) \in Nat
  BY LenProperties DEF TypeOK
<1>2. IsFiniteSet(DOMAIN tasks)
  BY <1>1, FS_Interval
<1>3. Holders \subseteq DOMAIN tasks
  BY DEF Holders
<1>4. QED
  BY <1>2, <1>3, FS_Subset, FS_CardinalityType

LEMMA ChangeConserves ==
  ASSUME TypeOK, PermitsConserved, NEW t \in DOMAIN tasks, NEW rec,
         Becomes(t, rec), HoldsOrFrees(t, rec)
  PROVE  PermitsConserved'
<1>1. IsFiniteSet(Holders) /\ Cardinality(Holders) \in Nat
      /\ permits \in Nat /\ Capacity \in Nat
  BY HoldersFinite, LimitsAssumption DEF TypeOK, Capacity
<1>2. DOMAIN tasks' = DOMAIN tasks
  BY DEF Becomes
<1>3. /\ tasks'[t] = rec
      /\ \A u \in DOMAIN tasks : u # t => tasks'[u] = tasks[u]
  BY DEF Becomes
<1>4. CASE /\ tasks[t].state # "running" /\ rec.state = "running"
           /\ permits' = permits - 1
  <2>1. Holders' = Holders \cup {t} /\ t \notin Holders
    BY <1>2, <1>3, <1>4 DEF Holders
  <2>2. Cardinality(Holders') = Cardinality(Holders) + 1
    BY <1>1, <2>1, FS_AddElement
  <2>3. QED
    BY <1>1, <1>4, <2>2 DEF PermitsConserved, Capacity
<1>5. CASE /\ tasks[t].state = "running" <=> rec.state = "running"
           /\ permits' = permits
  <2>1. Holders' = Holders
    BY <1>2, <1>3, <1>5 DEF Holders
  <2>2. QED
    BY <1>5, <2>1 DEF PermitsConserved, Capacity
<1>6. CASE /\ tasks[t].state = "running" /\ rec.state # "running"
           /\ permits' = permits + 1
  <2>1. Holders' = Holders \ {t} /\ t \in Holders
    BY <1>2, <1>3, <1>6 DEF Holders
  <2>2. Cardinality(Holders') = Cardinality(Holders) - 1
    BY <1>1, <2>1, FS_RemoveElement
  <2>3. QED
    BY <1>1, <1>6, <2>2 DEF PermitsConserved, Capacity
<1>7. QED
  BY <1>4, <1>5, <1>6 DEF HoldsOrFrees

LEMMA StepPermits ==
  RunInvariant /\ PermitsConserved /\ [Next]_vars => PermitsConserved'
<1> SUFFICES ASSUME RunInvariant, PermitsConserved, [Next]_vars
             PROVE  PermitsConserved'
  OBVIOUS
<1>1. CASE Spawn
  <2>1. PICK n \in Nat \ {0} :
          /\ n \notin DOMAIN tasks
          /\ DOMAIN tasks' = DOMAIN tasks \cup {n}
          /\ \A u \in DOMAIN tasks : tasks'[u] = tasks[u]
          /\ tasks'[n].state = "queued"
    BY <1>1, SpawnEffect
  <2>2. Holders' = Holders
    BY <2>1 DEF Holders
  <2>3. permits' = permits
    BY <1>1 DEF Spawn
  <2>4. QED
    BY <2>2, <2>3 DEF PermitsConserved, Capacity
<1>2. CASE \E t \in DOMAIN tasks : Join(t) \/ Reap(t) \/ Task(t)
  BY <1>2, TaskChange, ChangeConserves DEF RunInvariant
<1>3. CASE UNCHANGED <<tasks, permits>>
  BY <1>3 DEF PermitsConserved, Holders, Capacity
<1>4. QED
  BY <1>1, <1>2, <1>3, TableFrame

LEMMA InitPermits == Init => PermitsConserved
<1> SUFFICES ASSUME Init PROVE PermitsConserved
  OBVIOUS
<1>1. Holders = {} /\ permits = Capacity
  BY DEF Init, Holders
<1>2. Cardinality(Holders) = 0
  BY <1>1, FS_EmptySet
<1>3. Capacity \in Nat
  BY LimitsAssumption DEF Capacity
<1>4. QED
  BY <1>1, <1>2, <1>3 DEF PermitsConserved

(* However a task ends (answer, error, timeout, panic or cancellation) its *)
(* permit goes back, so max_concurrent_sources bounds the runs in flight   *)
(* for any number of tasks and never shrinks.                              *)
THEOREM PermitsAreConserved == Spec => []PermitsConserved
  BY Invariance, InitPermits, StepPermits, PTL DEF Spec

-----------------------------------------------------------------------------
(* What a step may change in the table *)

Kept(u) ==
  /\ tasks'[u].source = tasks[u].source
  /\ tasks'[u].indicator = tasks[u].indicator
  /\ tasks'[u].depth = tasks[u].depth
  /\ tasks[u].state # "running" => tasks'[u].collection = tasks[u].collection

Spawned(n) ==
  /\ Spawn
  /\ n # 0
  /\ tasks'[n].source = Source
  /\ tasks'[n].indicator = cursor.indicator
  /\ tasks'[n].depth = cursor.depth

(* Tasks are only ever added, by Spawn; a run's identity, its depth and    *)
(* what it returned are never rewritten.                                   *)
LEMMA TableStep ==
  ASSUME RunInvariant, [Next]_vars
  PROVE  /\ DOMAIN tasks \subseteq DOMAIN tasks'
         /\ \A u \in DOMAIN tasks : Kept(u) /\ RunOf(u)' = RunOf(u)
         /\ \A n \in DOMAIN tasks' \ DOMAIN tasks : Spawned(n)
<1>1. CASE Spawn
  <2>1. PICK n \in Nat \ {0} :
          /\ DOMAIN tasks' = DOMAIN tasks \cup {n}
          /\ \A u \in DOMAIN tasks : tasks'[u] = tasks[u]
          /\ tasks'[n].source = Source
          /\ tasks'[n].indicator = cursor.indicator
          /\ tasks'[n].depth = cursor.depth
    BY <1>1, SpawnEffect
  <2>2. QED
    BY <1>1, <2>1 DEF Kept, Spawned, RunOf
<1>2. ASSUME NEW t \in DOMAIN tasks, Join(t) \/ Reap(t) \/ Task(t)
      PROVE  /\ DOMAIN tasks' = DOMAIN tasks
             /\ \A u \in DOMAIN tasks : Kept(u) /\ RunOf(u)' = RunOf(u)
  <2>1. PICK rec : Becomes(t, rec)
    BY <1>2, TaskChange DEF RunInvariant
  <2>2. /\ DOMAIN tasks' = DOMAIN tasks
        /\ tasks'[t] = rec
        /\ \A u \in DOMAIN tasks : u # t => tasks'[u] = tasks[u]
    BY <2>1 DEF Becomes
  <2>3. \A u \in DOMAIN tasks : Kept(u)
    BY <2>1, <2>2 DEF Becomes, Kept
  <2>4. QED
    BY <2>2, <2>3 DEF Kept, RunOf
<1>3. CASE UNCHANGED tasks
  BY <1>3 DEF Kept, RunOf
<1>4. QED
  BY <1>1, <1>2, <1>3, TableFrame

(* A task that is not joined has no status and is not being completed.     *)
UnjoinedArePending == Unjoined \subseteq pending

LEMMA StepPending ==
  ASSUME RunInvariant, UnjoinedArePending, [Next]_vars
  PROVE  UnjoinedArePending'
<1>1. CASE Spawn
  <2>1. PICK n \in Nat \ {0} :
          /\ DOMAIN tasks' = DOMAIN tasks \cup {n}
          /\ pending' = pending \cup {n}
          /\ \A u \in DOMAIN tasks : tasks'[u] = tasks[u]
    BY <1>1, SpawnEffect
  <2>2. QED
    BY <2>1 DEF UnjoinedArePending, Unjoined
<1>2. ASSUME NEW t \in DOMAIN tasks, Join(t) \/ Reap(t)
      PROVE  UnjoinedArePending'
  <2>1. PICK rec : Becomes(t, rec) /\ rec.state = "joined"
    BY <1>2, LeaveChange DEF RunInvariant
  <2>2. /\ DOMAIN tasks' = DOMAIN tasks
        /\ tasks'[t] = rec
        /\ \A u \in DOMAIN tasks : u # t => tasks'[u] = tasks[u]
    BY <2>1 DEF Becomes
  <2>3. pending \ {t} \subseteq pending'
    BY <1>2 DEF Join, CompleteOk, CompleteError, Crashed, Joinable, Reap
  <2>4. QED
    BY <2>1, <2>2, <2>3 DEF UnjoinedArePending, Unjoined
<1>3. ASSUME NEW t \in DOMAIN tasks, Task(t)
      PROVE  UnjoinedArePending'
  <2>1. /\ UNCHANGED pending /\ DOMAIN tasks' = DOMAIN tasks
        /\ \A u \in DOMAIN tasks :
             tasks'[u].state = "joined" <=> tasks[u].state = "joined"
    BY <1>3, TaskEffect DEF RunInvariant, SameRuns
  <2>2. QED
    BY <2>1 DEF UnjoinedArePending, Unjoined
<1>4. CASE DrainPending
  BY <1>4 DEF DrainPending, UnjoinedArePending, Unjoined
<1>5. CASE UNCHANGED <<tasks, pending>>
  BY <1>5 DEF UnjoinedArePending, Unjoined
<1>6. CASE \/ Register \/ RefuseDuplicate \/ Investigate \/ RefuseTarget
           \/ SkipCollector \/ MarkUnavailable \/ EndSchedule
           \/ SkipPivot \/ DropPivot \/ FollowPivot \/ RecordAnswer
           \/ Elapse \/ AllJoined \/ Report \/ DeadlinePasses
           \/ Over \/ UNCHANGED vars
  <2>1. UNCHANGED <<tasks, pending>>
    BY <1>6 DEF Register, RefuseDuplicate, Investigate, RefuseTarget,
       SkipCollector, MarkUnavailable, EndSchedule, SkipPivot, DropPivot,
       FollowPivot, RecordAnswer, Elapse, AllJoined, Report, DeadlinePasses,
       Over, vars
  <2>2. QED
    BY <1>5, <2>1
<1>7. QED
  BY <1>1, <1>2, <1>3, <1>4, <1>6 DEF Next, Sequential

-----------------------------------------------------------------------------
(* Which runs have answered *)

HasAnswer(r) == \E k \in DOMAIN statuses[r] : statuses[r][k] \in Answers

LEMMA AppendAnswer ==
  ASSUME NEW s \in Seq(Outcomes), NEW o \in Outcomes
  PROVE  (\E k \in DOMAIN Append(s, o) : Append(s, o)[k] \in Answers)
           <=> \/ \E k \in DOMAIN s : s[k] \in Answers
               \/ o \in Answers
<1> DEFINE a == Append(s, o)
<1>1. /\ DOMAIN s = 1..Len(s) /\ Len(s) \in Nat
      /\ DOMAIN a = 1..(Len(s) + 1)
      /\ \A k \in 1..Len(s) : a[k] = s[k]
      /\ a[Len(s) + 1] = o
  BY AppendProperties, LenProperties
<1> HIDE DEF a
<1>2. DOMAIN a = DOMAIN s \cup {Len(s) + 1}
  BY <1>1
<1>3. (\E k \in DOMAIN a : a[k] \in Answers)
        <=> (\E k \in DOMAIN s : s[k] \in Answers) \/ o \in Answers
  BY <1>1, <1>2
<1>4. QED
  BY <1>3 DEF a

(* A step that gives runs nothing but refusals and failures. *)
Refuses ==
  \A r \in Runs :
    \/ statuses'[r] = statuses[r]
    \/ \E o \in Outcomes \ Answers : statuses'[r] = Append(statuses[r], o)

LEMMA RefusalsDoNotAnswer ==
  ASSUME TypeOK, Refuses, NEW r \in Runs
  PROVE  HasAnswer(r)' <=> HasAnswer(r)
<1>1. statuses[r] \in Seq(Outcomes)
  BY DEF TypeOK
<1>2. CASE statuses'[r] = statuses[r]
  BY <1>2 DEF HasAnswer
<1>3. CASE \E o \in Outcomes \ Answers : statuses'[r] = Append(statuses[r], o)
  BY <1>1, <1>3, AppendAnswer DEF HasAnswer
<1>4. QED
  BY <1>2, <1>3 DEF Refuses

LEMMA RecordRefuses ==
  ASSUME TypeOK, NEW r \in Runs, NEW o \in Outcomes \ Answers,
         statuses' = Record(r, o)
  PROVE  Refuses
<1>1. statuses'[r] = Append(statuses[r], o)
  BY DEF Record, TypeOK
<1>2. \A q \in Runs : q # r => statuses'[q] = statuses[q]
  BY RecordEffect
<1>3. QED
  BY <1>1, <1>2 DEF Refuses

LEMMA RefusingSteps ==
  ASSUME RunInvariant,
         \/ MarkUnavailable \/ DrainPending \/ Report
         \/ \E t \in DOMAIN tasks : CompleteError(t) \/ Crashed(t)
  PROVE  Refuses
<1>1. TypeOK
  BY DEF RunInvariant
<1>2. {"unavailable", "timed_out_investigation", "unsupported", "failed",
       "budget_exhausted", "timed_out_source"} \subseteq Outcomes \ Answers
  BY DEF Outcomes, Answers
<1>3. CASE MarkUnavailable
  <2>1. <<Source, cursor.indicator>> \in Runs
    BY <1>1, <1>3, CursorType DEF MarkUnavailable
  <2>2. CASE statuses' = statuses
    BY <2>2 DEF Refuses
  <2>3. CASE statuses' = Record(<<Source, cursor.indicator>>, "unavailable")
    BY <1>1, <1>2, <2>1, <2>3, RecordRefuses
  <2>4. QED
    BY <1>3, <2>2, <2>3 DEF MarkUnavailable
<1>4. CASE DrainPending
  BY <1>2, <1>4 DEF DrainPending, CutOff, Refuses
<1>5. CASE Report
  BY <1>2, <1>5 DEF Report, Refuses
<1>6. ASSUME NEW t \in DOMAIN tasks, CompleteError(t) \/ Crashed(t)
      PROVE  Refuses
  <2>1. RunOf(t) \in Runs
    BY <1>1, TaskType
  <2>2. ErrorOutcome(tasks[t].result) \in Outcomes \ Answers
    BY <1>2 DEF ErrorOutcome
  <2>3. \E o \in Outcomes \ Answers : statuses' = Record(RunOf(t), o)
    BY <1>2, <1>6, <2>2 DEF CompleteError, Crashed
  <2>4. QED
    BY <1>1, <2>1, <2>3, RecordRefuses
<1>7. QED
  BY <1>3, <1>4, <1>5, <1>6

(* Nothing is merged, and the same runs have answered. *)
SameAnswers ==
  /\ UNCHANGED knowledge
  /\ \A u \in DOMAIN tasks : Answered(u)' <=> Answered(u)

(* What task t returned is merged, and t has answered. *)
Answering(t) ==
  /\ tasks[t].state = "finished"
  /\ Merge(tasks[t].collection)
  /\ \A u \in DOMAIN tasks : Answered(u)' <=> (Answered(u) \/ u = t)

(* A run has answered from the moment its collection is merged, and for    *)
(* good: merging and answering are one step.                               *)
LEMMA AnsweredStep ==
  ASSUME RunInvariant, [Next]_vars
  PROVE  /\ SameAnswers \/ \E t \in DOMAIN tasks : Answering(t)
         /\ \A n \in DOMAIN tasks' \ DOMAIN tasks : ~Answered(n)'
<1> USE DEF HasAnswer
<1>1. /\ TypeOK /\ ControlOK
      /\ \A u \in DOMAIN tasks : RunOf(u) \in Runs /\ u # 0
      /\ \A u \in DOMAIN tasks : RunOf(u)' = RunOf(u)
  BY TaskType, TableStep DEF RunInvariant
<1>2. \A u \in DOMAIN tasks : Answered(u) <=> (u = current.task \/ HasAnswer(RunOf(u)))
  BY DEF Answered
<1>3. \A u \in DOMAIN tasks : Answered(u)' <=>
        (u = current'.task \/ HasAnswer(RunOf(u))')
  BY DEF Answered
<1> HIDE DEF HasAnswer
<1>4. ASSUME Refuses, current'.task = current.task, UNCHANGED knowledge
      PROVE  SameAnswers
  <2>1. \A u \in DOMAIN tasks : HasAnswer(RunOf(u))' <=> HasAnswer(RunOf(u))
    <3> SUFFICES ASSUME NEW u \in DOMAIN tasks
                 PROVE  HasAnswer(RunOf(u))' <=> HasAnswer(RunOf(u))
      OBVIOUS
    <3>1. PICK r \in Runs : r = RunOf(u)
      BY <1>1
    <3>2. HasAnswer(r)' <=> HasAnswer(r)
      BY <1>1, <1>4, RefusalsDoNotAnswer
    <3>3. QED
      BY <1>1, <3>1, <3>2 DEF HasAnswer
  <2>2. QED
    BY <1>2, <1>3, <1>4, <2>1 DEF SameAnswers
<1>5. CASE Spawn
  <2>1. UNCHANGED <<statuses, current, knowledge>> /\ pc = "schedule"
    BY <1>5 DEF Spawn, Scheduling
  <2>2. SameAnswers
    BY <1>4, <2>1 DEF Refuses
  <2>3. PICK n \in Nat \ {0} :
          /\ n \notin DOMAIN tasks
          /\ DOMAIN tasks' = DOMAIN tasks \cup {n}
          /\ tasks'[n].source = Source
          /\ tasks'[n].indicator = cursor.indicator
    BY <1>5, SpawnEffect
  <2>4. RunOf(n)' = <<Source, cursor.indicator>>
    BY <2>3 DEF RunOf
  <2>5. statuses'[RunOf(n)'] = <<>>
    BY <1>5, <2>1, <2>4, SpawnEffect
  <2>6. n # current'.task
    BY <1>1, <2>1, <2>3, IdleTask DEF ControlOK
  <2>7. ~Answered(n)'
    BY <2>5, <2>6 DEF Answered
  <2>8. QED
    BY <2>2, <2>3, <2>7
<1>6. ASSUME ~Spawn PROVE DOMAIN tasks' \subseteq DOMAIN tasks
  BY <1>6, TableStep DEF Spawned
<1>7. ASSUME NEW t \in DOMAIN tasks, CompleteOk(t)
      PROVE  Answering(t)
  <2>1. /\ tasks[t].state = "finished" /\ Merge(tasks[t].collection)
        /\ UNCHANGED statuses /\ current'.task = t
        /\ pc = "join"
    BY <1>7 DEF CompleteOk, Joinable
  <2>2. current.task = 0
    BY <1>1, <2>1, IdleTask DEF ControlOK
  <2>3. \A u \in DOMAIN tasks : HasAnswer(RunOf(u))' <=> HasAnswer(RunOf(u))
    BY <1>1, <2>1 DEF HasAnswer
  <2>4. QED
    BY <1>1, <1>2, <1>3, <2>1, <2>2, <2>3 DEF Answering
<1>8. ASSUME RecordAnswer
      PROVE  SameAnswers
  <2>0. PICK t \in DOMAIN tasks : t = current.task
    BY <1>1, <1>8, InHand DEF RecordAnswer
  <2>1. /\ pc = "pivot" /\ current'.task = 0
        /\ statuses' = Record(RunOf(t), current.outcome)
        /\ UNCHANGED knowledge
    BY <1>8, <2>0, IdleTask DEF RecordAnswer
  <2>2. /\ current.outcome \in Answers
        /\ current.outcome \in Outcomes
    BY <1>1, <2>1, InHand DEF Answers, Outcomes
  <2>3. /\ statuses'[RunOf(t)] = Append(statuses[RunOf(t)], current.outcome)
        /\ \A q \in Runs : q # RunOf(t) => statuses'[q] = statuses[q]
    BY <1>1, <2>1, <2>2, RecordEffect DEF Record, TypeOK
  <2>4. HasAnswer(RunOf(t))'
    <3>1. statuses[RunOf(t)] \in Seq(Outcomes)
      BY <1>1, <2>2 DEF TypeOK
    <3>2. \E k \in DOMAIN statuses'[RunOf(t)] :
            statuses'[RunOf(t)][k] \in Answers
      BY <2>2, <2>3, <3>1, AppendAnswer
    <3>3. QED
      BY <1>1, <2>2, <3>2 DEF HasAnswer
  <2>5. ASSUME NEW u \in DOMAIN tasks, u # t
        PROVE  HasAnswer(RunOf(u))' <=> HasAnswer(RunOf(u))
    <3>1. RunOf(u) # RunOf(t)
      BY <2>2, <2>5 DEF RunInvariant, NoRepeatedRun
    <3>2. statuses'[RunOf(u)] = statuses[RunOf(u)]
      BY <1>1, <2>3, <3>1
    <3>3. QED
      BY <1>1, <3>2 DEF HasAnswer
  <2>6. \A u \in DOMAIN tasks : Answered(u)' <=> Answered(u)
    BY <1>1, <1>2, <1>3, <2>0, <2>1, <2>4, <2>5
  <2>7. QED
    BY <2>1, <2>6 DEF SameAnswers
<1>9. ASSUME \/ MarkUnavailable \/ DrainPending \/ Report
             \/ \E t \in DOMAIN tasks : CompleteError(t) \/ Crashed(t)
      PROVE  SameAnswers
  <2>1. Refuses
    BY <1>9, RefusingSteps
  <2>2. UNCHANGED <<current, knowledge>>
    BY <1>9 DEF MarkUnavailable, DrainPending, Report, CompleteError, Crashed
  <2>3. QED
    BY <1>4, <2>1, <2>2
<1>10. ASSUME SkipPivot \/ DropPivot \/ FollowPivot
       PROVE  SameAnswers
  <2>1. Considering /\ UNCHANGED <<statuses, knowledge>>
    BY <1>10 DEF SkipPivot, DropPivot, FollowPivot
  <2>2. current'.task = current.task
    BY <1>1, <2>1, ConsideringType
  <2>3. QED
    BY <1>4, <2>1, <2>2 DEF Refuses
<1>11. ASSUME \/ Register \/ RefuseDuplicate \/ Investigate \/ RefuseTarget
              \/ SkipCollector \/ EndSchedule \/ Elapse \/ AllJoined
              \/ DeadlinePasses \/ Over \/ UNCHANGED vars
              \/ \E t \in DOMAIN tasks : Task(t) \/ Reap(t)
       PROVE  SameAnswers
  <2>1. UNCHANGED <<current, statuses, knowledge>>
    BY <1>1, <1>11, TaskEffect DEF Register, RefuseDuplicate, Investigate,
       RefuseTarget, SkipCollector, EndSchedule, Elapse, AllJoined,
       DeadlinePasses, Over, vars
  <2>2. QED
    BY <1>4, <2>1 DEF Refuses
<1>12. CASE ~Spawn
  <2>1. SameAnswers \/ \E t \in DOMAIN tasks : Answering(t)
    BY <1>7, <1>8, <1>9, <1>10, <1>11, <1>12 DEF Next, Sequential, Join
  <2>2. QED
    BY <1>6, <1>12, <2>1
<1>13. QED
  BY <1>5, <1>12

(* What an answered run collected can no longer change. *)
LEMMA AnsweredAreJoined ==
  ASSUME RunInvariant, UnjoinedArePending, NEW u \in DOMAIN tasks, Answered(u)
  PROVE  tasks[u].state = "joined"
<1>1. RunOf(u) \in Runs /\ u # 0
  BY TaskType DEF RunInvariant
<1>2. CASE u = current.task
  BY <1>1, <1>2, IdleTask DEF RunInvariant, ControlOK, UnjoinedArePending,
                              Unjoined
<1>3. CASE u # current.task
  <2>1. PICK k \in DOMAIN statuses[RunOf(u)] :
          statuses[RunOf(u)][k] \in Answers
    BY <1>3 DEF Answered
  <2>2. statuses[RunOf(u)] \in Seq(Outcomes)
    BY <1>1 DEF RunInvariant, TypeOK
  <2>3. Len(statuses[RunOf(u)]) # 0
    BY <2>1, <2>2, LenProperties
  <2>4. u \notin pending
    BY <2>3 DEF RunInvariant, OneStatusPerRun, Unsettled
  <2>5. QED
    BY <2>4 DEF UnjoinedArePending, Unjoined
<1>4. QED
  BY <1>2, <1>3

(* An answered run stays answered, with the same collection. *)
LEMMA AnsweredStays ==
  ASSUME RunInvariant, UnjoinedArePending, [Next]_vars,
         NEW u \in DOMAIN tasks, Answered(u)
  PROVE  /\ u \in DOMAIN tasks'
         /\ Answered(u)'
         /\ tasks'[u].depth = tasks[u].depth
         /\ tasks'[u].collection = tasks[u].collection
<1>1. tasks[u].state = "joined"
  BY AnsweredAreJoined
<1>2. u \in DOMAIN tasks' /\ Kept(u)
  BY TableStep
<1>3. Answered(u)'
  BY AnsweredStep DEF SameAnswers, Answering
<1>4. QED
  BY <1>1, <1>2, <1>3 DEF Kept

-----------------------------------------------------------------------------
(* The evidence and the claims in the report *)

Answerers == {u \in DOMAIN tasks : Answered(u)}

LEMMA AnswerersStep ==
  ASSUME RunInvariant, UnjoinedArePending, [Next]_vars
  PROVE  /\ \/ UNCHANGED knowledge /\ Answerers' = Answerers
            \/ \E t \in DOMAIN tasks : /\ Merge(tasks[t].collection)
                                       /\ Answerers' = Answerers \cup {t}
         /\ \A u \in Answerers' :
              u \in DOMAIN tasks /\ tasks'[u].collection = tasks[u].collection
<1>1. Answerers' \subseteq DOMAIN tasks /\ DOMAIN tasks \subseteq DOMAIN tasks'
  BY AnsweredStep, TableStep DEF Answerers
<1>2. \A u \in Answerers : tasks'[u].collection = tasks[u].collection
  BY AnsweredStays DEF Answerers
<1>3. CASE SameAnswers
  <2>1. Answerers' = Answerers
    BY <1>1, <1>3 DEF Answerers, SameAnswers
  <2>2. QED
    BY <1>1, <1>2, <1>3, <2>1 DEF SameAnswers
<1>4. ASSUME NEW t \in DOMAIN tasks, Answering(t)
      PROVE  /\ Merge(tasks[t].collection)
             /\ Answerers' = Answerers \cup {t}
             /\ tasks'[t].collection = tasks[t].collection
  <2>1. Answerers' = Answerers \cup {t}
    BY <1>1, <1>4 DEF Answerers, Answering
  <2>2. QED
    BY <1>4, <2>1, TableStep DEF Answering, Kept
<1>5. QED
  BY <1>1, <1>2, <1>3, <1>4, AnsweredStep

LEMMA StepEvidence ==
  ASSUME RunInvariant, UnjoinedArePending, EvidenceMatchesStatuses, [Next]_vars
  PROVE  EvidenceMatchesStatuses'
<1>1. \A u \in Answerers' : tasks'[u].collection = tasks[u].collection
  BY AnswerersStep
<1>2. observations = UNION {tasks[u].collection.observations : u \in Answerers}
  BY DEF EvidenceMatchesStatuses, Answerers
<1>3. EvidenceMatchesStatuses' <=>
        observations' = UNION {tasks'[u].collection.observations :
                                 u \in Answerers'}
  BY DEF EvidenceMatchesStatuses, Answerers
<1>4. {tasks'[u].collection.observations : u \in Answerers'}
        = {tasks[u].collection.observations : u \in Answerers'}
  BY <1>1
<1>5. CASE UNCHANGED observations /\ Answerers' = Answerers
  BY <1>2, <1>3, <1>4, <1>5
<1>6. ASSUME NEW t \in DOMAIN tasks, Merge(tasks[t].collection),
             Answerers' = Answerers \cup {t}
      PROVE  EvidenceMatchesStatuses'
  <2>1. observations' = observations \cup tasks[t].collection.observations
    BY <1>6 DEF Merge, Known
  <2>2. UNION {tasks[u].collection.observations : u \in Answerers'}
          = (UNION {tasks[u].collection.observations : u \in Answerers})
              \cup tasks[t].collection.observations
    BY <1>6
  <2>3. QED
    BY <1>2, <1>3, <1>4, <2>1, <2>2
<1>7. QED
  BY <1>5, <1>6, AnswerersStep

(* Merging only ever adds: observations, the evidence of edges, findings.  *)
LEMMA MergeGrows ==
  ASSUME RunInvariant, NEW t \in DOMAIN tasks, Merge(tasks[t].collection)
  PROVE  /\ observations \subseteq observations'
         /\ \A e \in Edges : relationships[e] \subseteq relationships'[e]
         /\ findings \subseteq findings'
  BY DEF Merge, Known

LEMMA KnowledgeGrows ==
  ASSUME RunInvariant, UnjoinedArePending, [Next]_vars
  PROVE  /\ observations \subseteq observations'
         /\ \A e \in Edges : relationships[e] \subseteq relationships'[e]
         /\ findings \subseteq findings'
<1>1. CASE UNCHANGED knowledge
  BY <1>1
<1>2. QED
  BY <1>1, AnswerersStep, MergeGrows

LEMMA StepBacked ==
  ASSUME RunInvariant, UnjoinedArePending, ClaimsAreBacked, [Next]_vars
  PROVE  ClaimsAreBacked'
<1>1. CASE UNCHANGED knowledge
  BY <1>1 DEF ClaimsAreBacked
<1>2. ASSUME NEW t \in DOMAIN tasks, Merge(tasks[t].collection)
      PROVE  ClaimsAreBacked'
  <2> DEFINE c == tasks[t].collection
  <2>1. observations' = Known(c)
    BY <1>2 DEF Merge
  <2>2. \A e \in Edges : Cited(c, e) \subseteq observations'
    BY <2>1 DEF Cited
  <2>3. \A e \in Edges :
          relationships'[e] = relationships[e] \cup Cited(c, e)
    BY <1>2 DEF Merge
  <2>4. \A f \in findings' : f \in findings \/ f.evidence \subseteq observations'
    BY <1>2, <2>1 DEF Merge
  <2>5. observations \subseteq observations'
    BY <1>2, MergeGrows
  <2>6. QED
    BY <2>2, <2>3, <2>4, <2>5 DEF ClaimsAreBacked
<1>3. QED
  BY <1>1, <1>2, AnswerersStep

(* The claims of a collection that rest on its own observations survive.   *)
Preserves(c) ==
  /\ \A r \in c.relationships :
       r.evidence \subseteq c.observations =>
         r.evidence \subseteq relationships[r.edge]
  /\ \A f \in c.findings :
       f.evidence \subseteq c.observations => f \in findings

LEMMA MergePreserves ==
  ASSUME TypeOK, NEW c \in Collection, Merge(c)
  PROVE  Preserves(c)'
<1>1. ASSUME NEW r \in c.relationships, r.evidence \subseteq c.observations
      PROVE  r.evidence \subseteq relationships'[r.edge]
  <2>1. r.edge \in Edges
    BY DEF Collection, Relationship
  <2>2. r.evidence \subseteq Known(c)
    BY <1>1 DEF Known
  <2>3. r.evidence \subseteq Cited(c, r.edge)
    BY <2>2 DEF Cited
  <2>4. QED
    BY <2>1, <2>3 DEF Merge
<1>2. ASSUME NEW f \in c.findings, f.evidence \subseteq c.observations
      PROVE  f \in findings'
  BY <1>2 DEF Merge, Known
<1>3. QED
  BY <1>1, <1>2 DEF Preserves

LEMMA PreservedStays ==
  ASSUME RunInvariant, UnjoinedArePending, [Next]_vars,
         NEW c \in Collection, Preserves(c)
  PROVE  Preserves(c)'
<1>1. \A r \in c.relationships : r.edge \in Edges
  BY DEF Collection, Relationship
<1>2. QED
  BY <1>1, KnowledgeGrows DEF Preserves

LEMMA StepOwnClaims ==
  ASSUME RunInvariant, UnjoinedArePending, OwnClaimsAreKept, [Next]_vars
  PROVE  OwnClaimsAreKept'
<1>1. \A u \in Answerers : Preserves(tasks[u].collection)
  BY DEF OwnClaimsAreKept, Preserves, Answerers
<1>2. SUFFICES ASSUME NEW u \in Answerers'
               PROVE  \A c : c = tasks'[u].collection => Preserves(c)'
  BY DEF OwnClaimsAreKept, Preserves, Answerers
<1>3. PICK c \in Collection : /\ c = tasks[u].collection
                              /\ c = tasks'[u].collection
  BY AnswerersStep, TaskType DEF RunInvariant
<1>4. CASE u \in Answerers
  BY <1>1, <1>3, <1>4, PreservedStays
<1>5. CASE u \notin Answerers
  <2>1. Merge(c)
    BY <1>3, <1>5, AnswerersStep
  <2>2. QED
    BY <1>3, <2>1, MergePreserves DEF RunInvariant
<1>6. QED
  BY <1>4, <1>5

EvidenceInvariant ==
  /\ UnjoinedArePending
  /\ EvidenceMatchesStatuses
  /\ ClaimsAreBacked
  /\ OwnClaimsAreKept

LEMMA StepEvidenceInvariant ==
  RunInvariant /\ EvidenceInvariant /\ [Next]_vars => EvidenceInvariant'
  BY StepPending, StepEvidence, StepBacked, StepOwnClaims DEF EvidenceInvariant

LEMMA InitEvidenceInvariant == Init => EvidenceInvariant
  BY DEF Init, EvidenceInvariant, UnjoinedArePending, Unjoined,
         EvidenceMatchesStatuses, ClaimsAreBacked, OwnClaimsAreKept

LEMMA EvidenceInvariance == Spec => []EvidenceInvariant
  BY Invariance, InitEvidenceInvariant, StepEvidenceInvariant, PTL DEF Spec

(* The evidence of the report is exactly that of the runs that answered.   *)
THEOREM EvidenceIsOfAnswers == Spec => []EvidenceMatchesStatuses
<1>1. EvidenceInvariant => EvidenceMatchesStatuses
  BY DEF EvidenceInvariant
<1>2. QED
  BY <1>1, EvidenceInvariance, PTL

(* Relationships and findings never cite an observation the report lacks.  *)
THEOREM ClaimsAlwaysBacked == Spec => []ClaimsAreBacked
<1>1. EvidenceInvariant => ClaimsAreBacked
  BY DEF EvidenceInvariant
<1>2. QED
  BY <1>1, EvidenceInvariance, PTL

(* No claim of an answering run that rests on the run's own observations   *)
(* is discarded, then or by a later merge, in whatever order runs end.     *)
THEOREM OwnClaimsAlwaysKept == Spec => []OwnClaimsAreKept
<1>1. EvidenceInvariant => OwnClaimsAreKept
  BY DEF EvidenceInvariant
<1>2. QED
  BY <1>1, EvidenceInvariance, PTL

-----------------------------------------------------------------------------
(* The limits on pivots *)

(* The target is enriched first, and nothing before the investigation.     *)
VisitedFromStart ==
  /\ visited = {} <=> pc \in {"register", "rejected"}
  /\ visited # {} => target \in visited
  /\ visited = {} => stats.pivots_followed = 0

CursorWithinDepth == pc = "schedule" => cursor.depth <= MaxDepth

LimitsInvariant == VisitedFromStart /\ CursorWithinDepth /\ PivotLimits

(* Steps that start no task and follow no pivot.                           *)
LEMMA LimitsFrame ==
  ASSUME RunInvariant, LimitsInvariant, [Next]_vars, ~Spawn,
         UNCHANGED <<target, visited>>, stats'.pivots_followed = stats.pivots_followed,
         pc' \in {"register", "rejected"} <=> pc \in {"register", "rejected"},
         pc' = "schedule" => pc = "schedule" /\ cursor'.depth = cursor.depth
  PROVE  LimitsInvariant'
<1>1. VisitedFromStart' /\ CursorWithinDepth'
  BY DEF LimitsInvariant, VisitedFromStart, CursorWithinDepth
<1>2. \A u \in DOMAIN tasks' : u \in DOMAIN tasks /\ tasks'[u].depth = tasks[u].depth
  BY TableStep DEF Spawned, Kept
<1>3. PivotLimits'
  BY <1>2 DEF LimitsInvariant, PivotLimits
<1>4. QED
  BY <1>1, <1>3 DEF LimitsInvariant

LEMMA CursorKept ==
  ASSUME TypeOK, NextCollector
  PROVE  /\ cursor'.indicator = cursor.indicator
         /\ cursor'.depth = cursor.depth
         /\ cursor'.next = cursor.next + 1
  BY DEF TypeOK, NextCollector

LEMMA StepLimits ==
  ASSUME RunInvariant, LimitsInvariant, [Next]_vars
  PROVE  LimitsInvariant'
<1>1. TypeOK /\ ControlOK
  BY DEF RunInvariant
<1>2. CASE Register
  BY <1>2, LimitsFrame DEF Register, Spawn, Scheduling
<1>3. CASE RefuseDuplicate \/ RefuseTarget
  BY <1>3, LimitsFrame DEF RefuseDuplicate, RefuseTarget, Spawn, Scheduling
<1>4. CASE Investigate
  <2>1. /\ tasks' = <<>> /\ visited' = {target} /\ target' = target
        /\ target \in Investigable /\ stats' = stats /\ visited = {}
        /\ stats.pivots_followed = 0
        /\ pc' = "schedule" /\ cursor'.depth = 0
    BY <1>1, <1>4 DEF Investigate, ControlOK, LimitsInvariant,
                      VisitedFromStart, NoCursor
  <2>2. Cardinality(visited') = 1
    BY <2>1, FS_Singleton
  <2>3. PivotLimits'
    BY <2>1, <2>2, LimitsAssumption DEF PivotLimits
  <2>4. QED
    BY <2>1, <2>3, LimitsAssumption
       DEF LimitsInvariant, VisitedFromStart, CursorWithinDepth
<1>5. CASE SkipCollector \/ MarkUnavailable
  <2>1. NextCollector /\ UNCHANGED <<pc, target, visited, stats>> /\ ~Spawn
    BY <1>5 DEF SkipCollector, MarkUnavailable, Spawn
  <2>2. QED
    BY <1>1, <2>1, CursorKept, LimitsFrame
<1>6. CASE Spawn
  <2>1. /\ NextCollector /\ pc = "schedule"
        /\ UNCHANGED <<pc, target, visited>>
        /\ stats' = [stats EXCEPT !.source_runs = stats.source_runs + 1]
    BY <1>6 DEF Spawn, Scheduling
  <2>2. stats'.pivots_followed = stats.pivots_followed
    BY <1>1, <2>1 DEF TypeOK
  <2>3. cursor'.depth = cursor.depth
    BY <1>1, <2>1, CursorKept
  <2>4. cursor.depth <= MaxDepth
    BY <2>1 DEF LimitsInvariant, CursorWithinDepth
  <2>5. \A u \in DOMAIN tasks' : tasks'[u].depth <= MaxDepth
    BY <2>4, TableStep DEF Kept, Spawned, LimitsInvariant, PivotLimits
  <2>6. PivotLimits'
    BY <2>1, <2>2, <2>5 DEF LimitsInvariant, PivotLimits
  <2>7. QED
    BY <2>1, <2>2, <2>3, <2>6
       DEF LimitsInvariant, VisitedFromStart, CursorWithinDepth
<1>7. CASE EndSchedule
  BY <1>7, LimitsFrame DEF EndSchedule, Spawn, Scheduling
<1>8. CASE SkipPivot \/ DropPivot \/ RecordAnswer
  BY <1>8, LimitsFrame DEF SkipPivot, DropPivot, RecordAnswer, Considering,
                           Spawn, Scheduling
<1>9. CASE FollowPivot
  <2>1. /\ pc = "pivot" /\ pc' = "schedule" /\ Considering
        /\ UNCHANGED <<target, tasks>>
        /\ visited' = visited \cup {Pivot} /\ Pivot \notin visited
        /\ Pivot \in Investigable
        /\ ~(PivotDepth > MaxDepth)
        /\ ~(Cardinality(visited) - 1 >= MaxEntities)
        /\ stats' = [stats EXCEPT !.pivots_followed = stats.pivots_followed + 1]
        /\ cursor'.depth = PivotDepth
    BY <1>9 DEF FollowPivot, Considering, Seen, Rejected
  <2>2. IsFiniteSet(visited) /\ Cardinality(visited) \in Nat
    BY <1>1, FS_CardinalityType DEF TypeOK
  <2>3. Cardinality(visited') = Cardinality(visited) + 1
    BY <2>1, <2>2, FS_AddElement
  <2>4. visited # {} /\ target \in visited
    BY <2>1 DEF LimitsInvariant, VisitedFromStart
  <2>5. /\ stats'.pivots_followed = stats.pivots_followed + 1
        /\ stats.pivots_followed = Cardinality(visited) - 1
    BY <1>1, <2>1, <2>4 DEF TypeOK, LimitsInvariant, PivotLimits
  <2>6. PivotDepth \in 0..DepthCap /\ PivotDepth <= MaxDepth
    BY <1>1, <2>1, InHand, LimitsAssumption
  <2>7. Cardinality(visited') <= MaxEntities + 1
    BY <2>1, <2>2, <2>3, LimitsAssumption
  <2>8. stats'.pivots_followed = Cardinality(visited') - 1
    BY <2>2, <2>3, <2>5
  <2>9. PivotLimits'
    BY <2>1, <2>7, <2>8 DEF LimitsInvariant, PivotLimits
  <2>10. QED
    BY <2>1, <2>4, <2>6, <2>9
       DEF LimitsInvariant, VisitedFromStart, CursorWithinDepth
<1>10. CASE Elapse
  <2>1. stats'.pivots_followed = stats.pivots_followed
    BY <1>1, <1>10 DEF Elapse, TypeOK
  <2>2. QED
    BY <1>10, <2>1, LimitsFrame DEF Elapse, Spawn, Scheduling
<1>11. CASE Report
  <2>1. stats'.pivots_followed = stats.pivots_followed
    BY <1>1, <1>11 DEF Report, FinalStats, TypeOK
  <2>2. QED
    BY <1>11, <2>1, LimitsFrame DEF Report, Spawn, Scheduling
<1>12. CASE \/ DrainPending \/ AllJoined \/ DeadlinePasses \/ Over
            \/ UNCHANGED vars
  <2>1. /\ UNCHANGED <<target, visited, stats, tasks>>
        /\ pc' \in {"register", "rejected"} <=> pc \in {"register", "rejected"}
        /\ pc' = "schedule" => UNCHANGED <<pc, cursor>>
    BY <1>12 DEF DrainPending, AllJoined, DeadlinePasses, Over, vars
  <2>2. QED
    BY <2>1 DEF LimitsInvariant, VisitedFromStart, CursorWithinDepth,
                PivotLimits
<1>13. CASE \E t \in DOMAIN tasks : Join(t) \/ Reap(t) \/ Task(t)
  <2>1. /\ UNCHANGED <<target, visited, stats>>
        /\ \/ UNCHANGED <<pc, cursor>>
           \/ pc = "join" /\ pc' \in {"join", "pivot"}
    BY <1>1, <1>13, TaskEffect DEF Join, CompleteOk, CompleteError, Crashed,
                                   Joinable
  <2>2. CASE Spawn
    BY <1>6, <2>2
  <2>3. CASE ~Spawn
    BY <2>1, <2>3, LimitsFrame
  <2>4. QED
    BY <2>2, <2>3
<1>14. QED
  BY <1>2, <1>3, <1>4, <1>5, <1>6, <1>7, <1>8, <1>9, <1>10, <1>11, <1>12,
     <1>13 DEF Next, Sequential

LEMMA InitLimits == Init => LimitsInvariant
<1> SUFFICES ASSUME Init PROVE LimitsInvariant
  OBVIOUS
<1>1. /\ visited = {} /\ pc = "register" /\ tasks = <<>>
      /\ stats.pivots_followed = 0
  BY DEF Init
<1>2. Cardinality(visited) = 0
  BY <1>1, FS_EmptySet
<1>3. QED
  BY <1>1, <1>2, LimitsAssumption
     DEF LimitsInvariant, VisitedFromStart, CursorWithinDepth, PivotLimits

LEMMA LimitsInvariance == Spec => []LimitsInvariant
<1>1. RunInvariant /\ LimitsInvariant /\ [Next]_vars => LimitsInvariant'
  BY StepLimits
<1>2. QED
  BY <1>1, Invariance, InitLimits, PTL DEF Spec

(* max_depth and max_entities bound every enrichment, pivots_followed      *)
(* counts exactly the indicators followed, and all of them may be          *)
(* investigated, whatever the collectors report and in whatever order.     *)
THEOREM PivotsWithinLimits == Spec => []PivotLimits
<1>1. LimitsInvariant => PivotLimits
  BY DEF LimitsInvariant
<1>2. QED
  BY <1>1, LimitsInvariance, PTL

-----------------------------------------------------------------------------
(* Where pivots come from *)

Named(t, i) ==
  \E k \in DOMAIN tasks[t].collection.pivots :
    tasks[t].collection.pivots[k] = i

(* What consider_pivots examines, and what the nested schedule enriches,   *)
(* was reported by the run being completed.                                *)
CandidatesAreReported ==
  /\ current # Idle =>
       \A k \in DOMAIN current.candidates :
         Named(current.task, current.candidates[k])
  /\ pc = "schedule" =>
       IF current = Idle
       THEN cursor.indicator = target /\ cursor.depth = 0
       ELSE /\ cursor.indicator # target
            /\ cursor.depth = ChildDepth(tasks[current.task].depth)
            /\ Named(current.task, cursor.indicator)

PivotInvariant ==
  /\ UnjoinedArePending
  /\ VisitedFromStart
  /\ CandidatesAreReported

LEMMA ExaminedNames ==
  ASSUME NEW p \in Seq(Indicators)
  PROVE  \A k \in DOMAIN Examined(p) :
           \E j \in DOMAIN p : p[j] = Examined(p)[k]
<1>1. DOMAIN p = 1..Len(p) /\ Len(p) \in Nat
  BY LenProperties
<1>2. CASE Len(p) > MaxCandidates
  <2>1. \A k \in 1..MaxCandidates : p[k] \in Indicators
    BY <1>1, <1>2, LimitsAssumption, ElementOfSeq
  <2>2. /\ Len(SubSeq(p, 1, MaxCandidates)) = MaxCandidates
        /\ SubSeq(p, 1, MaxCandidates) \in Seq(Indicators)
        /\ \A k \in 1..MaxCandidates :
             SubSeq(p, 1, MaxCandidates)[k] = p[k]
    BY <2>1, LimitsAssumption, SubSeqProperties
  <2>3. DOMAIN SubSeq(p, 1, MaxCandidates) = 1..MaxCandidates
    BY <2>2, LenProperties
  <2>4. QED
    BY <1>1, <1>2, <2>2, <2>3, LimitsAssumption DEF Examined
<1>3. CASE ~(Len(p) > MaxCandidates)
  BY <1>3 DEF Examined
<1>4. QED
  BY <1>2, <1>3

(* The task being completed is joined, so its record is settled. *)
LEMMA CompletedIsJoined ==
  ASSUME RunInvariant, UnjoinedArePending, current # Idle
  PROVE  /\ current.task \in DOMAIN tasks
         /\ Answered(current.task)
         /\ tasks[current.task].state = "joined"
  BY DEF RunInvariant, ControlOK, UnjoinedArePending, Unjoined, Answered

LEMMA ReportedFrame ==
  ASSUME RunInvariant, PivotInvariant, [Next]_vars, UNCHANGED <<target, current>>,
         pc' = "schedule" => /\ pc = "schedule"
                             /\ cursor'.indicator = cursor.indicator
                             /\ cursor'.depth = cursor.depth
  PROVE  CandidatesAreReported'
<1>1. CASE current = Idle
  BY <1>1 DEF PivotInvariant, CandidatesAreReported
<1>2. CASE current # Idle
  <2> DEFINE t == current.task
  <2>1. t \in DOMAIN tasks /\ tasks[t].state = "joined"
    BY <1>2, CompletedIsJoined DEF PivotInvariant
  <2>2. /\ tasks'[t].collection = tasks[t].collection
        /\ tasks'[t].depth = tasks[t].depth
    BY <2>1, TableStep DEF Kept
  <2>3. \A i : Named(current.task, i) => Named(current.task, i)'
    BY <2>2 DEF Named
  <2>4. QED
    BY <1>2, <2>2, <2>3 DEF PivotInvariant, CandidatesAreReported, Named
<1>3. QED
  BY <1>1, <1>2

(* Taking the first candidate leaves reported ones. *)
LEMMA ConsideringReported ==
  ASSUME RunInvariant, PivotInvariant, Considering
  PROVE  /\ current # Idle /\ current' # Idle
         /\ current'.task = current.task
         /\ Named(current.task, Pivot)
         /\ \A k \in DOMAIN current'.candidates :
              Named(current.task, current'.candidates[k])
<1>1. TypeOK /\ ControlOK /\ pc = "pivot"
  BY DEF RunInvariant, Considering
<1>2. /\ current.candidates \in Seq(Indicators)
      /\ current.candidates # <<>>
      /\ current'.candidates = Tail(current.candidates)
      /\ current'.task = current.task
  BY <1>1 DEF Considering, TypeOK
<1>3. current # Idle /\ current.task # 0
  BY <1>1, TaskType DEF ControlOK
<1>4. current' # Idle
  BY <1>2, <1>3, IdleTask
<1> DEFINE s == current.candidates
<1>5. /\ DOMAIN s = 1..Len(s) /\ Len(s) \in Nat
      /\ Len(s) # 0
      /\ Head(s) = s[1]
  BY <1>2, LenProperties, EmptySeq
<1>6. /\ Tail(s) \in Seq(Indicators)
      /\ Len(Tail(s)) = Len(s) - 1
      /\ \A k \in 1..(Len(s) - 1) : Tail(s)[k] = s[k + 1]
  BY <1>2, HeadTailProperties
<1>7. DOMAIN Tail(s) = 1..(Len(s) - 1)
  BY <1>6, LenProperties
<1>8. \A k \in DOMAIN s : Named(current.task, s[k])
  BY <1>3 DEF PivotInvariant, CandidatesAreReported
<1> HIDE DEF s
<1>9. Named(current.task, Pivot)
  BY <1>5, <1>8 DEF Pivot, s
<1>10. \A k \in DOMAIN Tail(s) : Named(current.task, Tail(s)[k])
  BY <1>5, <1>6, <1>7, <1>8
<1>11. QED
  BY <1>2, <1>3, <1>4, <1>9, <1>10 DEF s

LEMMA StepReported ==
  ASSUME RunInvariant, PivotInvariant, [Next]_vars
  PROVE  CandidatesAreReported'
<1>1. TypeOK /\ ControlOK
  BY DEF RunInvariant
<1>2. CASE Investigate
  <2>1. current' = Idle /\ cursor'.indicator = target' /\ cursor'.depth = 0
    BY <1>1, <1>2 DEF Investigate, ControlOK, NoCursor
  <2>2. QED
    BY <2>1 DEF CandidatesAreReported
<1>3. CASE SkipCollector \/ MarkUnavailable \/ Spawn
  <2>1. /\ NextCollector /\ UNCHANGED <<target, current>> /\ pc = "schedule"
    BY <1>3 DEF SkipCollector, MarkUnavailable, Spawn, Scheduling
  <2>2. QED
    BY <1>1, <2>1, CursorKept, ReportedFrame
<1>4. CASE SkipPivot \/ DropPivot
  <2>1. Considering /\ pc' = "pivot" /\ UNCHANGED tasks
    BY <1>4 DEF SkipPivot, DropPivot, Considering
  <2>2. QED
    BY <2>1, ConsideringReported DEF CandidatesAreReported, Named
<1>5. CASE FollowPivot
  <2>1. /\ Considering /\ pc = "pivot" /\ UNCHANGED <<tasks, target>>
        /\ Pivot \notin visited
        /\ cursor'.indicator = Pivot /\ cursor'.depth = PivotDepth
    BY <1>5 DEF FollowPivot, Considering, Seen
  <2>2. Pivot # target
    BY <2>1 DEF PivotInvariant, VisitedFromStart
  <2>3. QED
    BY <2>1, <2>2, ConsideringReported
       DEF CandidatesAreReported, Named, PivotDepth
<1>6. CASE RecordAnswer
  BY <1>6 DEF RecordAnswer, CandidatesAreReported
<1>7. ASSUME NEW t \in DOMAIN tasks, CompleteOk(t)
      PROVE  CandidatesAreReported'
  <2> DEFINE c == tasks[t].collection
  <2>1. c.pivots \in Seq(Indicators)
    BY <1>1, TaskType DEF Collection
  <2>2. tasks'[t].collection = c
    BY <1>7, TableStep DEF CompleteOk, Kept
  <2>3. current'.task = t /\ current'.candidates = Examined(c.pivots)
        /\ pc' = "pivot"
    BY <1>7 DEF CompleteOk
  <2>4. \A k \in DOMAIN Examined(c.pivots) :
          \E j \in DOMAIN c.pivots : c.pivots[j] = Examined(c.pivots)[k]
    BY <2>1, ExaminedNames
  <2>5. QED
    BY <2>2, <2>3, <2>4 DEF CandidatesAreReported, Named
<1>8. CASE \/ Register \/ RefuseDuplicate \/ RefuseTarget \/ EndSchedule
           \/ Elapse \/ DrainPending \/ AllJoined \/ Report \/ DeadlinePasses
           \/ Over \/ UNCHANGED vars
           \/ \E t \in DOMAIN tasks : \/ CompleteError(t) \/ Crashed(t)
                                      \/ Task(t) \/ Reap(t)
  <2>1. /\ UNCHANGED <<target, current>>
        /\ pc' = "schedule" => UNCHANGED <<pc, cursor>>
    BY <1>1, <1>8, TaskEffect DEF Register, RefuseDuplicate, RefuseTarget,
       EndSchedule, Elapse, DrainPending, AllJoined, Report, DeadlinePasses,
       Over, vars, CompleteError, Crashed
  <2>2. QED
    BY <2>1, ReportedFrame
<1>9. QED
  BY <1>2, <1>3, <1>4, <1>5, <1>6, <1>7, <1>8 DEF Next, Sequential, Join

(* An investigation keeps its target, and its collectors once it starts.   *)
LEMMA SetupStep ==
  ASSUME RunInvariant, [Next]_vars
  PROVE  target' = target /\ (registry' = registry \/ Register)
<1>1. CASE Register \/ RefuseDuplicate \/ Investigate \/ RefuseTarget
  BY <1>1 DEF Register, RefuseDuplicate, Investigate, RefuseTarget
<1>2. CASE SkipCollector \/ MarkUnavailable \/ Spawn \/ EndSchedule
  BY <1>2 DEF SkipCollector, MarkUnavailable, Spawn, EndSchedule
<1>3. CASE SkipPivot \/ DropPivot \/ FollowPivot \/ RecordAnswer
  BY <1>3 DEF SkipPivot, DropPivot, FollowPivot, RecordAnswer
<1>4. CASE Elapse \/ DrainPending \/ AllJoined \/ Report
  BY <1>4 DEF Elapse, DrainPending, AllJoined, Report
<1>5. CASE \E t \in DOMAIN tasks : Join(t) \/ Reap(t) \/ Task(t)
  BY <1>5, TaskEffect DEF RunInvariant, Join, CompleteOk, CompleteError,
                          Crashed
<1>6. CASE DeadlinePasses \/ Over \/ UNCHANGED vars
  BY <1>6 DEF DeadlinePasses, Over, vars
<1>7. QED
  BY <1>1, <1>2, <1>3, <1>4, <1>5, <1>6 DEF Next, Sequential

(* A new task enriches the target, or what the completed run reported.     *)
LEMMA StepPivotsReported ==
  ASSUME RunInvariant, PivotInvariant, PivotsAreReported, [Next]_vars
  PROVE  PivotsAreReported'
<1>0. target' = target
  BY SetupStep
<1>1. SUFFICES ASSUME NEW t \in DOMAIN tasks',
                      tasks'[t].indicator # target'
               PROVE  \E u \in DOMAIN tasks :
                        /\ Answered(u)
                        /\ tasks'[t].depth = ChildDepth(tasks[u].depth)
                        /\ Named(u, tasks'[t].indicator)
  <2>1. ASSUME NEW u \in DOMAIN tasks, Answered(u)
        PROVE  /\ u \in DOMAIN tasks'
               /\ Answered(u)'
               /\ tasks'[u].depth = tasks[u].depth
               /\ tasks'[u].collection = tasks[u].collection
    BY <2>1, AnsweredStays DEF PivotInvariant
  <2>2. QED
    BY <1>1, <2>1 DEF PivotsAreReported, Named
<1>2. CASE t \in DOMAIN tasks
  BY <1>0, <1>1, <1>2, TableStep DEF PivotsAreReported, Kept, Named
<1>3. CASE t \notin DOMAIN tasks
  <2>1. /\ Spawn
        /\ tasks'[t].indicator = cursor.indicator
        /\ tasks'[t].depth = cursor.depth
    BY <1>3, TableStep DEF Spawned
  <2>2. pc = "schedule" /\ target' = target
    BY <2>1 DEF Spawn, Scheduling
  <2>3. /\ current # Idle
        /\ cursor.depth = ChildDepth(tasks[current.task].depth)
        /\ Named(current.task, cursor.indicator)
    BY <1>1, <2>1, <2>2 DEF PivotInvariant, CandidatesAreReported
  <2>4. current.task \in DOMAIN tasks /\ Answered(current.task)
    BY <2>3, CompletedIsJoined DEF PivotInvariant
  <2>5. QED
    BY <2>1, <2>3, <2>4
<1>4. QED
  BY <1>2, <1>3

LEMMA StepVisited ==
  ASSUME RunInvariant, LimitsInvariant, [Next]_vars
  PROVE  VisitedFromStart'
  BY StepLimits DEF LimitsInvariant

LEMMA InitPivots ==
  Init => PivotInvariant /\ PivotsAreReported
<1> SUFFICES ASSUME Init PROVE PivotInvariant /\ PivotsAreReported
  OBVIOUS
<1>1. tasks = <<>> /\ current = Idle /\ pc = "register"
  BY DEF Init
<1>2. VisitedFromStart
  BY InitLimits DEF LimitsInvariant
<1>3. QED
  BY <1>1, <1>2 DEF PivotInvariant, UnjoinedArePending, Unjoined,
                    CandidatesAreReported, PivotsAreReported

LEMMA PivotInvariance == Spec => [](PivotInvariant /\ PivotsAreReported)
<1>1. RunInvariant /\ LimitsInvariant /\ (PivotInvariant /\ PivotsAreReported)
        /\ [Next]_vars => (PivotInvariant /\ PivotsAreReported)'
  BY StepPending, StepVisited, StepReported, StepPivotsReported
     DEF PivotInvariant
<1>2. QED
  BY <1>1, Invariance, LimitsInvariance, InitPivots, PTL DEF Spec

(* No indicator is enriched that no source reported: behind every pivot    *)
(* stands a run that answered, one level closer to the target.             *)
THEOREM PivotsAlwaysReported == Spec => []PivotsAreReported
<1>1. PivotInvariant /\ PivotsAreReported => PivotsAreReported
  OBVIOUS
<1>2. QED
  BY <1>1, PivotInvariance, PTL

-----------------------------------------------------------------------------
(* No run is left out *)

HasRun(s, i) == \E t \in DOMAIN tasks : RunOf(t) = <<s, i>>

(* The ready collectors before the cursor have been spawned.               *)
SpawnedSoFar ==
  pc = "schedule" =>
    \A k \in DOMAIN registry :
      /\ k < cursor.next
      /\ registry[k] \in Ready
      /\ Applies(registry[k], cursor.indicator, cursor.depth)
      => HasRun(registry[k], cursor.indicator)

LEMMA RunsStay ==
  ASSUME RunInvariant, [Next]_vars, NEW s, NEW i, HasRun(s, i)
  PROVE  HasRun(s, i)'
  BY TableStep DEF HasRun

LEMMA StepSpawnedSoFar ==
  ASSUME RunInvariant, SpawnedSoFar, [Next]_vars
  PROVE  SpawnedSoFar'
<1>1. TypeOK
  BY DEF RunInvariant
<1>2. CASE Investigate \/ FollowPivot
  <2>1. registry' = registry /\ cursor'.next = 1
    BY <1>2 DEF Investigate, FollowPivot, NoCursor
  <2>2. \A k \in DOMAIN registry : k \in Nat \ {0}
    BY <1>1, LenProperties DEF TypeOK
  <2>3. QED
    BY <2>1, <2>2 DEF SpawnedSoFar
<1>3. CASE SkipCollector \/ MarkUnavailable \/ Spawn
  <2>1. /\ NextCollector /\ Scheduling /\ pc = "schedule" /\ registry' = registry
        /\ \/ ~Applies(Source, cursor.indicator, cursor.depth)
           \/ Source \notin Ready
           \/ Spawn
    BY <1>3 DEF SkipCollector, MarkUnavailable, Spawn, Scheduling
  <2>2. /\ cursor'.indicator = cursor.indicator
        /\ cursor'.depth = cursor.depth
        /\ cursor'.next = cursor.next + 1
        /\ cursor.next \in Nat
        /\ \A k \in DOMAIN registry : k \in Nat
    BY <1>1, <2>1, CursorKept, LenProperties DEF TypeOK
  <2>3. ASSUME Spawn
        PROVE  \E t \in DOMAIN tasks' : RunOf(t)' = <<Source, cursor.indicator>>
    <3>1. PICK n \in Nat \ {0} :
            /\ DOMAIN tasks' = DOMAIN tasks \cup {n}
            /\ tasks'[n].source = Source
            /\ tasks'[n].indicator = cursor.indicator
      BY <2>3, SpawnEffect
    <3>2. QED
      BY <3>1 DEF RunOf
  <2>4. SUFFICES ASSUME NEW k \in DOMAIN registry, k < cursor'.next,
                        registry[k] \in Ready,
                        Applies(registry[k], cursor.indicator, cursor.depth)
                 PROVE  HasRun(registry[k], cursor.indicator)'
    BY <2>1, <2>2 DEF SpawnedSoFar, Applies, HasRun
  <2>5. CASE k < cursor.next
    <3>1. HasRun(registry[k], cursor.indicator)
      BY <2>1, <2>4, <2>5 DEF SpawnedSoFar
    <3>2. QED
      BY <2>1, <2>2, <3>1, TableStep DEF HasRun
  <2>6. CASE k = cursor.next
    <3>1. registry[k] = Source
      BY <2>6 DEF Source
    <3>2. Spawn
      BY <2>1, <2>4, <3>1
    <3>3. QED
      BY <2>1, <2>2, <2>3, <3>1, <3>2 DEF HasRun
  <2>7. QED
    BY <2>2, <2>4, <2>5, <2>6
<1>4. CASE pc' = "schedule" => UNCHANGED <<pc, registry, cursor>>
  BY <1>4, TableStep DEF SpawnedSoFar, HasRun, Applies
<1>5. CASE \/ Register \/ RefuseDuplicate \/ RefuseTarget \/ EndSchedule
           \/ SkipPivot \/ DropPivot \/ RecordAnswer
           \/ Elapse \/ DrainPending \/ AllJoined \/ Report \/ DeadlinePasses
           \/ Over \/ UNCHANGED vars
           \/ \E t \in DOMAIN tasks : Join(t) \/ Task(t) \/ Reap(t)
  <2>1. pc' = "schedule" => UNCHANGED <<pc, registry, cursor>>
    BY <1>1, <1>5, TaskEffect DEF Register, RefuseDuplicate, RefuseTarget,
       EndSchedule, SkipPivot, DropPivot, RecordAnswer, Considering, Elapse,
       DrainPending, AllJoined, Report, DeadlinePasses, Over, vars,
       Join, CompleteOk, CompleteError, Crashed
  <2>2. QED
    BY <1>4, <2>1
<1>6. QED
  BY <1>2, <1>3, <1>5 DEF Next, Sequential

LEMMA StepEveryApplicable ==
  ASSUME RunInvariant, LimitsInvariant, PivotInvariant, SpawnedSoFar,
         EveryApplicableRuns, [Next]_vars
  PROVE  EveryApplicableRuns'
<1>1. TypeOK /\ ControlOK /\ target' = target
  BY SetupStep DEF RunInvariant
<1>2. \A s, i : HasRun(s, i) => HasRun(s, i)'
  BY RunsStay
<1>3. ASSUME /\ UNCHANGED <<visited, registry>>
             /\ pc = "schedule" => /\ pc' = "schedule"
                                   /\ cursor'.indicator = cursor.indicator
      PROVE  EveryApplicableRuns'
  BY <1>1, <1>2, <1>3 DEF EveryApplicableRuns, Scheduled, Registered, HasRun
<1>4. CASE Register
  <2>1. visited' = {}
    BY <1>4 DEF Register, LimitsInvariant, VisitedFromStart
  <2>2. QED
    BY <2>1 DEF EveryApplicableRuns
<1>5. CASE Investigate
  <2>1. visited' = {target} /\ pc' = "schedule" /\ cursor'.indicator = target
    BY <1>5 DEF Investigate, NoCursor
  <2>2. QED
    BY <2>1 DEF EveryApplicableRuns, Scheduled
<1>6. CASE FollowPivot
  <2>1. /\ visited' = visited \cup {Pivot} /\ pc' = "schedule"
        /\ cursor'.indicator = Pivot /\ pc = "pivot"
        /\ registry' = registry
    BY <1>6 DEF FollowPivot, Considering
  <2>2. QED
    BY <1>1, <1>2, <2>1
       DEF EveryApplicableRuns, Scheduled, Registered, HasRun
<1>7. CASE EndSchedule
  <2>1. /\ pc = "schedule" /\ cursor.next > Len(registry)
        /\ UNCHANGED <<visited, registry, tasks>>
    BY <1>7 DEF EndSchedule
  <2>2. \A k \in DOMAIN registry : k < cursor.next
    BY <1>1, <2>1, LenProperties DEF TypeOK
  <2>3. ASSUME NEW i \in visited, NEW s \in Registered \cap Ready,
               i \in Supports[s], i = target \/ s \in OnPivots
        PROVE  HasRun(s, i)
    <3>1. CASE i # cursor.indicator
      BY <2>3, <3>1 DEF EveryApplicableRuns, Scheduled, HasRun
    <3>2. CASE i = cursor.indicator
      <4>1. PICK k \in DOMAIN registry : registry[k] = s
        BY DEF Registered
      <4>2. cursor.depth > 0 => s \in OnPivots
        BY <2>1, <2>3, <3>2 DEF PivotInvariant, CandidatesAreReported
      <4>3. Applies(s, cursor.indicator, cursor.depth)
        BY <2>3, <3>2, <4>2 DEF Applies
      <4>4. QED
        BY <2>1, <2>2, <3>2, <4>1, <4>3 DEF SpawnedSoFar
    <3>3. QED
      BY <3>1, <3>2
  <2>4. QED
    BY <1>1, <1>2, <2>1, <2>3 DEF EveryApplicableRuns, Registered, HasRun
<1>8. CASE SkipCollector \/ MarkUnavailable \/ Spawn
  <2>1. /\ NextCollector /\ pc = "schedule" /\ UNCHANGED <<visited, registry, pc>>
    BY <1>8 DEF SkipCollector, MarkUnavailable, Spawn, Scheduling
  <2>2. QED
    BY <1>1, <1>3, <2>1, CursorKept
<1>9. CASE \/ RefuseDuplicate \/ RefuseTarget
           \/ SkipPivot \/ DropPivot \/ RecordAnswer
           \/ Elapse \/ DrainPending \/ AllJoined \/ Report \/ DeadlinePasses
           \/ Over \/ UNCHANGED vars
           \/ \E t \in DOMAIN tasks : Join(t) \/ Task(t) \/ Reap(t)
  <2>1. /\ UNCHANGED <<visited, registry>>
        /\ pc = "schedule" => UNCHANGED <<pc, cursor>>
    BY <1>1, <1>9, TaskEffect DEF RefuseDuplicate, RefuseTarget,
       SkipPivot, DropPivot, RecordAnswer, Considering, Elapse,
       DrainPending, AllJoined, Report, DeadlinePasses, Over, vars,
       Join, CompleteOk, CompleteError, Crashed, Joinable
  <2>2. QED
    BY <1>3, <2>1
<1>10. QED
  BY <1>4, <1>5, <1>6, <1>7, <1>8, <1>9 DEF Next, Sequential

LEMMA InitSpawned == Init => SpawnedSoFar /\ EveryApplicableRuns
  BY DEF Init, SpawnedSoFar, EveryApplicableRuns

(* No enrichment is lost: every ready collector that applies to a followed *)
(* indicator has run on it, wherever the deadline falls.                   *)
THEOREM EveryApplicableSourceRuns == Spec => []EveryApplicableRuns
<1>1. RunInvariant /\ LimitsInvariant /\ (PivotInvariant /\ PivotsAreReported)
        /\ (SpawnedSoFar /\ EveryApplicableRuns) /\ [Next]_vars
        => (SpawnedSoFar /\ EveryApplicableRuns)'
  BY StepSpawnedSoFar, StepEveryApplicable
<1>2. QED
  BY <1>1, Invariance, LimitsInvariance, PivotInvariance, InitSpawned, PTL
     DEF Spec

-----------------------------------------------------------------------------
(* The deadline flag *)

CutOffStatus == <<"timed_out_investigation">>

(* The flag goes up when the deadline cuts runs off, and exactly those     *)
(* runs get the status that says so once the others are in.                *)
CutOffIsFlagged ==
  /\ pc \notin {"cancel", "report", "done"} => ~stats.deadline_exceeded
  /\ pc = "cancel" => stats.deadline_exceeded /\ pending # {}
  /\ pc \in {"report", "done"} /\ stats.deadline_exceeded =>
       \E t \in DOMAIN tasks : statuses[RunOf(t)] = CutOffStatus
  /\ pc = "cancel" \/ ~stats.deadline_exceeded =>
       \A r \in Runs : statuses[r] # CutOffStatus

DeadlineInvariant == UnjoinedArePending /\ CutOffIsFlagged

(* A step that cuts no run off. *)
CutsNothing ==
  \A r \in Runs :
    \/ statuses'[r] = statuses[r]
    \/ \E o \in Outcomes \ {"timed_out_investigation"} :
         statuses'[r] = Append(statuses[r], o)

LEMMA CutsNothingNew ==
  ASSUME TypeOK, CutsNothing, NEW r \in Runs, statuses[r] # CutOffStatus
  PROVE  statuses'[r] # CutOffStatus
<1>1. CASE statuses'[r] = statuses[r]
  BY <1>1
<1>2. ASSUME NEW o \in Outcomes \ {"timed_out_investigation"},
             statuses'[r] = Append(statuses[r], o)
      PROVE  statuses'[r] # CutOffStatus
  <2>1. statuses[r] \in Seq(Outcomes)
    BY DEF TypeOK
  <2>2. /\ Append(statuses[r], o)[Len(statuses[r]) + 1] = o
        /\ Len(Append(statuses[r], o)) = Len(statuses[r]) + 1
        /\ Len(statuses[r]) \in Nat
    BY <2>1, AppendProperties, LenProperties
  <2>3. Len(CutOffStatus) = 1 /\ CutOffStatus[1] = "timed_out_investigation"
    BY DEF CutOffStatus
  <2>4. QED
    BY <1>2, <2>2, <2>3
<1>3. QED
  BY <1>1, <1>2 DEF CutsNothing

LEMMA RecordCutsNothing ==
  ASSUME TypeOK, NEW r \in Runs, NEW o \in Outcomes \ {"timed_out_investigation"},
         statuses' = Record(r, o)
  PROVE  CutsNothing
<1>1. statuses'[r] = Append(statuses[r], o)
  BY DEF Record, TypeOK
<1>2. \A q \in Runs : q # r => statuses'[q] = statuses[q]
  BY RecordEffect
<1>3. QED
  BY <1>1, <1>2 DEF CutsNothing

LEMMA StepCutsNothing ==
  ASSUME RunInvariant, [Next]_vars, ~DrainPending
  PROVE  CutsNothing
<1>1. TypeOK /\ ControlOK
  BY DEF RunInvariant
<1>2. (Answers \cup {"unavailable", "unsupported", "failed",
                     "budget_exhausted", "timed_out_source"})
        \subseteq Outcomes \ {"timed_out_investigation"}
  BY DEF Answers, Outcomes
<1>3. CASE MarkUnavailable
  <2>1. <<Source, cursor.indicator>> \in Runs
    BY <1>1, <1>3, CursorType DEF MarkUnavailable
  <2>2. CASE statuses' = statuses
    BY <2>2 DEF CutsNothing
  <2>3. CASE statuses' = Record(<<Source, cursor.indicator>>, "unavailable")
    BY <1>1, <1>2, <2>1, <2>3, RecordCutsNothing
  <2>4. QED
    BY <1>3, <2>2, <2>3 DEF MarkUnavailable
<1>4. CASE RecordAnswer
  <2>1. /\ RunOf(current.task) \in Runs /\ current.outcome \in Answers
        /\ statuses' = Record(RunOf(current.task), current.outcome)
    BY <1>1, <1>4, InHand, TaskType DEF RecordAnswer
  <2>2. QED
    BY <1>1, <1>2, <2>1, RecordCutsNothing
<1>5. CASE Report
  BY <1>2, <1>5 DEF Report, CutsNothing
<1>6. ASSUME NEW t \in DOMAIN tasks, CompleteError(t) \/ Crashed(t)
      PROVE  CutsNothing
  <2>1. RunOf(t) \in Runs
    BY <1>1, TaskType
  <2>2. ErrorOutcome(tasks[t].result) \in Outcomes \ {"timed_out_investigation"}
    BY <1>2 DEF ErrorOutcome
  <2>3. \E o \in Outcomes \ {"timed_out_investigation"} :
          statuses' = Record(RunOf(t), o)
    BY <1>2, <1>6, <2>2 DEF CompleteError, Crashed
  <2>4. QED
    BY <1>1, <2>1, <2>3, RecordCutsNothing
<1>7. CASE \/ Register \/ RefuseDuplicate \/ Investigate \/ RefuseTarget
           \/ SkipCollector \/ Spawn \/ EndSchedule
           \/ SkipPivot \/ DropPivot \/ FollowPivot
           \/ Elapse \/ AllJoined \/ DeadlinePasses \/ Over \/ UNCHANGED vars
           \/ \E t \in DOMAIN tasks : CompleteOk(t) \/ Task(t) \/ Reap(t)
  <2>1. statuses' = statuses
    BY <1>1, <1>7, TaskEffect DEF Register, RefuseDuplicate, Investigate,
       RefuseTarget, SkipCollector, Spawn, EndSchedule, SkipPivot, DropPivot,
       FollowPivot, Elapse, AllJoined, DeadlinePasses, Over, vars, CompleteOk
  <2>2. QED
    BY <2>1 DEF CutsNothing
<1>8. QED
  BY <1>3, <1>4, <1>5, <1>6, <1>7 DEF Next, Sequential, Join

LEMMA StepCutOff ==
  ASSUME LedgerInvariant, DeadlineInvariant, [Next]_vars
  PROVE  CutOffIsFlagged'
<1>1. RunInvariant /\ TypeOK /\ ControlOK
  BY DEF LedgerInvariant, RunInvariant
<1>2. CASE Elapse
  <2>1. /\ pc = "join" /\ pc' = "cancel" /\ UNCHANGED <<statuses, pending>>
        /\ pending # {}
    BY <1>2 DEF Elapse, DeadlineInvariant, UnjoinedArePending
  <2>2. stats'.deadline_exceeded
    BY <1>1, <1>2 DEF Elapse, TypeOK
  <2>3. \A r \in Runs : statuses[r] # CutOffStatus
    BY <2>1 DEF DeadlineInvariant, CutOffIsFlagged
  <2>4. QED
    BY <2>1, <2>2, <2>3 DEF CutOffIsFlagged
<1>3. CASE DrainPending
  <2>1. /\ pc = "cancel" /\ pc' = "report" /\ UNCHANGED <<stats, tasks>>
        /\ stats.deadline_exceeded
        /\ pending # {} /\ pending \subseteq DOMAIN tasks
    BY <1>1, <1>3 DEF DrainPending, DeadlineInvariant, CutOffIsFlagged, TypeOK
  <2>2. PICK t \in DOMAIN tasks : t \in pending
    BY <2>1
  <2>3. RunOf(t) \in Runs /\ RunOf(t)' = RunOf(t)
    BY <1>1, <2>1, TaskType DEF RunOf
  <2>4. statuses'[RunOf(t)] = Append(statuses[RunOf(t)], "timed_out_investigation")
    BY <1>3, <2>2, <2>3 DEF DrainPending, CutOff
  <2>5. statuses[RunOf(t)] = <<>>
    <3>1. Len(statuses[RunOf(t)]) = 0
      BY <1>1, <2>2 DEF RunInvariant, OneStatusPerRun, Unsettled
    <3>2. statuses[RunOf(t)] \in Seq(Outcomes)
      BY <1>1, <2>3 DEF TypeOK
    <3>3. QED
      BY <3>1, <3>2, EmptySeq
  <2>6. Append(<<>>, "timed_out_investigation") = CutOffStatus
    BY DEF CutOffStatus
  <2>7. QED
    BY <2>1, <2>3, <2>4, <2>5, <2>6 DEF CutOffIsFlagged
<1>4. CASE Report
  <2>1. /\ pc = "report" /\ pc' = "done" /\ UNCHANGED tasks
    BY <1>4 DEF Report
  <2>2. stats'.deadline_exceeded = stats.deadline_exceeded
    BY <1>1, <1>4 DEF Report, FinalStats, TypeOK
  <2>3. \A t \in DOMAIN tasks : /\ RunOf(t) \in Runs
                                /\ RunOf(t)[1] \notin Unconsidered
                                /\ RunOf(t)' = RunOf(t)
    BY <1>1, <2>1, TaskType
       DEF RunInvariant, TasksAreJustified, Unconsidered, RunOf
  <2>4. \A t \in DOMAIN tasks : statuses'[RunOf(t)] = statuses[RunOf(t)]
    BY <1>4, <2>3 DEF Report
  <2>5. CASE stats.deadline_exceeded
    BY <2>1, <2>2, <2>3, <2>4, <2>5 DEF DeadlineInvariant, CutOffIsFlagged
  <2>6. CASE ~stats.deadline_exceeded
    <3>1. CutsNothing
      BY <1>1, <2>1, StepCutsNothing DEF DrainPending
    <3>2. \A r \in Runs : statuses'[r] # CutOffStatus
      BY <1>1, <2>6, <3>1, CutsNothingNew DEF DeadlineInvariant, CutOffIsFlagged
    <3>3. QED
      BY <2>1, <2>2, <2>6, <3>2 DEF CutOffIsFlagged
  <2>7. QED
    BY <2>5, <2>6
(* Before the end, the flag is down and no run is cut off. *)
<1>5. ASSUME pc \notin {"cancel", "report", "done"}, pc' \notin {"cancel", "done"},
             stats'.deadline_exceeded = stats.deadline_exceeded
      PROVE  CutOffIsFlagged'
  <2>1. CutsNothing
    BY <1>1, <1>5, StepCutsNothing DEF DrainPending
  <2>2. ~stats.deadline_exceeded
    BY <1>5 DEF DeadlineInvariant, CutOffIsFlagged
  <2>3. \A r \in Runs : statuses'[r] # CutOffStatus
    BY <1>1, <2>1, <2>2, CutsNothingNew DEF DeadlineInvariant, CutOffIsFlagged
  <2>4. QED
    BY <1>5, <2>2, <2>3 DEF CutOffIsFlagged
<1>6. ASSUME UNCHANGED <<pc, stats, pending, statuses>>, SameRuns
      PROVE  CutOffIsFlagged'
  <2>1. \A u \in DOMAIN tasks : RunOf(u)' = RunOf(u)
    BY <1>6 DEF SameRuns, RunOf
  <2>2. QED
    BY <1>6, <2>1 DEF SameRuns, DeadlineInvariant, CutOffIsFlagged
<1>7. CASE \/ RefuseDuplicate \/ Investigate \/ RefuseTarget \/ Register
           \/ SkipCollector \/ MarkUnavailable \/ Spawn \/ EndSchedule
           \/ SkipPivot \/ DropPivot \/ FollowPivot \/ RecordAnswer \/ AllJoined
           \/ \E t \in DOMAIN tasks : Join(t)
  <2>1. CASE UNCHANGED stats
    BY <1>5, <1>7, <2>1 DEF RefuseDuplicate, Investigate, RefuseTarget,
       Register, SkipCollector, MarkUnavailable, Spawn, EndSchedule,
       SkipPivot, DropPivot, FollowPivot, RecordAnswer, AllJoined, Considering,
       Scheduling, Join, CompleteOk, CompleteError, Crashed, Joinable
  <2>2. CASE Spawn \/ FollowPivot
    <3>1. stats'.deadline_exceeded = stats.deadline_exceeded
      BY <1>1, <2>2 DEF Spawn, FollowPivot, TypeOK
    <3>2. QED
      BY <1>5, <2>2, <3>1 DEF Spawn, FollowPivot, Considering, Scheduling
  <2>3. QED
    BY <1>7, <2>1, <2>2 DEF RefuseDuplicate, Investigate, RefuseTarget,
       Register, SkipCollector, MarkUnavailable, EndSchedule,
       SkipPivot, DropPivot, RecordAnswer, AllJoined,
       Join, CompleteOk, CompleteError, Crashed
<1>8. CASE DeadlinePasses \/ Over \/ UNCHANGED vars
  BY <1>6, <1>8 DEF DeadlinePasses, Over, vars, SameRuns
<1>9. CASE \E t \in DOMAIN tasks : Task(t) \/ Reap(t)
  BY <1>1, <1>6, <1>9, TaskEffect
<1>10. QED
  BY <1>2, <1>3, <1>4, <1>7, <1>8, <1>9 DEF Next, Sequential

LEMMA InitCutOff == Init => DeadlineInvariant
  BY DEF Init, DeadlineInvariant, UnjoinedArePending, Unjoined,
         CutOffIsFlagged, CutOffStatus

LEMMA FlagMatches == DeadlineInvariant /\ TypeOK => DeadlineVerdict
<1> SUFFICES ASSUME DeadlineInvariant, TypeOK, pc = "done"
             PROVE  stats.deadline_exceeded <=>
                      \E s \in Sources : Reported(s, "timed_out_investigation")
  BY DEF DeadlineVerdict
<1>1. CASE stats.deadline_exceeded
  <2>1. PICK t \in DOMAIN tasks : statuses[RunOf(t)] = CutOffStatus
    BY <1>1 DEF DeadlineInvariant, CutOffIsFlagged
  <2>2. tasks[t].source \in Sources /\ tasks[t].indicator \in Indicators
    BY TaskType DEF TaskRecord
  <2>3. QED
    BY <1>1, <2>1, <2>2 DEF Reported, RunOf, CutOffStatus
<1>2. CASE ~stats.deadline_exceeded
  BY <1>2 DEF DeadlineInvariant, CutOffIsFlagged, Reported, CutOffStatus, Runs
<1>3. QED
  BY <1>1, <1>2

(* deadline_exceeded is set exactly when some run was cut off, however the *)
(* deadline races with the last answers.                                   *)
THEOREM DeadlineFlagIsTrue == Spec => []DeadlineVerdict
<1>1. LedgerInvariant /\ DeadlineInvariant /\ [Next]_vars => DeadlineInvariant'
  BY StepPending, StepCutOff DEF DeadlineInvariant, LedgerInvariant
<1>2. TypeOK /\ DeadlineInvariant => DeadlineVerdict
  BY FlagMatches
<1>3. QED
  BY <1>1, <1>2, LedgerInvariance, TypeCorrect, InitCutOff, PTL DEF Spec

-----------------------------------------------------------------------------
(* Every registered source is accounted for *)

(* A source that is not ready has one status, on one indicator.            *)
OneUnavailable ==
  pc # "done" =>
    \A s \in considered \ Ready :
      \E i \in Indicators :
        /\ statuses[<<s, i>>] = <<"unavailable">>
        /\ \A j \in Indicators \ {i} : statuses[<<s, j>>] = <<>>

(* A ready source that was considered has run.                             *)
ConsideredRan ==
  \A s \in considered \cap Ready : \E t \in DOMAIN tasks : tasks[t].source = s

(* Statuses change for runs, for the source just found unavailable, and    *)
(* when the report is made.                                                *)
LEMMA StatusOnlyOfReady ==
  ASSUME RunInvariant, [Next]_vars, ~MarkUnavailable, ~Report
  PROVE  \A r \in Runs : r[1] \notin Ready => statuses'[r] = statuses[r]
<1>1. TypeOK /\ ControlOK
  BY DEF RunInvariant
<1>2. \A t \in DOMAIN tasks : RunOf(t) \in Runs /\ RunOf(t)[1] \in Ready
  BY <1>1, TaskType DEF RunInvariant, TasksAreJustified, RunOf
<1>3. ASSUME NEW t \in DOMAIN tasks, NEW o \in Outcomes,
             statuses' = Record(RunOf(t), o)
      PROVE  \A r \in Runs : r[1] \notin Ready => statuses'[r] = statuses[r]
  BY <1>1, <1>2, <1>3, RecordEffect
<1>4. CASE RecordAnswer
  <2>1. current.task \in DOMAIN tasks /\ current.outcome \in Outcomes
    BY <1>1, <1>4, InHand DEF RecordAnswer, Answers, Outcomes
  <2>2. QED
    BY <1>3, <1>4, <2>1 DEF RecordAnswer
<1>5. ASSUME NEW t \in DOMAIN tasks, CompleteError(t) \/ Crashed(t)
      PROVE  \A r \in Runs : r[1] \notin Ready => statuses'[r] = statuses[r]
  <2>1. ErrorOutcome(tasks[t].result) \in Outcomes /\ "failed" \in Outcomes
    BY DEF ErrorOutcome, Outcomes
  <2>2. QED
    BY <1>3, <1>5, <2>1 DEF CompleteError, Crashed
<1>6. CASE DrainPending
  <2>1. pending \subseteq DOMAIN tasks
    BY <1>1 DEF TypeOK
  <2>2. QED
    BY <1>2, <1>6, <2>1 DEF DrainPending, CutOff
<1>7. CASE \/ Register \/ RefuseDuplicate \/ Investigate \/ RefuseTarget
           \/ SkipCollector \/ Spawn \/ EndSchedule
           \/ SkipPivot \/ DropPivot \/ FollowPivot
           \/ Elapse \/ AllJoined \/ DeadlinePasses \/ Over \/ UNCHANGED vars
           \/ \E t \in DOMAIN tasks : CompleteOk(t) \/ Task(t) \/ Reap(t)
  <2>1. statuses' = statuses
    BY <1>1, <1>7, TaskEffect DEF Register, RefuseDuplicate, Investigate,
       RefuseTarget, SkipCollector, Spawn, EndSchedule, SkipPivot, DropPivot,
       FollowPivot, Elapse, AllJoined, DeadlinePasses, Over, vars, CompleteOk
  <2>2. QED
    BY <2>1
<1>8. QED
  BY <1>4, <1>5, <1>6, <1>7 DEF Next, Sequential, Join

(* Who is considered, and when: schedule alone adds to it. *)
LEMMA ConsideredSteps ==
  ASSUME RunInvariant, [Next]_vars, ~MarkUnavailable, ~Spawn
  PROVE  considered' = considered
<1>1. CASE \/ Register \/ RefuseDuplicate \/ Investigate \/ RefuseTarget
           \/ SkipCollector \/ EndSchedule
           \/ SkipPivot \/ DropPivot \/ FollowPivot \/ RecordAnswer
           \/ Elapse \/ DrainPending \/ AllJoined \/ Report
           \/ DeadlinePasses \/ Over \/ UNCHANGED vars
  BY <1>1 DEF Register, RefuseDuplicate, Investigate, RefuseTarget,
     SkipCollector, EndSchedule, SkipPivot, DropPivot, FollowPivot,
     RecordAnswer, Elapse, DrainPending, AllJoined, Report, DeadlinePasses,
     Over, vars
<1>2. CASE \E t \in DOMAIN tasks : Join(t) \/ Task(t) \/ Reap(t)
  BY <1>2, TaskEffect DEF RunInvariant, Join, CompleteOk, CompleteError, Crashed
<1>3. QED
  BY <1>1, <1>2 DEF Next, Sequential

LEMMA StepRan ==
  ASSUME RunInvariant, ConsideredRan, [Next]_vars
  PROVE  ConsideredRan'
<1>1. CASE Spawn
  <2>1. PICK n \in Nat \ {0} :
          /\ DOMAIN tasks' = DOMAIN tasks \cup {n}
          /\ \A u \in DOMAIN tasks : tasks'[u] = tasks[u]
          /\ tasks'[n].source = Source
    BY <1>1, SpawnEffect
  <2>2. considered' = considered \cup {Source}
    BY <1>1 DEF Spawn, Consider
  <2>3. QED
    BY <2>1, <2>2 DEF ConsideredRan
<1>2. CASE MarkUnavailable
  <2>1. /\ considered' = considered \cup {Source} /\ Source \notin Ready
        /\ tasks' = tasks
    BY <1>2 DEF MarkUnavailable, Consider
  <2>2. QED
    BY <2>1 DEF ConsideredRan
<1>3. CASE considered' = considered
  BY <1>3, TableStep DEF ConsideredRan, Kept
<1>4. QED
  BY <1>1, <1>2, <1>3, ConsideredSteps

LEMMA StepUnavailable ==
  ASSUME LedgerInvariant, OneUnavailable, [Next]_vars
  PROVE  OneUnavailable'
<1>1. RunInvariant /\ TypeOK
  BY DEF LedgerInvariant, RunInvariant
<1>2. considered \subseteq Sources
  BY <1>1 DEF TypeOK
<1>3. CASE Report
  BY <1>3 DEF Report, OneUnavailable
<1>4. CASE MarkUnavailable
  <2> DEFINE run == <<Source, cursor.indicator>>
  <2>1. /\ pc # "done" /\ pc' = pc /\ considered' = considered \cup {Source}
        /\ Source \notin Ready /\ Source \in Sources
        /\ cursor.indicator \in Indicators
        /\ run \in Runs
    BY <1>1, <1>4, CursorType DEF MarkUnavailable, Consider, Scheduling
  <2>2. CASE Source \in considered
    <3>1. statuses' = statuses
      BY <1>4, <2>2 DEF MarkUnavailable
    <3>2. considered' = considered
      BY <2>1, <2>2
    <3>3. QED
      BY <2>1, <3>1, <3>2 DEF OneUnavailable
  <2>3. CASE Source \notin considered
    <3>1. statuses' = Record(run, "unavailable")
      BY <1>4, <2>3 DEF MarkUnavailable
    <3>2. \A j \in Indicators : statuses[<<Source, j>>] = <<>>
      BY <2>1, <2>3 DEF LedgerInvariant, StatusesAreConsidered, Runs
    <3>3. /\ statuses'[run] = Append(statuses[run], "unavailable")
          /\ \A q \in Runs : q # run => statuses'[q] = statuses[q]
      <4>1. "unavailable" \in Outcomes
        BY DEF Outcomes
      <4>2. QED
        BY <1>1, <2>1, <3>1, <4>1, RecordEffect DEF Record, TypeOK
    <3>4. statuses'[run] = <<"unavailable">>
      <4>1. statuses[run] = <<>>
        BY <2>1, <3>2
      <4>2. Append(<<>>, "unavailable") = <<"unavailable">>
        OBVIOUS
      <4>3. QED
        BY <3>3, <4>1, <4>2
    <3>5. \A j \in Indicators \ {cursor.indicator} :
            statuses'[<<Source, j>>] = <<>>
      BY <2>1, <3>2, <3>3 DEF Runs
    <3>6. \A s \in considered \ Ready, j \in Indicators :
            statuses'[<<s, j>>] = statuses[<<s, j>>]
      BY <1>2, <2>3, <3>3 DEF Runs
    <3>7. \A s \in considered \ Ready :
            \E i \in Indicators :
              /\ statuses'[<<s, i>>] = <<"unavailable">>
              /\ \A j \in Indicators \ {i} : statuses'[<<s, j>>] = <<>>
      BY <2>1, <3>6 DEF OneUnavailable
    <3>8. QED
      BY <2>1, <3>4, <3>5, <3>7 DEF OneUnavailable
  <2>4. QED
    BY <2>2, <2>3
<1>5. CASE ~Report /\ ~MarkUnavailable
  <2>1. considered' \ Ready = considered \ Ready
    BY <1>1, <1>5, ConsideredSteps DEF Spawn, Consider
  <2>2. \A s \in considered \ Ready, j \in Indicators :
          statuses'[<<s, j>>] = statuses[<<s, j>>]
    <3>1. \A s \in considered \ Ready, j \in Indicators :
            <<s, j>> \in Runs /\ <<s, j>>[1] = s
      BY <1>2 DEF Runs
    <3>2. QED
      BY <1>1, <1>5, <3>1, StatusOnlyOfReady
  <2>3. pc' # "done" => pc # "done"
    <3>1. CASE pc = "done"
      <4>1. UNCHANGED pc
        BY <1>1, <3>1, TaskEffect DEF Next, Sequential, Register,
           RefuseDuplicate, Investigate, RefuseTarget, SkipCollector,
           MarkUnavailable, Spawn, Scheduling, EndSchedule, SkipPivot,
           DropPivot, FollowPivot, Considering, RecordAnswer, Elapse,
           DrainPending, AllJoined, Report, DeadlinePasses, Over, vars,
           Join, CompleteOk, CompleteError, Crashed, Joinable
      <4>2. QED
        BY <3>1, <4>1
    <3>2. QED
      BY <3>1
  <2>4. QED
    BY <2>1, <2>2, <2>3 DEF OneUnavailable
<1>6. QED
  BY <1>3, <1>4, <1>5

(* The report is made: each of the three kinds of source gets its entry.   *)
LEMMA ReportAccounts ==
  ASSUME LedgerInvariant, OneUnavailable, ConsideredRan, Report
  PROVE  EverySourceAccounted'
<1>1. /\ RunInvariant /\ TypeOK /\ ControlOK /\ pc = "report" /\ pc' = "done"
      /\ UNCHANGED <<registry, considered, tasks, target>>
      /\ pending = {} /\ current = Idle
  BY DEF LedgerInvariant, RunInvariant, ControlOK, NothingOpenAtReport, Report
<1>2. /\ target \in Indicators
      /\ Registered' = Registered
      /\ \A t \in DOMAIN tasks : RunOf(t)' = RunOf(t)
  BY <1>1 DEF TypeOK, Registered, RunOf
<1>3. \A r \in Runs :
        statuses'[r] = IF r[1] \in Unconsidered /\ r[2] = target
                       THEN Append(statuses[r], "unsupported")
                       ELSE statuses[r]
  BY DEF Report
<1>4. Registered \subseteq Sources
  BY <1>1, ElementOfSeq, LenProperties DEF TypeOK, Registered
<1>5. SUFFICES
        ASSUME NEW s \in Registered,
               NEW S, S = {i \in Indicators : statuses'[<<s, i>>] # <<>>}
        PROVE  \/ /\ S # {}
                  /\ \A i \in S : \E t \in DOMAIN tasks : RunOf(t) = <<s, i>>
               \/ /\ Cardinality(S) = 1
                  /\ \E o \in {"unavailable", "unsupported"} :
                       \E i \in Indicators : statuses'[<<s, i>>] = <<o>>
                  /\ \A t \in DOMAIN tasks : tasks[t].source # s
  <2> SUFFICES ASSUME NEW s \in Registered
               PROVE  \/ /\ StatusesOf(s)' # {}
                         /\ \A i \in StatusesOf(s)' :
                              \E t \in DOMAIN tasks : RunOf(t) = <<s, i>>
                      \/ /\ Cardinality(StatusesOf(s)') = 1
                         /\ \E o \in {"unavailable", "unsupported"} :
                              Reported(s, o)'
                         /\ \A t \in DOMAIN tasks : tasks[t].source # s
    BY <1>1, <1>2 DEF EverySourceAccounted
  <2>1. StatusesOf(s)' = {i \in Indicators : statuses'[<<s, i>>] # <<>>}
    BY DEF StatusesOf
  <2>2. \A o : Reported(s, o)' <=> \E i \in Indicators : statuses'[<<s, i>>] = <<o>>
    BY DEF Reported
  <2>3. QED
    BY <1>5, <2>1, <2>2
<1>6. \A i \in Indicators : <<s, i>> \in Runs /\ <<s, i>>[1] = s /\ <<s, i>>[2] = i
  BY <1>4 DEF Runs
<1>7. \A t \in DOMAIN tasks : tasks[t].source \in Ready \cap considered
  BY <1>1 DEF RunInvariant, TasksAreJustified
<1>8. CASE s \notin considered
  <2>1. \A i \in Indicators : statuses[<<s, i>>] = <<>>
    BY <1>1, <1>6, <1>8 DEF LedgerInvariant, StatusesAreConsidered
  <2>2. s \in Unconsidered
    BY <1>8 DEF Unconsidered
  <2>3. Append(<<>>, "unsupported") = <<"unsupported">>
    OBVIOUS
  <2>4. statuses'[<<s, target>>] = <<"unsupported">>
    BY <1>2, <1>3, <1>6, <2>1, <2>2, <2>3
  <2>5. \A i \in Indicators \ {target} : statuses'[<<s, i>>] = <<>>
    BY <1>3, <1>6, <2>1
  <2>6. S = {target}
    BY <1>2, <1>5, <2>4, <2>5
  <2>7. Cardinality(S) = 1
    BY <2>6, FS_Singleton
  <2>8. QED
    BY <1>2, <1>7, <1>8, <2>4, <2>7
<1>9. CASE s \in considered \ Ready
  <2>1. PICK i \in Indicators :
          /\ statuses[<<s, i>>] = <<"unavailable">>
          /\ \A j \in Indicators \ {i} : statuses[<<s, j>>] = <<>>
    BY <1>1, <1>9 DEF OneUnavailable
  <2>2. \A j \in Indicators : statuses'[<<s, j>>] = statuses[<<s, j>>]
    BY <1>3, <1>6, <1>9 DEF Unconsidered
  <2>3. S = {i}
    BY <1>5, <2>1, <2>2
  <2>4. Cardinality(S) = 1
    BY <2>3, FS_Singleton
  <2>5. QED
    BY <1>7, <1>9, <2>1, <2>2, <2>4
<1>10. CASE s \in considered \cap Ready
  <2>1. PICK t \in DOMAIN tasks : tasks[t].source = s
    BY <1>10 DEF ConsideredRan
  <2>2. \A j \in Indicators : statuses'[<<s, j>>] = statuses[<<s, j>>]
    BY <1>3, <1>6, <1>10 DEF Unconsidered
  <2>3. Len(statuses[RunOf(t)]) = 1
    BY <1>1, TaskType, IdleTask DEF RunInvariant, OneStatusPerRun, Unsettled
  <2>4. RunOf(t) = <<s, tasks[t].indicator>> /\ tasks[t].indicator \in Indicators
    BY <1>1, <2>1, TaskType DEF RunOf, TaskRecord
  <2>5. statuses[<<s, tasks[t].indicator>>] # <<>>
    BY <2>3, <2>4
  <2>6. S # {}
    BY <1>5, <2>2, <2>4, <2>5
  <2>7. \A i \in S : \E u \in DOMAIN tasks : RunOf(u) = <<s, i>>
    BY <1>1, <1>5, <1>6, <1>10, <2>2 DEF RunInvariant, StatusesAreJustified
  <2>8. QED
    BY <2>6, <2>7
<1>11. QED
  BY <1>8, <1>9, <1>10

LEMMA StepAccounted ==
  ASSUME LedgerInvariant, OneUnavailable, ConsideredRan,
         EverySourceAccounted, [Next]_vars
  PROVE  EverySourceAccounted'
<1>1. RunInvariant /\ TypeOK
  BY DEF LedgerInvariant, RunInvariant
<1>2. CASE Report
  BY <1>2, ReportAccounts
<1>3. ASSUME UNCHANGED <<pc, registry, statuses>>, SameRuns
      PROVE  EverySourceAccounted'
  <2>1. \A u \in DOMAIN tasks : RunOf(u)' = RunOf(u)
    BY <1>3 DEF SameRuns, RunOf
  <2>2. /\ Registered' = Registered /\ DOMAIN tasks' = DOMAIN tasks
        /\ \A s : StatusesOf(s)' = StatusesOf(s)
        /\ \A s, o : Reported(s, o)' <=> Reported(s, o)
    BY <1>3 DEF Registered, SameRuns, StatusesOf, Reported
  <2>3. QED
    BY <1>3, <2>1, <2>2 DEF EverySourceAccounted, SameRuns
<1>4. CASE Over \/ UNCHANGED vars
  BY <1>3, <1>4 DEF Over, vars, SameRuns
<1>5. CASE \E t \in DOMAIN tasks : Task(t) \/ Reap(t)
  BY <1>1, <1>3, <1>5, TaskEffect
<1>6. CASE \/ Register \/ RefuseDuplicate \/ Investigate \/ RefuseTarget
           \/ SkipCollector \/ MarkUnavailable \/ Spawn \/ EndSchedule
           \/ SkipPivot \/ DropPivot \/ FollowPivot \/ RecordAnswer
           \/ Elapse \/ DrainPending \/ AllJoined \/ DeadlinePasses
           \/ \E t \in DOMAIN tasks : Join(t)
  <2>1. pc' # "done"
    BY <1>6 DEF Register, RefuseDuplicate, Investigate, RefuseTarget,
       SkipCollector, MarkUnavailable, Spawn, Scheduling, EndSchedule,
       SkipPivot, DropPivot, FollowPivot, Considering, RecordAnswer, Elapse,
       DrainPending, AllJoined, DeadlinePasses, Join, CompleteOk,
       CompleteError, Crashed, Joinable
  <2>2. QED
    BY <2>1 DEF EverySourceAccounted
<1>7. QED
  BY <1>2, <1>4, <1>5, <1>6 DEF Next, Sequential

LEMMA InitAccounted ==
  Init => OneUnavailable /\ ConsideredRan /\ EverySourceAccounted
  BY DEF Init, OneUnavailable, ConsideredRan, EverySourceAccounted

(* "Every registered source is accounted for": with the statuses of its    *)
(* runs, or one "unavailable", or one "unsupported", and never a mixture.  *)
THEOREM SourcesAreAccounted == Spec => []EverySourceAccounted
<1>1. LedgerInvariant /\ (OneUnavailable /\ ConsideredRan /\ EverySourceAccounted)
        /\ [Next]_vars
        => (OneUnavailable /\ ConsideredRan /\ EverySourceAccounted)'
  BY StepUnavailable, StepRan, StepAccounted DEF LedgerInvariant
<1>2. QED
  BY <1>1, LedgerInvariance, InitAccounted, PTL DEF Spec
=============================================================================
