--------------------------- MODULE DistributedQuery ---------------------------
(***************************************************************************)
(* Distributed execution of query jobs.  Each job is one call of           *)
(* `Scheduler::execute` on a thread of its own: it plans stages, sends the *)
(* tasks of an intermediate stage one after the other to the executors'    *)
(* Flight servers (`do_action`), which hash-partition the stage's rows     *)
(* into local shuffle files, and then sends the final task (`do_get`) to   *)
(* the first executor, which reads the shuffle files back.  Jobs share the *)
(* executors and their shuffle directories; executors crash and restart.   *)
(*                                                                         *)
(* Rows are abstracted to the group they belong to: a partial aggregate    *)
(* emits one row per group, and what the final aggregate computes depends  *)
(* on how often each of those rows is merged.  All executors see the same  *)
(* table files.  Job uuids (v4) do not collide.  The aggregates are aligned *)
(* in the sense of ParallelAggregate, so their expressions keep their       *)
(* meaning on the partial rows.  A plan without a root aggregate sends its  *)
(* result batch after batch; there the groups stand for its batches.        *)
(***************************************************************************)
EXTENDS Integers, Sequences

CONSTANTS Jobs,
          Groups,            \* group keys
          JobGroups,         \* job -> the groups its input holds
          Aggregates,        \* the jobs whose physical plan is rooted in a HashAggregateExec
          Hash,              \* group -> DefaultHasher of its key columns
          NumExecutors,      \* executors in the DistributedConfig, numbered from 0
          DefaultPartitions, \* DistributedConfig::default_partitions
          ServerId,          \* executor -> ctx.executor_id of its server
          ShuffleDir,        \* executor -> the shuffle directory of its server
          MaxCrashes         \* bound on executor crashes

Executors == 0..(NumExecutors - 1)

ASSUME ClusterAssumption ==
    /\ NumExecutors \in Nat \ {0}
    /\ DefaultPartitions \in Int
    /\ MaxCrashes \in Nat
    /\ Aggregates \subseteq Jobs
    /\ JobGroups \in [Jobs -> SUBSET Groups]
    /\ Hash \in [Groups -> Nat]
    /\ DOMAIN ServerId = Executors
    /\ DOMAIN ShuffleDir = Executors

\* DistributedConfig::partition_count
PartitionCount == IF DefaultPartitions > 0 THEN DefaultPartitions ELSE NumExecutors
Partitions == 0..(PartitionCount - 1)

StageIds == {0, 1}
Ids == {ServerId[e] : e \in Executors}
Dirs == {ShuffleDir[e] : e \in Executors}
Location == [job : Jobs, stage : StageIds, part : Partitions, executor : Ids]

\* Mutants: the partition, or the job, is missing from the file name.
partition_file_NoPart(e, job, stage, part) == <<ShuffleDir[e], job, stage, 0>>
partition_file_NoJob(e, job, stage, part) ==
    <<ShuffleDir[e], CHOOSE j \in Jobs : TRUE, stage, part>>

\* ShuffleManager::partition_file: {base_dir}/{job}/{stage}/partition_{p}.arrow
partition_file(e, job, stage, part) == <<ShuffleDir[e], job, stage, part>>
FileNames == Dirs \X Jobs \X StageIds \X Partitions

\* A file is absent, truncated and not yet finalised, or complete.
Absent == [state |-> "absent", rows |-> {}]
Truncated == [state |-> "partial", rows |-> {}]
Complete(rows) == [state |-> "complete", rows |-> rows]

-------------------------------------------------------------------------------
(* DistributedPlanner *)

QueryStage(id, deps, parts, final) ==
    [id |-> id, dependencies |-> deps, partition_count |-> parts, is_final_stage |-> final]

\* plan: a root aggregate becomes two stages, every other plan a final stage.
Stages(j) ==
    IF j \in Aggregates
    THEN << QueryStage(0, {}, PartitionCount, FALSE), QueryStage(1, {0}, 1, TRUE) >>
    ELSE << QueryStage(0, {}, 1, TRUE) >>

\* Mutant: the hash is not reduced to the number of partitions.
Bucket_NoModulo(j, p) == {g \in JobGroups[j] : Hash[g] = p}

\* compute_targets: the groups of job j that hash to partition p.
Bucket(j, p) == {g \in JobGroups[j] : Hash[g] % PartitionCount = p}

-------------------------------------------------------------------------------
VARIABLES phase,       \* job -> idle, dispatch, waiting (for an RPC), ok, failed
          stage,       \* job -> index of the stage being executed
          task,        \* job -> next partition_id of that stage
          locations,   \* job -> all_locations of that stage so far
          locationsByStage, \* job -> stage id -> [done, locs]
          handler,     \* job -> the server-side handling of its RPC
          answer,      \* job -> group -> how often its row was merged into the result
          swallowed,   \* job -> a panic ended its result stream early
          files,       \* shuffle directories of all executors
          up,          \* executor -> its server runs
          crashes

schedulerVars == <<phase, stage, task, locations, locationsByStage>>
resultVars == <<answer, swallowed>>
clusterVars == <<up, crashes>>
vars == <<phase, stage, task, locations, locationsByStage, handler, answer,
          swallowed, files, up, crashes>>

NoHandler == [pc |-> "none", exec |-> 0, part |-> 0, locs |-> <<>>]
Nothing == [g \in Groups |-> 0]

Init ==
    /\ phase = [j \in Jobs |-> "idle"]
    /\ stage = [j \in Jobs |-> 1]
    /\ task = [j \in Jobs |-> 0]
    /\ locations = [j \in Jobs |-> <<>>]
    /\ locationsByStage = [j \in Jobs |-> [s \in StageIds |-> [done |-> FALSE, locs |-> <<>>]]]
    /\ handler = [j \in Jobs |-> NoHandler]
    /\ answer = [j \in Jobs |-> Nothing]
    /\ swallowed = [j \in Jobs |-> FALSE]
    /\ files = [f \in FileNames |-> Absent]
    /\ up = [e \in Executors |-> TRUE]
    /\ crashes = 0

-------------------------------------------------------------------------------
(* Scheduler::execute, one stage after the other *)

Current(j) == Stages(j)[stage[j]]

\* The check before each stage; the scheduler panics when it fails.
DependenciesDone(j) == \A d \in Current(j).dependencies : locationsByStage[j][d].done

\* Dependency locations, substituted into every ShuffleReaderExec of the plan.
InputLocations(j) == IF 0 \in Current(j).dependencies THEN locationsByStage[j][0].locs ELSE <<>>

\* Round robin for the tasks of a stage, the first executor for the final one.
Target(j) == IF Current(j).is_final_stage THEN 0 ELSE task[j] % NumExecutors

Submit(j) ==
    /\ phase[j] = "idle"
    /\ phase' = [phase EXCEPT ![j] = "dispatch"]
    /\ UNCHANGED <<stage, task, locations, locationsByStage, handler, resultVars, files, clusterVars>>

\* FlightExecutorClient::execute_task / execute_final_task reach the server.
Dispatch(j) ==
    /\ phase[j] = "dispatch"
    /\ DependenciesDone(j)
    /\ task[j] < Current(j).partition_count
    /\ up[Target(j)]
    /\ handler' = [handler EXCEPT ![j] =
         [pc |-> IF Current(j).is_final_stage THEN "check" ELSE "write",
          exec |-> Target(j), part |-> 0, locs |-> InputLocations(j)]]
    /\ phase' = [phase EXCEPT ![j] = "waiting"]
    /\ UNCHANGED <<stage, task, locations, locationsByStage, resultVars, files, clusterVars>>

\* Mutant: a scheduler that waits for an executor to come back.
DispatchFails_Waits(j) ==
    /\ phase[j] = "dispatch"
    /\ task[j] < Current(j).partition_count
    /\ ~DependenciesDone(j)
    /\ phase' = [phase EXCEPT ![j] = "failed"]
    /\ UNCHANGED <<stage, task, locations, locationsByStage, handler, resultVars, files, clusterVars>>

\* Mutant: the locations of a finished stage are not recorded.
FinishStage_Forgets(j) ==
    /\ phase[j] = "dispatch"
    /\ ~Current(j).is_final_stage
    /\ task[j] = Current(j).partition_count
    /\ stage' = [stage EXCEPT ![j] = @ + 1]
    /\ task' = [task EXCEPT ![j] = 0]
    /\ locations' = [locations EXCEPT ![j] = <<>>]
    /\ UNCHANGED <<phase, locationsByStage, handler, resultVars, files, clusterVars>>

\* A dependency is missing, or the RPC cannot be made: a panic ends the job.
DispatchFails(j) ==
    /\ phase[j] = "dispatch"
    /\ task[j] < Current(j).partition_count
    /\ ~(DependenciesDone(j) /\ up[Target(j)])
    /\ phase' = [phase EXCEPT ![j] = "failed"]
    /\ UNCHANGED <<stage, task, locations, locationsByStage, handler, resultVars, files, clusterVars>>

FinishStage(j) ==
    /\ phase[j] = "dispatch"
    /\ ~Current(j).is_final_stage
    /\ task[j] = Current(j).partition_count
    /\ locationsByStage' = [locationsByStage EXCEPT ![j][Current(j).id] =
                              [done |-> TRUE, locs |-> locations[j]]]
    /\ stage' = [stage EXCEPT ![j] = @ + 1]
    /\ task' = [task EXCEPT ![j] = 0]
    /\ locations' = [locations EXCEPT ![j] = <<>>]
    /\ UNCHANGED <<phase, handler, resultVars, files, clusterVars>>

-------------------------------------------------------------------------------
(* do_action("execute_task"): ShuffleWriterExec::write_shuffle on a server.   *)
(* The task's partition_id is not used: every task runs the whole input and   *)
(* writes every non-empty partition.                                          *)

NextFile(j) ==
    partition_file(handler[j].exec, j, Current(j).id, handler[j].part)

\* Mutant: the loop over the partitions misses its end.
SkipEmptyPartition_PastEnd(j) ==
    /\ handler[j].pc = "write"
    /\ Bucket(j, handler[j].part) = {}
    /\ handler' = [handler EXCEPT ![j].part = @ + 1]
    /\ UNCHANGED <<schedulerVars, resultVars, files, clusterVars>>

SkipEmptyPartition(j) ==
    /\ handler[j].pc = "write"
    /\ handler[j].part < PartitionCount
    /\ Bucket(j, handler[j].part) = {}
    /\ handler' = [handler EXCEPT ![j].part = @ + 1]
    /\ UNCHANGED <<schedulerVars, resultVars, files, clusterVars>>

\* write_partition, File::create: an existing file is truncated.
CreateFile(j) ==
    /\ handler[j].pc = "write"
    /\ handler[j].part < PartitionCount
    /\ Bucket(j, handler[j].part) # {}
    /\ files' = [files EXCEPT ![NextFile(j)] = Truncated]
    /\ handler' = [handler EXCEPT ![j].pc = "open"]
    /\ UNCHANGED <<schedulerVars, resultVars, clusterVars>>

\* Mutant: the writer is dropped without finish().
FinishFile_Unfinished(j) ==
    /\ handler[j].pc = "open"
    /\ handler' = [handler EXCEPT
         ![j].pc = "write",
         ![j].part = @ + 1,
         ![j].locs = Append(@, [job |-> j, stage |-> Current(j).id, part |-> handler[j].part,
                                executor |-> ServerId[handler[j].exec]])]
    /\ UNCHANGED <<schedulerVars, resultVars, files, clusterVars>>

\* write_partition, FileWriter::finish; then the location is recorded.
FinishFile(j) ==
    /\ handler[j].pc = "open"
    /\ files' = [files EXCEPT ![NextFile(j)] = Complete(Bucket(j, handler[j].part))]
    /\ handler' = [handler EXCEPT
         ![j].pc = "write",
         ![j].part = @ + 1,
         ![j].locs = Append(@, [job |-> j, stage |-> Current(j).id, part |-> handler[j].part,
                                executor |-> ServerId[handler[j].exec]])]
    /\ UNCHANGED <<schedulerVars, resultVars, clusterVars>>

\* The TaskResult reaches the scheduler, which extends all_locations.
TaskReply(j) ==
    /\ handler[j].pc = "write"
    /\ handler[j].part = PartitionCount
    /\ locations' = [locations EXCEPT ![j] = @ \o handler[j].locs]
    /\ task' = [task EXCEPT ![j] = @ + 1]
    /\ phase' = [phase EXCEPT ![j] = "dispatch"]
    /\ handler' = [handler EXCEPT ![j] = NoHandler]
    /\ UNCHANGED <<stage, locationsByStage, resultVars, files, clusterVars>>

\* The input plan or the file I/O panics in the handler: the RPC fails.
HandlerPanics(j) ==
    /\ handler[j].pc \in {"write", "open"}
    /\ phase' = [phase EXCEPT ![j] = "failed"]
    /\ handler' = [handler EXCEPT ![j] = NoHandler]
    /\ UNCHANGED <<stage, task, locations, locationsByStage, resultVars, files, clusterVars>>

-------------------------------------------------------------------------------
(* do_get with a final task.  A panic in the blocking thread ends the stream   *)
(* like a normal end (module FlightStream), so the client gets an Ok with the  *)
(* batches sent so far.  An aggregate sends its only batch at the very end:    *)
(* what it has merged goes down with the thread.                               *)

Swallow(j) ==
    /\ swallowed' = [swallowed EXCEPT ![j] = TRUE]
    /\ answer' = IF j \in Aggregates THEN [answer EXCEPT ![j] = Nothing] ELSE answer
    /\ handler' = [handler EXCEPT ![j] = [NoHandler EXCEPT !.pc = "end"]]

\* Mutant: locations are opened as if they were all local.
CheckLocations_Trusts(j) ==
    /\ handler[j].pc = "check"
    /\ handler' = [handler EXCEPT ![j].pc = "read"]
    /\ UNCHANGED <<schedulerVars, resultVars, files, clusterVars>>

\* ShuffleReaderExec::execute refuses remote locations before it reads any.
CheckLocations(j) ==
    /\ handler[j].pc = "check"
    /\ IF \E i \in DOMAIN handler[j].locs :
             handler[j].locs[i].executor # ServerId[handler[j].exec]
       THEN Swallow(j)
       ELSE /\ handler' = [handler EXCEPT ![j].pc = "read"]
            /\ UNCHANGED <<answer, swallowed>>
    /\ UNCHANGED <<schedulerVars, files, clusterVars>>

\* read_partition of the next location, which must name a finalised file.
ReadPartition(j) ==
    /\ handler[j].pc = "read"
    /\ handler[j].locs # <<>>
    /\ LET loc == Head(handler[j].locs)
           file == files[partition_file(handler[j].exec, loc.job, loc.stage, loc.part)]
       IN  IF file.state # "complete"
           THEN Swallow(j)
           ELSE /\ answer' = [answer EXCEPT ![j] =
                      [g \in Groups |-> IF g \in file.rows THEN @[g] + 1 ELSE @[g]]]
                /\ handler' = [handler EXCEPT ![j].locs = Tail(@)]
                /\ UNCHANGED swallowed
    /\ UNCHANGED <<schedulerVars, files, clusterVars>>

\* A plan over data sources sends its next batch to the client.
SendBatch(j) ==
    /\ handler[j].pc = "read"
    /\ j \notin Aggregates
    /\ \E g \in JobGroups[j] :
         /\ answer[j][g] = 0
         /\ answer' = [answer EXCEPT ![j][g] = 1]
    /\ UNCHANGED <<schedulerVars, handler, swallowed, files, clusterVars>>

\* All input read: an aggregate sends its batch, other plans have sent theirs.
ProduceResult(j) ==
    /\ handler[j].pc = "read"
    /\ IF j \in Aggregates THEN handler[j].locs = <<>>
       ELSE \A g \in JobGroups[j] : answer[j][g] = 1
    /\ handler' = [handler EXCEPT ![j].pc = "end"]
    /\ UNCHANGED <<schedulerVars, resultVars, files, clusterVars>>

\* A plan over data sources panics (missing file, unsupported expression, ...),
\* before its first batch or after any other.
SourcePanics(j) ==
    /\ handler[j].pc = "read"
    /\ j \notin Aggregates
    /\ Swallow(j)
    /\ UNCHANGED <<schedulerVars, files, clusterVars>>

\* The stream ends with status ok and the job returns what it collected.
FinalReply(j) ==
    /\ handler[j].pc = "end"
    /\ phase' = [phase EXCEPT ![j] = "ok"]
    /\ handler' = [handler EXCEPT ![j] = NoHandler]
    /\ UNCHANGED <<stage, task, locations, locationsByStage, resultVars, files, clusterVars>>

-------------------------------------------------------------------------------
\* A server process dies: its RPCs fail, its files stay as they are.
Crash(e) ==
    /\ up[e]
    /\ crashes < MaxCrashes
    /\ crashes' = crashes + 1
    /\ up' = [up EXCEPT ![e] = FALSE]
    /\ phase' = [j \in Jobs |->
         IF handler[j].pc # "none" /\ handler[j].exec = e THEN "failed" ELSE phase[j]]
    /\ handler' = [j \in Jobs |-> IF handler[j].exec = e THEN NoHandler ELSE handler[j]]
    /\ UNCHANGED <<stage, task, locations, locationsByStage, resultVars, files>>

Restart(e) ==
    /\ ~up[e]
    /\ up' = [up EXCEPT ![e] = TRUE]
    /\ UNCHANGED <<schedulerVars, handler, resultVars, files, crashes>>

Scheduling(j) == Dispatch(j) \/ DispatchFails(j) \/ FinishStage(j)
Writing(j) == SkipEmptyPartition(j) \/ CreateFile(j) \/ FinishFile(j) \/ TaskReply(j)
Reading(j) ==
    CheckLocations(j) \/ ReadPartition(j) \/ SendBatch(j) \/ ProduceResult(j) \/ FinalReply(j)

Next ==
    \/ \E j \in Jobs : Submit(j) \/ Scheduling(j) \/ Writing(j) \/ Reading(j)
                       \/ HandlerPanics(j) \/ SourcePanics(j)
    \/ \E e \in Executors : Crash(e) \/ Restart(e)

\* Scheduler threads and servers that are up keep working.
Fairness == \A j \in Jobs : WF_vars(Scheduling(j) \/ Writing(j) \/ Reading(j))

Spec == Init /\ [][Next]_vars
FairSpec == Spec /\ Fairness

-------------------------------------------------------------------------------
(* Properties. *)

HandlerState == [pc : {"none", "write", "open", "check", "read", "end"},
                 exec : Executors, part : 0..PartitionCount, locs : Seq(Location)]

FileState == {Absent, Truncated} \cup {Complete(rows) : rows \in SUBSET Groups}

TypeOK ==
    /\ phase \in [Jobs -> {"idle", "dispatch", "waiting", "ok", "failed"}]
    /\ stage \in [Jobs -> {1, 2}]
    /\ task \in [Jobs -> 0..PartitionCount]
    /\ locations \in [Jobs -> Seq(Location)]
    /\ locationsByStage \in [Jobs -> [StageIds -> [done : BOOLEAN, locs : Seq(Location)]]]
    /\ handler \in [Jobs -> HandlerState]
    /\ answer \in [Jobs -> [Groups -> Nat]]
    /\ swallowed \in [Jobs -> BOOLEAN]
    /\ files \in [FileNames -> FileState]
    /\ up \in [Executors -> BOOLEAN]
    /\ crashes \in 0..MaxCrashes

\* The scheduler never runs into "depends on stage ... which hasn't completed".
StageOrder == \A j \in Jobs : phase[j] = "dispatch" => DependenciesDone(j)

\* Whatever the final task of a job is about to open is a finalised file that
\* holds exactly the job's rows of that partition: read_partition cannot panic
\* on a missing or truncated file, whatever other jobs write and however the
\* servers' identities and directories are configured.
FinalInputsComplete ==
    \A j \in Jobs : handler[j].pc \in {"check", "read"} =>
        \A i \in DOMAIN handler[j].locs :
            LET loc == handler[j].locs[i]
            IN  files[partition_file(handler[j].exec, loc.job, loc.stage, loc.part)]
                  = Complete(Bucket(j, loc.part))

\* Every group of the job, merged as often as the code does it.
Merged(j) ==
    [g \in Groups |-> IF g \notin JobGroups[j] THEN 0 ELSE IF j \in Aggregates THEN PartitionCount ELSE 1]

\* What the client keeps when a panic ends the result stream early: nothing of an
\* aggregate, any of the batches of another plan.
Remains(j) ==
    IF j \in Aggregates THEN {Nothing}
    ELSE {[g \in Groups |-> IF g \in sent THEN 1 ELSE 0] : sent \in SUBSET JobGroups[j]}

\* A result the job returns was built from all of its groups and from nothing
\* else, each merged equally often: once without a shuffle, and once per task of
\* stage 0 with one, because every task writes the whole input.  Otherwise a
\* panic was swallowed: an aggregate's result is then empty, never a part of its
\* groups or of the multiplicities, and another plan's holds no batch twice.
AnswerMultiplicity ==
    \A j \in Jobs : phase[j] = "ok" =>
        answer[j] \in IF swallowed[j] THEN Remains(j) ELSE {Merged(j)}

\* When the shuffle leaves executor 0.
CrossesExecutors(j) ==
    JobGroups[j] # {} /\ \E t \in Partitions : ServerId[t % NumExecutors] # ServerId[0]

\* An aggregate's answer is lost exactly when some task of stage 0 ran on a server
\* with another executor_id (fetch_shuffle is a stub): crashes, other jobs and
\* the layout of the shuffle directories neither cause it nor hide it.
SwallowedExactlyIfRemote ==
    \A j \in Aggregates : phase[j] = "ok" => (swallowed[j] <=> CrossesExecutors(j))

\* What a job returns when it is alone in the cluster and nothing crashes.  A plan over
\* data sources may panic at any moment, which nobody reports.
Alone(j) ==
    IF j \notin Aggregates THEN Remains(j)
    ELSE {IF CrossesExecutors(j) THEN Nothing ELSE Merged(j)}

\* What a caller sees of its job.
JobStatus == [j \in Jobs |-> CASE phase[j] = "idle" -> "idle"
                               [] phase[j] \in {"dispatch", "waiting"} -> "running"
                               [] phase[j] = "ok" -> "returned"
                               [] phase[j] = "failed" -> "panicked"]
JobResult == [j \in Jobs |-> IF phase[j] = "ok" THEN answer[j] ELSE Nothing]

Promise == INSTANCE QueryJobs WITH
    Possible <- [j \in Jobs |-> Alone(j)], NoAnswer <- Nothing,
    status <- JobStatus, result <- JobResult

\* Scheduler::execute: concurrent jobs, shared directories and crashes leave every job
\* that returns with the answer it would get alone, and returned answers stay.
JobsAnswerAlone == Promise!Spec

\* No step of any job touches the shuffle files of a job whose final task runs.
FilesStableWhileRead ==
    [][\A j \in Jobs : handler[j].pc \in {"check", "read"} =>
         \A f \in FileNames : f[2] = j => files'[f] = files[f]]_files

\* Every submitted job ends: with a result or with a panic of its scheduler.
JobsEnd == \A j \in Jobs : (phase[j] # "idle") ~> (phase[j] \in {"ok", "failed"})

\* Documented, and refuted by the code: an answer merges every row once.
AnswerExact ==
    \A j \in Jobs : phase[j] = "ok" /\ ~swallowed[j] =>
        \A g \in JobGroups[j] : answer[j][g] = 1
===============================================================================
