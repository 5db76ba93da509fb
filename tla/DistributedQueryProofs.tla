------------------------ MODULE DistributedQueryProofs ------------------------
(***************************************************************************)
(* TLAPS proofs about DistributedQuery, for any number of jobs, executors, *)
(* partitions and crashes, any hash function and any assignment of         *)
(* identities and shuffle directories to servers.                          *)
(*                                                                         *)
(* The argument: task 0 of a stage always runs on executor 0 and writes    *)
(* every non-empty partition into that executor's directory, where the     *)
(* final task reads.  Later tasks that share the directory rewrite a file  *)
(* with the same rows, and while such a file is open its job is still in   *)
(* stage 0.                                                                *)
(***************************************************************************)
EXTENDS DistributedQuery, TLAPS, SequenceTheorems

\* A location of job j names a non-empty partition of its stage 0.
GoodLocations(j, locs) ==
    \A i \in 1..Len(locs) :
        locs[i].job = j /\ locs[i].stage = 0 /\ Bucket(j, locs[i].part) # {}

LocationsInv(j) ==
    /\ GoodLocations(j, locations[j])
    /\ GoodLocations(j, locationsByStage[j][0].locs)
    /\ GoodLocations(j, handler[j].locs)

StageInv(j) ==
    /\ j \notin Aggregates => stage[j] = 1
    /\ stage[j] = 2 => locationsByStage[j][0].done
    /\ phase[j] = "idle" => stage[j] = 1 /\ task[j] = 0
    /\ phase[j] = "dispatch" => task[j] <= Current(j).partition_count

HandlerInv(j) ==
    /\ handler[j].pc # "none" => phase[j] = "waiting"
    /\ handler[j].pc \in {"write", "open"} =>
         /\ j \in Aggregates /\ stage[j] = 1 /\ task[j] < PartitionCount
         /\ handler[j].exec = task[j] % NumExecutors
    /\ handler[j].pc = "open" =>
         handler[j].part < PartitionCount /\ Bucket(j, handler[j].part) # {}
    /\ handler[j].pc \in {"check", "read", "end"} =>
         /\ handler[j].exec = 0
         /\ j \in Aggregates => stage[j] = 2
         /\ j \notin Aggregates => handler[j].locs = <<>>

\* The file of partition p of job j in the directory of executor e is finished.
Ready(e, j, p) == files[partition_file(e, j, 0, p)] = Complete(Bucket(j, p))

\* What the task in progress has already written ...
WritingInv(j) ==
    handler[j].pc \in {"write", "open"} =>
        \A p \in Partitions :
            p < handler[j].part /\ Bucket(j, p) # {} => Ready(handler[j].exec, j, p)

\* ... and what executor 0 holds once task 0 has replied.
ShuffleInv(j) ==
    j \in Aggregates /\ phase[j] # "failed" /\ (task[j] > 0 \/ stage[j] = 2) =>
        \A p \in Partitions : Bucket(j, p) # {} =>
            \/ Ready(0, j, p)
            \/ handler[j].pc = "open" /\ handler[j].part = p
                 /\ ShuffleDir[handler[j].exec] = ShuffleDir[0]

JobInv(j) ==
    LocationsInv(j) /\ StageInv(j) /\ HandlerInv(j) /\ WritingInv(j) /\ ShuffleInv(j)

Inv == TypeOK /\ \A j \in Jobs : JobInv(j)

-------------------------------------------------------------------------------
(* Facts about the constants and about stages. *)

\* There is at least one partition, and executor 0 exists.
LEMMA Counts ==
    /\ NumExecutors \in Nat \ {0}
    /\ PartitionCount \in Nat \ {0}
    /\ 0 \in Executors
  BY ClusterAssumption DEF PartitionCount, Executors

\* Round robin names an executor of the cluster.
LEMMA RoundRobin == ASSUME NEW t \in Nat PROVE t % NumExecutors \in Executors
  BY ClusterAssumption DEF Executors

\* Shuffle files of different jobs or partitions have different names, those of
\* executors with one directory the same.
LEMMA FileNaming ==
  ASSUME NEW e \in Executors, NEW j \in Jobs, NEW s \in StageIds, NEW p \in Partitions
  PROVE  /\ partition_file(e, j, s, p) \in FileNames
         /\ \A f \in Executors : \A k, q :
              /\ k # j \/ q # p \/ ShuffleDir[e] # ShuffleDir[f]
                   => partition_file(f, k, 0, q) # partition_file(e, j, s, p)
              /\ ShuffleDir[e] = ShuffleDir[f] /\ s = 0
                   => partition_file(f, j, 0, p) = partition_file(e, j, s, p)
  BY DEF partition_file, FileNames, Dirs

\* The stages of a plan, spelled out.
LEMMA StageFacts ==
  ASSUME NEW j \in Jobs, stage[j] \in {1, 2}, j \notin Aggregates => stage[j] = 1
  PROVE  /\ Current(j).is_final_stage \in BOOLEAN
         /\ Current(j).is_final_stage <=> ~(j \in Aggregates /\ stage[j] = 1)
         /\ Current(j).id \in StageIds
         /\ Current(j).id = stage[j] - 1
         /\ j \in Aggregates /\ stage[j] = 1 => Current(j).partition_count = PartitionCount
         /\ ~(j \in Aggregates /\ stage[j] = 1) => Current(j).partition_count = 1
         /\ Current(j).dependencies = (IF stage[j] = 2 THEN {0} ELSE {})
<1>1. CASE j \in Aggregates /\ stage[j] = 1
  <2>1. Current(j) = QueryStage(0, {}, PartitionCount, FALSE)
    BY <1>1 DEF Current, Stages
  <2> QED
    BY <1>1, <2>1 DEF QueryStage, StageIds
<1>2. CASE j \in Aggregates /\ stage[j] = 2
  <2>1. Current(j) = QueryStage(1, {0}, 1, TRUE)
    BY <1>2 DEF Current, Stages
  <2> QED
    BY <1>2, <2>1 DEF QueryStage, StageIds
<1>3. CASE j \notin Aggregates
  <2>1. stage[j] = 1
    BY <1>3
  <2>2. Current(j) = QueryStage(0, {}, 1, TRUE)
    BY <1>3, <2>1 DEF Current, Stages
  <2> QED
    BY <1>3, <2>1, <2>2 DEF QueryStage, StageIds
<1> QED
  BY <1>1, <1>2, <1>3

\* The same in a state of the invariant.
LEMMA StageOf ==
  ASSUME NEW j \in Jobs, TypeOK, JobInv(j)
  PROVE  /\ stage[j] \in {1, 2} /\ (j \notin Aggregates => stage[j] = 1)
         /\ Current(j).partition_count \in Nat
         /\ Current(j).is_final_stage <=> ~(j \in Aggregates /\ stage[j] = 1)
         /\ Current(j).id = stage[j] - 1
         /\ j \in Aggregates /\ stage[j] = 1 => Current(j).partition_count = PartitionCount
         /\ ~(j \in Aggregates /\ stage[j] = 1) => Current(j).partition_count = 1
         /\ Current(j).dependencies = (IF stage[j] = 2 THEN {0} ELSE {})
<1>1. stage[j] \in {1, 2} /\ (j \notin Aggregates => stage[j] = 1)
  BY DEF TypeOK, JobInv, StageInv
<1> QED
  BY <1>1, StageFacts, Counts

\* No locations yet.
LEMMA NoLocations == <<>> \in Seq(Location) /\ Len(<<>>) = 0 /\ \A j : GoodLocations(j, <<>>)
  BY DEF GoodLocations

\* Locations of two replies together.
LEMMA MoreLocations ==
  ASSUME NEW j, NEW s \in Seq(Location), NEW t \in Seq(Location),
         GoodLocations(j, s), GoodLocations(j, t)
  PROVE  s \o t \in Seq(Location) /\ GoodLocations(j, s \o t)
<1>1. /\ s \o t \in Seq(Location)
      /\ Len(s \o t) = Len(s) + Len(t)
      /\ \A i \in 1..(Len(s) + Len(t)) :
           (s \o t)[i] = IF i <= Len(s) THEN s[i] ELSE t[i - Len(s)]
  BY ConcatProperties
<1>2. ASSUME NEW i \in 1..Len(s \o t)
      PROVE  (s \o t)[i].job = j /\ (s \o t)[i].stage = 0 /\ Bucket(j, (s \o t)[i].part) # {}
  <2>1. CASE i <= Len(s)
    BY <1>1, <2>1 DEF GoodLocations
  <2>2. CASE ~(i <= Len(s))
    <3>1. i - Len(s) \in 1..Len(t) /\ (s \o t)[i] = t[i - Len(s)]
      BY <1>1, <2>2
    <3> QED
      BY <3>1 DEF GoodLocations
  <2> QED
    BY <2>1, <2>2
<1> QED
  BY <1>1, <1>2 DEF GoodLocations

\* One more location.
LEMMA OneMoreLocation ==
  ASSUME NEW j, NEW s \in Seq(Location), NEW l \in Location,
         GoodLocations(j, s), l.job = j, l.stage = 0, Bucket(j, l.part) # {}
  PROVE  Append(s, l) \in Seq(Location) /\ GoodLocations(j, Append(s, l))
  BY DEF GoodLocations

\* All but the first location.
LEMMA FewerLocations ==
  ASSUME NEW j, NEW s \in Seq(Location), s # <<>>, GoodLocations(j, s)
  PROVE  Tail(s) \in Seq(Location) /\ GoodLocations(j, Tail(s))
  BY DEF GoodLocations

\* Bookkeeping: NoHandler is a handler state that handles nothing.
LEMMA NoHandlerType == NoHandler \in HandlerState /\ NoHandler.pc = "none" /\ NoHandler.locs = <<>>
  BY Counts, NoLocations DEF NoHandler, HandlerState

-------------------------------------------------------------------------------
\* Nothing has been planned or written at the start.
LEMMA InitInv == Init => Inv
<1> SUFFICES ASSUME Init PROVE Inv
  OBVIOUS
<1> USE ClusterAssumption, Counts, NoHandlerType, NoLocations DEF Init
<1>1. TypeOK
  BY DEF TypeOK, StageIds, FileState, Nothing
<1>2. ASSUME NEW j \in Jobs PROVE JobInv(j)
  <2>1. LocationsInv(j)
    BY DEF LocationsInv, StageIds
  <2>2. StageInv(j) /\ HandlerInv(j) /\ WritingInv(j) /\ ShuffleInv(j)
    BY DEF StageInv, HandlerInv, WritingInv, ShuffleInv
  <2> QED
    BY <2>1, <2>2 DEF JobInv
<1> QED
  BY <1>1, <1>2 DEF Inv

-------------------------------------------------------------------------------
(* A step of job k leaves the other jobs and their shuffle files alone. *)

OtherJobsUnchanged(k) ==
    \A j \in Jobs \ {k} :
        /\ phase'[j] = phase[j] /\ stage'[j] = stage[j] /\ task'[j] = task[j]
        /\ locations'[j] = locations[j] /\ locationsByStage'[j] = locationsByStage[j]
        /\ handler'[j] = handler[j]
        /\ \A e \in Executors, p \in Partitions :
             files'[partition_file(e, j, 0, p)] = files[partition_file(e, j, 0, p)]

\* What is left to show of a step of job k.
LEMMA OneJob ==
  ASSUME Inv, NEW k \in Jobs, OtherJobsUnchanged(k), TypeOK', JobInv(k)'
  PROVE  Inv'
<1> SUFFICES ASSUME NEW j \in Jobs, j # k PROVE JobInv(j)'
  BY DEF Inv
<1>1. JobInv(j) /\ 0 \in Executors /\ handler[j].exec \in Executors
  BY Counts DEF Inv, TypeOK, HandlerState
<1>2. /\ phase'[j] = phase[j] /\ stage'[j] = stage[j] /\ task'[j] = task[j]
      /\ locations'[j] = locations[j] /\ locationsByStage'[j] = locationsByStage[j]
      /\ handler'[j] = handler[j]
      /\ \A e \in Executors, p \in Partitions :
           files'[partition_file(e, j, 0, p)] = files[partition_file(e, j, 0, p)]
  BY DEF OtherJobsUnchanged
<1>3. LocationsInv(j)' /\ HandlerInv(j)'
  BY <1>1, <1>2 DEF JobInv, LocationsInv, HandlerInv
<1>4. StageInv(j)'
  BY <1>1, <1>2 DEF JobInv, StageInv, Current
<1>5. WritingInv(j)' /\ ShuffleInv(j)'
  BY <1>1, <1>2 DEF JobInv, WritingInv, ShuffleInv, Ready
<1> QED
  BY <1>3, <1>4, <1>5 DEF JobInv

\* Job k submits, fails or its server panics: nothing is written.
LEMMA SimpleStep ==
  ASSUME Inv, NEW k \in Jobs, Submit(k) \/ DispatchFails(k) \/ HandlerPanics(k)
  PROVE  Inv'
<1>1. /\ UNCHANGED <<stage, task, locations, locationsByStage, answer, swallowed, files, up, crashes>>
      /\ \/ phase[k] = "idle" /\ phase' = [phase EXCEPT ![k] = "dispatch"] /\ handler' = handler
         \/ phase[k] = "dispatch" /\ phase' = [phase EXCEPT ![k] = "failed"] /\ handler' = handler
         \/ phase' = [phase EXCEPT ![k] = "failed"] /\ handler' = [handler EXCEPT ![k] = NoHandler]
  BY DEF Submit, DispatchFails, HandlerPanics, resultVars, clusterVars
<1>2. TypeOK /\ JobInv(k)
  BY DEF Inv
<1>3. TypeOK'
  BY <1>1, <1>2, NoHandlerType DEF TypeOK
<1>4. OtherJobsUnchanged(k)
  BY <1>1, <1>2 DEF OtherJobsUnchanged, TypeOK
<1>5. /\ handler'[k] = handler[k] \/ handler'[k] = NoHandler
      /\ phase'[k] = "failed" \/ (phase[k] = "idle" /\ phase'[k] = "dispatch" /\ handler'[k] = handler[k])
      /\ handler[k].pc = "none" \/ handler'[k] = NoHandler
  BY <1>1, <1>2 DEF TypeOK, JobInv, HandlerInv
<1>6. LocationsInv(k)'
  BY <1>1, <1>2, <1>5, NoLocations, NoHandlerType DEF JobInv, LocationsInv
<1>7. StageInv(k)'
  <2>1. Current(k).partition_count \in Nat
    BY <1>2, StageOf
  <2>2. Current(k)' = Current(k)
    BY <1>1 DEF Current
  <2> QED
    BY <1>1, <1>2, <1>5, <2>1, <2>2 DEF JobInv, StageInv
<1>8. HandlerInv(k)' /\ WritingInv(k)' /\ ShuffleInv(k)'
  <2>1. handler'[k].pc = "none"
    BY <1>5, NoHandlerType
  <2> QED
    BY <1>1, <1>2, <1>5, <2>1 DEF JobInv, HandlerInv, WritingInv, ShuffleInv, StageInv
<1> QED
  BY <1>3, <1>4, <1>6, <1>7, <1>8, OneJob DEF JobInv

\* An RPC of job k reaches its server (Dispatch).
LEMMA DispatchStep ==
  ASSUME Inv, NEW k \in Jobs, Dispatch(k)
  PROVE  Inv'
<1> DEFINE h == [pc |-> IF Current(k).is_final_stage THEN "check" ELSE "write",
                 exec |-> Target(k), part |-> 0, locs |-> InputLocations(k)]
<1>1. /\ phase[k] = "dispatch" /\ DependenciesDone(k) /\ task[k] < Current(k).partition_count
      /\ handler' = [handler EXCEPT ![k] = h] /\ phase' = [phase EXCEPT ![k] = "waiting"]
      /\ UNCHANGED <<stage, task, locations, locationsByStage, answer, swallowed, files, up, crashes>>
  BY DEF Dispatch, resultVars, clusterVars
<1>2. TypeOK /\ JobInv(k) /\ task[k] \in Nat
  BY DEF Inv, TypeOK
<1>3. /\ InputLocations(k) \in Seq(Location) /\ GoodLocations(k, InputLocations(k))
      /\ k \notin Aggregates => InputLocations(k) = <<>>
  <2>1. CASE 0 \in Current(k).dependencies
    <3>1. InputLocations(k) = locationsByStage[k][0].locs /\ stage[k] = 2
      BY <1>2, <2>1, StageOf DEF InputLocations
    <3>2. locationsByStage[k][0].locs \in Seq(Location)
      BY <1>2 DEF TypeOK, StageIds
    <3> QED
      BY <1>2, <3>1, <3>2 DEF JobInv, LocationsInv, StageInv
  <2>2. CASE 0 \notin Current(k).dependencies
    BY <2>2, NoLocations DEF InputLocations
  <2> QED
    BY <2>1, <2>2
<1>4. /\ Target(k) \in Executors
      /\ Current(k).is_final_stage => Target(k) = 0
      /\ ~Current(k).is_final_stage => Target(k) = task[k] % NumExecutors
  BY <1>2, RoundRobin, Counts DEF Target
<1>5. h \in HandlerState
  BY <1>3, <1>4, Counts DEF HandlerState
<1>6. TypeOK'
  BY <1>1, <1>2, <1>5 DEF TypeOK
<1>7. OtherJobsUnchanged(k)
  BY <1>1, <1>2 DEF OtherJobsUnchanged, TypeOK
<1>8. handler'[k] = h /\ phase'[k] = "waiting"
  BY <1>1, <1>2 DEF TypeOK
<1>9. LocationsInv(k)' /\ StageInv(k)'
  BY <1>1, <1>2, <1>3, <1>8 DEF JobInv, LocationsInv, StageInv
<1>10. HandlerInv(k)'
  <2>1. CASE Current(k).is_final_stage
    <3>1. h.pc = "check" /\ h.exec = 0 /\ h.locs = InputLocations(k)
      BY <1>4, <2>1
    <3>2. k \in Aggregates => stage[k] = 2
      BY <1>2, <2>1, StageOf
    <3> QED
      BY <1>1, <1>3, <1>8, <3>1, <3>2 DEF HandlerInv
  <2>2. CASE ~Current(k).is_final_stage
    <3>1. h.pc = "write" /\ h.exec = task[k] % NumExecutors
      BY <1>4, <2>2
    <3>2. k \in Aggregates /\ stage[k] = 1 /\ task[k] < PartitionCount
      BY <1>1, <1>2, <2>2, StageOf
    <3> QED
      BY <1>1, <1>8, <3>1, <3>2 DEF HandlerInv
  <2> QED
    BY <2>1, <2>2
<1>11. WritingInv(k)'
  BY <1>8, Counts DEF WritingInv, Partitions
<1>12. ShuffleInv(k)'
  BY <1>1, <1>2, <1>8 DEF JobInv, HandlerInv, ShuffleInv, Ready
<1> QED
  BY <1>6, <1>7, <1>9, <1>10, <1>11, <1>12, OneJob DEF JobInv

\* All tasks of stage 0 have replied (FinishStage).
LEMMA FinishStageStep ==
  ASSUME Inv, NEW k \in Jobs, FinishStage(k)
  PROVE  Inv'
<1>1. TypeOK /\ JobInv(k) /\ phase[k] = "dispatch" /\ handler[k].pc = "none"
  BY DEF FinishStage, Inv, JobInv, HandlerInv
<1>2. /\ k \in Aggregates /\ stage[k] = 1 /\ Current(k).id = 0 /\ task[k] = PartitionCount
  BY <1>1, StageOf DEF FinishStage
<1>3. /\ locationsByStage' = [locationsByStage EXCEPT ![k][0] = [done |-> TRUE, locs |-> locations[k]]]
      /\ stage' = [stage EXCEPT ![k] = 2]
      /\ task' = [task EXCEPT ![k] = 0]
      /\ locations' = [locations EXCEPT ![k] = <<>>]
      /\ UNCHANGED <<phase, handler, answer, swallowed, files, up, crashes>>
  BY <1>1, <1>2 DEF FinishStage, resultVars, clusterVars, TypeOK
<1>4. TypeOK'
  BY <1>1, <1>3, NoLocations, Counts DEF TypeOK, StageIds
<1>5. OtherJobsUnchanged(k)
  BY <1>1, <1>3 DEF OtherJobsUnchanged, TypeOK
<1>6. /\ stage'[k] = 2 /\ task'[k] = 0 /\ locations'[k] = <<>>
      /\ locationsByStage'[k][0].done /\ locationsByStage'[k][0].locs = locations[k]
  BY <1>1, <1>3 DEF TypeOK, StageIds
<1>7. LocationsInv(k)'
  BY <1>1, <1>3, <1>6, NoLocations DEF JobInv, LocationsInv
<1>8. StageInv(k)'
  <2>1. Current(k)'.partition_count = 1
    BY <1>2, <1>6 DEF Current, Stages, QueryStage
  <2> QED
    BY <1>1, <1>2, <1>3, <1>6, <2>1 DEF StageInv
<1>9. HandlerInv(k)' /\ WritingInv(k)'
  BY <1>1, <1>3 DEF HandlerInv, WritingInv
<1>10. ShuffleInv(k)'
  BY <1>1, <1>2, <1>3, Counts DEF JobInv, ShuffleInv, Ready
<1> QED
  BY <1>4, <1>5, <1>7, <1>8, <1>9, <1>10, OneJob DEF JobInv

\* The server is between two partitions (SkipEmptyPartition, TaskReply).
LEMMA SkipStep ==
  ASSUME Inv, NEW k \in Jobs, SkipEmptyPartition(k)
  PROVE  Inv'
<1>1. TypeOK /\ JobInv(k) /\ handler[k] \in HandlerState
  BY DEF Inv, TypeOK
<1>2. /\ handler[k].pc = "write" /\ handler[k].part < PartitionCount
      /\ Bucket(k, handler[k].part) = {}
      /\ handler' = [handler EXCEPT ![k].part = @ + 1]
      /\ UNCHANGED <<phase, stage, task, locations, locationsByStage, answer, swallowed, files, up, crashes>>
  BY DEF SkipEmptyPartition, schedulerVars, resultVars, clusterVars
<1>3. /\ handler'[k] = [handler[k] EXCEPT !.part = @ + 1]
      /\ \A j \in Jobs \ {k} : handler'[j] = handler[j]
      /\ handler[k].part \in Nat
  BY <1>1, <1>2, Counts DEF TypeOK, HandlerState
<1>4. handler'[k] \in HandlerState
  BY <1>1, <1>2, <1>3, Counts DEF HandlerState
<1>5. TypeOK'
  BY <1>1, <1>2, <1>4 DEF TypeOK
<1>6. OtherJobsUnchanged(k)
  BY <1>2, <1>3 DEF OtherJobsUnchanged
<1>7. /\ handler'[k].pc = "write" /\ handler'[k].exec = handler[k].exec
      /\ handler'[k].locs = handler[k].locs /\ handler'[k].part = handler[k].part + 1
  BY <1>1, <1>2, <1>3 DEF HandlerState
<1>8. LocationsInv(k)' /\ HandlerInv(k)'
  BY <1>1, <1>2, <1>7 DEF JobInv, LocationsInv, HandlerInv
<1>9. StageInv(k)'
  BY <1>1, <1>2 DEF JobInv, StageInv, Current
<1>10. WritingInv(k)'
  <2> SUFFICES ASSUME NEW p \in Partitions, p < handler[k].part + 1, Bucket(k, p) # {}
               PROVE  Ready(handler[k].exec, k, p)
    BY <1>2, <1>7 DEF WritingInv, Ready
  <2>1. p < handler[k].part
    BY <1>2, <1>3 DEF Partitions
  <2> QED
    BY <1>1, <1>2, <2>1 DEF JobInv, WritingInv
<1>11. ShuffleInv(k)'
  BY <1>1, <1>2, <1>7 DEF JobInv, ShuffleInv, Ready
<1> QED
  BY <1>5, <1>6, <1>8, <1>9, <1>10, <1>11, OneJob DEF JobInv

\* The reply of a stage task: after task 0, executor 0 holds every partition.
LEMMA TaskReplyStep ==
  ASSUME Inv, NEW k \in Jobs, TaskReply(k)
  PROVE  Inv'
<1>1. TypeOK /\ JobInv(k) /\ handler[k] \in HandlerState
  BY DEF Inv, TypeOK
<1>2. /\ handler[k].pc = "write" /\ handler[k].part = PartitionCount
      /\ locations' = [locations EXCEPT ![k] = @ \o handler[k].locs]
      /\ task' = [task EXCEPT ![k] = @ + 1]
      /\ phase' = [phase EXCEPT ![k] = "dispatch"]
      /\ handler' = [handler EXCEPT ![k] = NoHandler]
      /\ UNCHANGED <<stage, locationsByStage, answer, swallowed, files, up, crashes>>
  BY DEF TaskReply, resultVars, clusterVars
<1>3. /\ k \in Aggregates /\ stage[k] = 1 /\ task[k] < PartitionCount /\ task[k] \in Nat
      /\ handler[k].exec = task[k] % NumExecutors /\ phase[k] = "waiting"
  BY <1>1, <1>2 DEF JobInv, HandlerInv, TypeOK
<1>4. locations[k] \o handler[k].locs \in Seq(Location)
        /\ GoodLocations(k, locations[k] \o handler[k].locs)
  <2>1. locations[k] \in Seq(Location) /\ handler[k].locs \in Seq(Location)
    BY <1>1 DEF TypeOK, HandlerState
  <2> QED
    BY <1>1, <2>1, MoreLocations DEF JobInv, LocationsInv
<1>5. TypeOK'
  <2>1. locations' \in [Jobs -> Seq(Location)]
    BY <1>1, <1>2, <1>4 DEF TypeOK
  <2>2. task' \in [Jobs -> 0..PartitionCount]
    BY <1>1, <1>2, <1>3, Counts DEF TypeOK
  <2> QED
    BY <1>1, <1>2, <2>1, <2>2, NoHandlerType DEF TypeOK
<1>6. OtherJobsUnchanged(k)
  BY <1>1, <1>2 DEF OtherJobsUnchanged, TypeOK
<1>7. /\ locations'[k] = locations[k] \o handler[k].locs /\ task'[k] = task[k] + 1
      /\ phase'[k] = "dispatch" /\ handler'[k] = NoHandler
  BY <1>1, <1>2 DEF TypeOK
<1>8. LocationsInv(k)'
  BY <1>1, <1>2, <1>4, <1>7, NoHandlerType, NoLocations DEF JobInv, LocationsInv
<1>9. StageInv(k)'
  <2>1. Current(k)' = Current(k) /\ Current(k).partition_count = PartitionCount
    BY <1>1, <1>2, <1>3, StageOf DEF Current
  <2> QED
    BY <1>1, <1>2, <1>3, <1>7, <2>1, Counts DEF JobInv, StageInv
<1>10. HandlerInv(k)' /\ WritingInv(k)'
  BY <1>7, NoHandlerType DEF HandlerInv, WritingInv
<1>11. ShuffleInv(k)'
  <2> SUFFICES ASSUME NEW p \in Partitions, Bucket(k, p) # {} PROVE Ready(0, k, p)
    BY <1>2 DEF ShuffleInv, Ready
  <2>1. CASE task[k] = 0
    <3>1. handler[k].exec = 0 /\ p < handler[k].part
      BY <1>2, <1>3, <2>1, Counts DEF Partitions
    <3> QED
      BY <1>1, <1>2, <3>1 DEF JobInv, WritingInv
  <2>2. CASE task[k] > 0
    BY <1>1, <1>2, <1>3, <2>2 DEF JobInv, ShuffleInv
  <2> QED
    BY <1>3, <2>1, <2>2
<1> QED
  BY <1>5, <1>6, <1>8, <1>9, <1>10, <1>11, OneJob DEF JobInv

\* The file a task is about to write, and the files it leaves alone.
LEMMA WriteTarget ==
  ASSUME Inv, NEW k \in Jobs, handler[k].pc \in {"write", "open"}, handler[k].part < PartitionCount
  PROVE  /\ handler[k].exec \in Executors /\ handler[k].part \in Partitions
         /\ NextFile(k) = partition_file(handler[k].exec, k, 0, handler[k].part)
         /\ NextFile(k) \in FileNames
<1>1. TypeOK /\ JobInv(k) /\ handler[k] \in HandlerState
  BY DEF Inv, TypeOK
<1>2. stage[k] = 1 /\ Current(k).id = 0
  BY <1>1, StageOf DEF JobInv, HandlerInv
<1>3. handler[k].exec \in Executors /\ handler[k].part \in Partitions
  BY <1>1, Counts DEF HandlerState, Partitions
<1> QED
  BY <1>2, <1>3, FileNaming DEF NextFile, StageIds

\* Replacing that file disturbs no other job and no other partition.
LEMMA WriteEffect ==
  ASSUME Inv, NEW k \in Jobs, handler[k].pc \in {"write", "open"}, handler[k].part < PartitionCount,
         \A f \in FileNames : f # NextFile(k) => files'[f] = files[f]
  PROVE  /\ \A j \in Jobs \ {k} : \A e \in Executors, p \in Partitions :
              files'[partition_file(e, j, 0, p)] = files[partition_file(e, j, 0, p)]
         /\ \A e \in Executors, p \in Partitions :
              files'[partition_file(e, k, 0, p)] =
                IF p = handler[k].part /\ ShuffleDir[e] = ShuffleDir[handler[k].exec]
                THEN files'[NextFile(k)] ELSE files[partition_file(e, k, 0, p)]
<1>1. /\ handler[k].exec \in Executors /\ handler[k].part \in Partitions
      /\ NextFile(k) = partition_file(handler[k].exec, k, 0, handler[k].part)
      /\ NextFile(k) \in FileNames
  BY WriteTarget
<1>2. ASSUME NEW j \in Jobs \ {k}, NEW e \in Executors, NEW p \in Partitions
      PROVE  files'[partition_file(e, j, 0, p)] = files[partition_file(e, j, 0, p)]
  <2>1. partition_file(e, j, 0, p) \in FileNames /\ partition_file(e, j, 0, p) # NextFile(k)
    BY <1>1, FileNaming DEF StageIds, partition_file
  <2> QED
    BY <2>1
<1>3. ASSUME NEW e \in Executors, NEW p \in Partitions
      PROVE  files'[partition_file(e, k, 0, p)] =
                IF p = handler[k].part /\ ShuffleDir[e] = ShuffleDir[handler[k].exec]
                THEN files'[NextFile(k)] ELSE files[partition_file(e, k, 0, p)]
  <2>1. partition_file(e, k, 0, p) \in FileNames
    BY FileNaming DEF StageIds
  <2>2. CASE p = handler[k].part /\ ShuffleDir[e] = ShuffleDir[handler[k].exec]
    <3>1. partition_file(e, k, 0, p) = NextFile(k)
      BY <1>1, <2>2 DEF partition_file
    <3> QED
      BY <2>2, <3>1
  <2>3. CASE ~(p = handler[k].part /\ ShuffleDir[e] = ShuffleDir[handler[k].exec])
    <3>1. partition_file(e, k, 0, p) # NextFile(k)
      BY <1>1, <2>3 DEF partition_file
    <3> QED
      BY <2>1, <2>3, <3>1
  <2> QED
    BY <2>2, <2>3
<1> QED
  BY <1>2, <1>3

\* A shuffle file is created or truncated (CreateFile).
LEMMA CreateFileStep ==
  ASSUME Inv, NEW k \in Jobs, CreateFile(k)
  PROVE  Inv'
<1>1. TypeOK /\ JobInv(k) /\ handler[k] \in HandlerState
  BY DEF Inv, TypeOK
<1>2. /\ handler[k].pc = "write" /\ handler[k].part < PartitionCount
      /\ Bucket(k, handler[k].part) # {}
      /\ files' = [files EXCEPT ![NextFile(k)] = Truncated]
      /\ handler' = [handler EXCEPT ![k].pc = "open"]
      /\ UNCHANGED <<phase, stage, task, locations, locationsByStage, answer, swallowed, up, crashes>>
  BY DEF CreateFile, schedulerVars, resultVars, clusterVars
<1>3. handler[k].exec \in Executors /\ NextFile(k) \in FileNames /\ 0 \in Executors
  BY <1>2, WriteTarget, Counts
<1>4. /\ \A j \in Jobs \ {k} : \A e \in Executors, p \in Partitions :
           files'[partition_file(e, j, 0, p)] = files[partition_file(e, j, 0, p)]
      /\ \A e \in Executors, p \in Partitions :
           p # handler[k].part \/ ShuffleDir[e] # ShuffleDir[handler[k].exec] =>
             files'[partition_file(e, k, 0, p)] = files[partition_file(e, k, 0, p)]
  <2>1. \A f \in FileNames : f # NextFile(k) => files'[f] = files[f]
    BY <1>1, <1>2 DEF TypeOK
  <2> QED
    BY <1>2, <2>1, WriteEffect
<1>5. /\ handler'[k] = [handler[k] EXCEPT !.pc = "open"]
      /\ \A j \in Jobs \ {k} : handler'[j] = handler[j]
  BY <1>1, <1>2 DEF TypeOK
<1>6. /\ handler'[k].pc = "open" /\ handler'[k].exec = handler[k].exec
      /\ handler'[k].locs = handler[k].locs /\ handler'[k].part = handler[k].part
  BY <1>1, <1>5 DEF HandlerState
<1>7. TypeOK'
  <2>1. handler' \in [Jobs -> HandlerState]
    BY <1>1, <1>2 DEF TypeOK, HandlerState
  <2>2. files' \in [FileNames -> FileState]
    BY <1>1, <1>2 DEF TypeOK, FileState
  <2> QED
    BY <1>1, <1>2, <2>1, <2>2 DEF TypeOK
<1>8. OtherJobsUnchanged(k)
  BY <1>2, <1>4, <1>5 DEF OtherJobsUnchanged
<1>9. LocationsInv(k)' /\ HandlerInv(k)'
  BY <1>1, <1>2, <1>6 DEF JobInv, LocationsInv, HandlerInv
<1>10. StageInv(k)'
  BY <1>1, <1>2 DEF JobInv, StageInv, Current
<1>11. WritingInv(k)'
  <2> SUFFICES ASSUME NEW p \in Partitions, p < handler[k].part, Bucket(k, p) # {}
               PROVE  files'[partition_file(handler[k].exec, k, 0, p)] = Complete(Bucket(k, p))
    BY <1>6 DEF WritingInv, Ready
  <2>1. Ready(handler[k].exec, k, p)
    BY <1>1, <1>2 DEF JobInv, WritingInv
  <2>2. p # handler[k].part
    BY <1>1 DEF HandlerState, Partitions
  <2> QED
    BY <1>3, <1>4, <2>1, <2>2 DEF Ready
<1>12. ShuffleInv(k)'
  <2> SUFFICES ASSUME k \in Aggregates, phase[k] # "failed", task[k] > 0 \/ stage[k] = 2,
                      NEW p \in Partitions, Bucket(k, p) # {},
                      ~(handler[k].part = p /\ ShuffleDir[handler[k].exec] = ShuffleDir[0])
               PROVE  files'[partition_file(0, k, 0, p)] = Complete(Bucket(k, p))
    BY <1>2, <1>6 DEF ShuffleInv, Ready
  <2>1. Ready(0, k, p)
    BY <1>1, <1>2 DEF JobInv, ShuffleInv
  <2> QED
    BY <1>3, <1>4, <2>1 DEF Ready
<1> QED
  BY <1>7, <1>8, <1>9, <1>10, <1>11, <1>12, OneJob DEF JobInv

\* A shuffle file is finished and its location recorded (FinishFile).
LEMMA FinishFileStep ==
  ASSUME Inv, NEW k \in Jobs, FinishFile(k)
  PROVE  Inv'
<1> DEFINE loc == [job |-> k, stage |-> Current(k).id, part |-> handler[k].part,
                   executor |-> ServerId[handler[k].exec]]
           rows == Bucket(k, handler[k].part)
<1>1. TypeOK /\ JobInv(k) /\ handler[k] \in HandlerState
  BY DEF Inv, TypeOK
<1>2. /\ handler[k].pc = "open" /\ handler[k].part < PartitionCount /\ rows # {}
      /\ stage[k] = 1 /\ Current(k).id = 0
  <2>1. handler[k].pc = "open"
    BY DEF FinishFile
  <2>2. handler[k].part < PartitionCount /\ rows # {} /\ stage[k] = 1
    BY <1>1, <2>1 DEF JobInv, HandlerInv
  <2> QED
    BY <1>1, <2>1, <2>2, StageOf
<1>3. /\ files' = [files EXCEPT ![NextFile(k)] = Complete(rows)]
      /\ handler' = [handler EXCEPT ![k].pc = "write", ![k].part = @ + 1, ![k].locs = Append(@, loc)]
      /\ UNCHANGED <<phase, stage, task, locations, locationsByStage, answer, swallowed, up, crashes>>
  BY DEF FinishFile, schedulerVars, resultVars, clusterVars
<1>4. /\ handler[k].exec \in Executors /\ handler[k].part \in Partitions
      /\ NextFile(k) \in FileNames /\ 0 \in Executors
  BY <1>2, WriteTarget, Counts
<1>5. /\ \A j \in Jobs \ {k} : \A e \in Executors, p \in Partitions :
           files'[partition_file(e, j, 0, p)] = files[partition_file(e, j, 0, p)]
      /\ \A e \in Executors, p \in Partitions :
           files'[partition_file(e, k, 0, p)] =
             IF p = handler[k].part /\ ShuffleDir[e] = ShuffleDir[handler[k].exec]
             THEN Complete(rows) ELSE files[partition_file(e, k, 0, p)]
  <2>1. /\ \A f \in FileNames : f # NextFile(k) => files'[f] = files[f]
        /\ files'[NextFile(k)] = Complete(rows)
    BY <1>1, <1>3, <1>4 DEF TypeOK
  <2> QED
    BY <1>2, <2>1, WriteEffect
<1>6. loc \in Location /\ loc.job = k /\ loc.stage = 0 /\ Bucket(k, loc.part) # {}
  BY <1>2, <1>4 DEF Location, StageIds, Ids
<1>7. Append(handler[k].locs, loc) \in Seq(Location) /\ GoodLocations(k, Append(handler[k].locs, loc))
  <2>1. handler[k].locs \in Seq(Location) /\ GoodLocations(k, handler[k].locs)
    BY <1>1 DEF HandlerState, JobInv, LocationsInv
  <2> HIDE DEF loc
  <2> QED
    BY <1>6, <2>1, OneMoreLocation
<1> HIDE DEF loc
<1>8. /\ handler'[k].pc = "write" /\ handler'[k].exec = handler[k].exec
      /\ handler'[k].locs = Append(handler[k].locs, loc) /\ handler'[k].part = handler[k].part + 1
      /\ handler'[k] = [pc |-> "write", exec |-> handler[k].exec, part |-> handler[k].part + 1,
                        locs |-> Append(handler[k].locs, loc)]
      /\ \A j \in Jobs \ {k} : handler'[j] = handler[j]
  BY <1>1, <1>3 DEF TypeOK, HandlerState
<1>9. TypeOK'
  <2>1. handler'[k] \in HandlerState
    BY <1>2, <1>4, <1>7, <1>8, Counts DEF HandlerState, Partitions
  <2>2. handler' \in [Jobs -> HandlerState]
    BY <1>1, <1>3, <1>8, <2>1 DEF TypeOK
  <2>3. Complete(rows) \in FileState
    BY ClusterAssumption DEF FileState, Bucket
  <2>4. files' \in [FileNames -> FileState]
    BY <1>1, <1>3, <2>3 DEF TypeOK
  <2> QED
    BY <1>1, <1>3, <2>2, <2>4 DEF TypeOK
<1>10. OtherJobsUnchanged(k)
  BY <1>3, <1>5, <1>8 DEF OtherJobsUnchanged
<1>11. LocationsInv(k)' /\ HandlerInv(k)'
  BY <1>1, <1>2, <1>3, <1>7, <1>8 DEF JobInv, LocationsInv, HandlerInv
<1>12. StageInv(k)'
  BY <1>1, <1>3 DEF JobInv, StageInv, Current
<1>13. WritingInv(k)'
  <2> SUFFICES ASSUME NEW p \in Partitions, p < handler[k].part + 1, Bucket(k, p) # {}
               PROVE  files'[partition_file(handler[k].exec, k, 0, p)] = Complete(Bucket(k, p))
    BY <1>8 DEF WritingInv, Ready
  <2>1. CASE p = handler[k].part
    BY <1>4, <1>5, <2>1
  <2>2. CASE p # handler[k].part
    <3>1. p < handler[k].part
      BY <1>4, <2>2 DEF Partitions
    <3> QED
      BY <1>1, <1>2, <1>4, <1>5, <2>2, <3>1 DEF JobInv, WritingInv, Ready
  <2> QED
    BY <2>1, <2>2
<1>14. ShuffleInv(k)'
  <2> SUFFICES ASSUME k \in Aggregates, phase[k] # "failed", task[k] > 0 \/ stage[k] = 2,
                      NEW p \in Partitions, Bucket(k, p) # {}
               PROVE  files'[partition_file(0, k, 0, p)] = Complete(Bucket(k, p))
    BY <1>3 DEF ShuffleInv, Ready
  <2>1. CASE p = handler[k].part /\ ShuffleDir[handler[k].exec] = ShuffleDir[0]
    BY <1>4, <1>5, <2>1
  <2>2. CASE ~(p = handler[k].part /\ ShuffleDir[handler[k].exec] = ShuffleDir[0])
    BY <1>1, <1>4, <1>5, <2>2 DEF JobInv, ShuffleInv, Ready
  <2> QED
    BY <2>1, <2>2
<1> QED
  BY <1>9, <1>10, <1>11, <1>12, <1>13, <1>14, OneJob DEF JobInv

\* The final task opens only finished files (the state predicate behind
\* FinalInputsComplete).
LEMMA InputsComplete == Inv => FinalInputsComplete
<1> SUFFICES ASSUME Inv, NEW j \in Jobs, handler[j].pc \in {"check", "read"},
                    NEW i \in DOMAIN handler[j].locs
             PROVE  LET loc == handler[j].locs[i]
                    IN  files[partition_file(handler[j].exec, loc.job, loc.stage, loc.part)]
                          = Complete(Bucket(j, loc.part))
  BY DEF FinalInputsComplete
<1>1. TypeOK /\ JobInv(j) /\ handler[j] \in HandlerState
  BY DEF Inv, TypeOK
<1>2. /\ handler[j].locs \in Seq(Location) /\ i \in 1..Len(handler[j].locs)
      /\ handler[j].locs[i] \in Location
  BY <1>1 DEF HandlerState
<1>3. handler[j].exec = 0 /\ j \in Aggregates /\ stage[j] = 2 /\ phase[j] = "waiting"
  BY <1>1, <1>2 DEF JobInv, HandlerInv
<1>4. /\ handler[j].locs[i].job = j /\ handler[j].locs[i].stage = 0
      /\ Bucket(j, handler[j].locs[i].part) # {}
  BY <1>1, <1>2 DEF JobInv, LocationsInv, GoodLocations
<1>5. handler[j].locs[i].part \in Partitions
  BY <1>2 DEF Location
<1>6. Ready(0, j, handler[j].locs[i].part)
  BY <1>1, <1>3, <1>4, <1>5 DEF JobInv, ShuffleInv
<1> QED
  BY <1>3, <1>4, <1>6 DEF Ready

\* A step of the final task from handler state handler[k] to h.
FinalTaskMoves(k, h) ==
    /\ handler[k].pc \in {"check", "read"} /\ h.pc \in {"read", "end"}
    /\ h \in HandlerState /\ h.exec = 0
    /\ GoodLocations(k, h.locs) /\ (k \notin Aggregates => h.locs = <<>>)
    /\ handler' = [handler EXCEPT ![k] = h]
    /\ answer' \in [Jobs -> [Groups -> Nat]] /\ swallowed' \in [Jobs -> BOOLEAN]
    /\ UNCHANGED <<phase, stage, task, locations, locationsByStage, files, up, crashes>>

\* Such a step preserves the invariant.
LEMMA FinalTaskStep ==
  ASSUME Inv, NEW k \in Jobs, NEW h, FinalTaskMoves(k, h)
  PROVE  Inv'
<1> USE DEF FinalTaskMoves
<1>1. TypeOK /\ JobInv(k)
  BY DEF Inv
<1>2. TypeOK'
  BY <1>1 DEF TypeOK
<1>3. handler'[k] = h /\ \A j \in Jobs \ {k} : handler'[j] = handler[j]
  BY <1>1 DEF TypeOK
<1>4. OtherJobsUnchanged(k)
  BY <1>3 DEF OtherJobsUnchanged
<1>5. LocationsInv(k)' /\ HandlerInv(k)' /\ WritingInv(k)'
  BY <1>1, <1>3 DEF JobInv, LocationsInv, HandlerInv, WritingInv
<1>6. StageInv(k)'
  BY <1>1 DEF JobInv, StageInv, Current
<1>7. ShuffleInv(k)'
  BY <1>1, <1>3 DEF JobInv, ShuffleInv, Ready
<1> QED
  BY <1>2, <1>4, <1>5, <1>6, <1>7, OneJob DEF JobInv

\* The steps of the final task (CheckLocations, ReadPartition, SendBatch,
\* ProduceResult, SourcePanics).
LEMMA ReadingStep ==
  ASSUME Inv, NEW k \in Jobs,
         CheckLocations(k) \/ ReadPartition(k) \/ SendBatch(k) \/ ProduceResult(k) \/ SourcePanics(k)
  PROVE  Inv'
<1> DEFINE lost == [NoHandler EXCEPT !.pc = "end"]
<1>1. TypeOK /\ JobInv(k) /\ handler[k] \in HandlerState
  BY DEF Inv, TypeOK
<1>2. /\ handler[k].pc \in {"check", "read"} /\ handler[k].exec = 0
      /\ GoodLocations(k, handler[k].locs) /\ handler[k].locs \in Seq(Location)
      /\ k \notin Aggregates => handler[k].locs = <<>>
      /\ UNCHANGED <<phase, stage, task, locations, locationsByStage, files, up, crashes>>
  BY <1>1 DEF CheckLocations, ReadPartition, SendBatch, ProduceResult, SourcePanics, schedulerVars,
              clusterVars, JobInv, LocationsInv, HandlerInv, HandlerState
<1>3. CASE Swallow(k)
  <2>1. lost \in HandlerState /\ lost.pc = "end" /\ lost.exec = 0 /\ lost.locs = <<>>
    <3>1. lost = [pc |-> "end", exec |-> 0, part |-> 0, locs |-> <<>>]
      BY DEF NoHandler
    <3> HIDE DEF lost
    <3> QED
      BY <3>1, Counts, NoLocations DEF HandlerState
  <2>2. answer' \in [Jobs -> [Groups -> Nat]] /\ swallowed' \in [Jobs -> BOOLEAN]
    BY <1>1, <1>3 DEF Swallow, TypeOK, Nothing
  <2>3. FinalTaskMoves(k, lost)
    BY <1>2, <1>3, <2>1, <2>2, NoLocations DEF Swallow, FinalTaskMoves
  <2> QED
    BY <2>3, FinalTaskStep
<1>4. CASE CheckLocations(k) /\ ~Swallow(k)
  <2> DEFINE h == [handler[k] EXCEPT !.pc = "read"]
  <2>1. handler' = [handler EXCEPT ![k] = h] /\ UNCHANGED <<answer, swallowed>>
    BY <1>1, <1>4 DEF CheckLocations, TypeOK
  <2>2. h \in HandlerState /\ h.pc = "read" /\ h.exec = 0 /\ h.locs = handler[k].locs
    BY <1>1, <1>2 DEF HandlerState
  <2>3. FinalTaskMoves(k, h)
    BY <1>1, <1>2, <2>1, <2>2 DEF FinalTaskMoves, TypeOK
  <2> QED
    BY <2>3, FinalTaskStep
<1>5. CASE ReadPartition(k) /\ ~Swallow(k)
  <2> DEFINE h == [handler[k] EXCEPT !.locs = Tail(@)]
             loc == Head(handler[k].locs)
             file == files[partition_file(handler[k].exec, loc.job, loc.stage, loc.part)]
  <2>1. /\ handler' = [handler EXCEPT ![k] = h] /\ UNCHANGED swallowed /\ handler[k].locs # <<>>
        /\ handler[k].pc = "read"
        /\ answer' = [answer EXCEPT ![k] =
              [g \in Groups |-> IF g \in file.rows THEN answer[k][g] + 1 ELSE answer[k][g]]]
    BY <1>1, <1>5 DEF ReadPartition, TypeOK
  <2>2. Tail(handler[k].locs) \in Seq(Location) /\ GoodLocations(k, Tail(handler[k].locs))
    BY <1>2, <2>1, FewerLocations
  <2>3. h \in HandlerState /\ h.pc = "read" /\ h.exec = 0 /\ h.locs = Tail(handler[k].locs)
    BY <1>1, <1>2, <2>1, <2>2 DEF HandlerState
  <2>4. answer' \in [Jobs -> [Groups -> Nat]]
    <3> HIDE DEF file
    <3> QED BY <1>1, <2>1 DEF TypeOK
  <2>5. FinalTaskMoves(k, h)
    BY <1>1, <1>2, <2>1, <2>2, <2>3, <2>4 DEF FinalTaskMoves, TypeOK
  <2> QED
    BY <2>5, FinalTaskStep
<1>6. CASE ProduceResult(k)
  <2> DEFINE h == [handler[k] EXCEPT !.pc = "end"]
  <2>1. handler' = [handler EXCEPT ![k] = h] /\ UNCHANGED <<answer, swallowed>>
    BY <1>1, <1>6 DEF ProduceResult, TypeOK, resultVars
  <2>2. h \in HandlerState /\ h.pc = "end" /\ h.exec = 0 /\ h.locs = handler[k].locs
    BY <1>1, <1>2 DEF HandlerState
  <2>3. FinalTaskMoves(k, h)
    BY <1>1, <1>2, <2>1, <2>2 DEF FinalTaskMoves, TypeOK
  <2> QED
    BY <2>3, FinalTaskStep
<1>7. CASE SendBatch(k)
  <2>1. /\ handler' = [handler EXCEPT ![k] = handler[k]] /\ UNCHANGED swallowed
        /\ handler[k].pc = "read"
        /\ \E g \in JobGroups[k] : answer' = [answer EXCEPT ![k][g] = 1]
    BY <1>1, <1>7 DEF SendBatch, TypeOK
  <2>2. answer' \in [Jobs -> [Groups -> Nat]]
    <3>1. PICK g \in JobGroups[k] : answer' = [answer EXCEPT ![k] = [answer[k] EXCEPT ![g] = 1]]
      BY <1>1, <2>1 DEF TypeOK
    <3>2. [answer[k] EXCEPT ![g] = 1] \in [Groups -> Nat]
      BY <1>1 DEF TypeOK
    <3> QED
      BY <1>1, <3>1, <3>2 DEF TypeOK
  <2>3. FinalTaskMoves(k, handler[k])
    BY <1>1, <1>2, <2>1, <2>2 DEF FinalTaskMoves, TypeOK
  <2> QED
    BY <2>3, FinalTaskStep
<1> QED
  BY <1>3, <1>4, <1>5, <1>6, <1>7 DEF SourcePanics

\* The answer returns to the job (FinalReply).
LEMMA FinalReplyStep ==
  ASSUME Inv, NEW k \in Jobs, FinalReply(k)
  PROVE  Inv'
<1>1. TypeOK /\ JobInv(k)
  BY DEF Inv
<1>2. /\ handler[k].pc = "end" /\ phase' = [phase EXCEPT ![k] = "ok"]
      /\ handler' = [handler EXCEPT ![k] = NoHandler]
      /\ UNCHANGED <<stage, task, locations, locationsByStage, answer, swallowed, files, up, crashes>>
  BY DEF FinalReply, resultVars, clusterVars
<1>3. TypeOK'
  BY <1>1, <1>2, NoHandlerType DEF TypeOK
<1>4. OtherJobsUnchanged(k)
  BY <1>1, <1>2 DEF OtherJobsUnchanged, TypeOK
<1>5. handler'[k] = NoHandler /\ phase'[k] = "ok" /\ phase[k] = "waiting"
  BY <1>1, <1>2 DEF TypeOK, JobInv, HandlerInv
<1>6. LocationsInv(k)' /\ StageInv(k)'
  BY <1>1, <1>2, <1>5, NoHandlerType, NoLocations DEF JobInv, LocationsInv, StageInv
<1>7. HandlerInv(k)' /\ WritingInv(k)' /\ ShuffleInv(k)'
  BY <1>1, <1>2, <1>5, NoHandlerType DEF JobInv, HandlerInv, WritingInv, ShuffleInv, Ready
<1> QED
  BY <1>3, <1>4, <1>6, <1>7, OneJob DEF JobInv

\* A server crashes with the RPCs it was handling, or comes back.
LEMMA CrashStep ==
  ASSUME Inv, NEW e \in Executors, Crash(e) \/ Restart(e)
  PROVE  Inv'
<1>1. TypeOK /\ UNCHANGED <<stage, task, locations, locationsByStage, answer, swallowed, files>>
  BY DEF Inv, Crash, Restart, schedulerVars, resultVars
<1>2. up' \in [Executors -> BOOLEAN] /\ crashes' \in 0..MaxCrashes
  <2>1. CASE Crash(e)
    BY <1>1, <2>1, ClusterAssumption DEF TypeOK, Crash
  <2>2. CASE Restart(e)
    BY <1>1, <2>2 DEF TypeOK, Restart
  <2> QED
    BY <2>1, <2>2
<1>3. /\ phase' \in [Jobs -> {"idle", "dispatch", "waiting", "ok", "failed"}]
      /\ handler' \in [Jobs -> HandlerState]
  BY <1>1, NoHandlerType DEF TypeOK, Crash, Restart, schedulerVars
<1>4. TypeOK'
  BY <1>1, <1>2, <1>3 DEF TypeOK
<1>5. ASSUME NEW j \in Jobs PROVE JobInv(j)'
  <2>1. \/ handler'[j] = handler[j] /\ phase'[j] = phase[j]
        \/ handler'[j] = NoHandler /\ phase'[j] = phase[j] /\ handler[j].pc = "none"
        \/ handler'[j] = NoHandler /\ phase'[j] = "failed"
    BY DEF Crash, Restart, schedulerVars
  <2>2. JobInv(j)
    BY DEF Inv
  <2>3. LocationsInv(j)' /\ HandlerInv(j)'
    BY <1>1, <2>1, <2>2, NoHandlerType, NoLocations DEF JobInv, LocationsInv, HandlerInv
  <2>4. StageInv(j)'
    BY <1>1, <2>1, <2>2 DEF JobInv, StageInv, Current
  <2>5. WritingInv(j)' /\ ShuffleInv(j)'
    BY <1>1, <2>1, <2>2, NoHandlerType DEF JobInv, WritingInv, ShuffleInv, Ready
  <2> QED
    BY <2>3, <2>4, <2>5 DEF JobInv
<1> QED
  BY <1>4, <1>5 DEF Inv

-------------------------------------------------------------------------------
\* Every operation of the scheduler, the servers and the cluster preserves the
\* invariant.
LEMMA NextStep == Inv /\ [Next]_vars => Inv'
<1> SUFFICES ASSUME Inv, [Next]_vars PROVE Inv'
  OBVIOUS
<1>1. ASSUME NEW j \in Jobs, Submit(j) \/ DispatchFails(j) \/ HandlerPanics(j) PROVE Inv'
  BY <1>1, SimpleStep
<1>2. ASSUME NEW j \in Jobs, Dispatch(j) \/ FinishStage(j) PROVE Inv'
  BY <1>2, DispatchStep, FinishStageStep
<1>3. ASSUME NEW j \in Jobs, Writing(j) PROVE Inv'
  BY <1>3, SkipStep, CreateFileStep, FinishFileStep, TaskReplyStep DEF Writing
<1>4. ASSUME NEW j \in Jobs, Reading(j) \/ SourcePanics(j) PROVE Inv'
  BY <1>4, ReadingStep, FinalReplyStep DEF Reading
<1>5. ASSUME NEW e \in Executors, Crash(e) \/ Restart(e) PROVE Inv'
  BY <1>5, CrashStep
<1>6. CASE UNCHANGED vars
  <2>1. TypeOK'
    BY <1>6 DEF Inv, TypeOK, vars
  <2>2. ASSUME NEW j \in Jobs PROVE JobInv(j)'
    <3>1. JobInv(j) /\ Current(j)' = Current(j)
      BY <1>6 DEF Inv, Current, vars
    <3> QED
      BY <1>6, <3>1 DEF JobInv, LocationsInv, StageInv, HandlerInv, WritingInv, ShuffleInv, Ready, vars
  <2> QED
    BY <2>1, <2>2 DEF Inv
<1> QED
  BY <1>1, <1>2, <1>3, <1>4, <1>5, <1>6 DEF Next, Scheduling

\* The invariant holds of every reachable state of the cluster.
THEOREM Invariance == Spec => []Inv
  BY InitInv, NextStep, PTL DEF Spec

\* Every variable of the scheduler, the servers and the files keeps its type.
THEOREM TypeCorrect == Spec => []TypeOK
<1>1. Inv => TypeOK
  BY DEF Inv
<1> QED
  BY <1>1, Invariance, PTL

\* The scheduler's check that a stage's dependencies have completed never fails.
THEOREM StagesInOrder == Spec => []StageOrder
<1>1. Inv => StageOrder
  <2> SUFFICES ASSUME Inv, NEW j \in Jobs PROVE DependenciesDone(j)
    BY DEF StageOrder
  <2>1. TypeOK /\ JobInv(j)
    BY DEF Inv
  <2>2. Current(j).dependencies = (IF stage[j] = 2 THEN {0} ELSE {})
    BY <2>1, StageOf
  <2>3. stage[j] = 2 => locationsByStage[j][0].done
    BY <2>1 DEF JobInv, StageInv
  <2> QED
    BY <2>2, <2>3 DEF DependenciesDone
<1> QED
  BY <1>1, Invariance, PTL

\* read_partition of a final task always finds a finished file with the rows of
\* its partition.
THEOREM FinalTaskInputs == Spec => []FinalInputsComplete
  BY InputsComplete, Invariance, PTL

\* No server writes a file of a job whose final task is running.
THEOREM FilesStable == Spec => FilesStableWhileRead
<1> DEFINE Stable == \A j \in Jobs : handler[j].pc \in {"check", "read"} =>
                       \A f \in FileNames : f[2] = j => files'[f] = files[f]
<1>1. Inv /\ [Next]_vars => [Stable]_files
  <2> SUFFICES ASSUME Inv, [Next]_vars, files' # files PROVE Stable
    OBVIOUS
  <2>1. PICK k \in Jobs : CreateFile(k) \/ FinishFile(k)
    BY DEF Next, Submit, Scheduling, Dispatch, DispatchFails, FinishStage, Writing, SkipEmptyPartition,
           TaskReply, Reading, CheckLocations, ReadPartition, SendBatch, ProduceResult, FinalReply,
           HandlerPanics, SourcePanics, Crash, Restart, vars
  <2>2. handler[k].pc \in {"write", "open"} /\ handler[k].part < PartitionCount
    BY <2>1 DEF CreateFile, FinishFile, Inv, JobInv, HandlerInv
  <2>3. NextFile(k) \in FileNames /\ NextFile(k)[2] = k
    BY <2>2, WriteTarget DEF partition_file
  <2>4. \A f \in FileNames : f # NextFile(k) => files'[f] = files[f]
    BY <2>1 DEF CreateFile, FinishFile, Inv, TypeOK
  <2> QED
    BY <2>2, <2>3, <2>4
<1> QED
  BY <1>1, Invariance, PTL DEF Spec, FilesStableWhileRead
===============================================================================
