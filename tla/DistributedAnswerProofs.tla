------------------------ MODULE DistributedAnswerProofs ------------------------
(***************************************************************************)
(* TLAPS proofs about what DistributedQuery's jobs return, for any number  *)
(* of jobs, groups, executors, partitions and crashes.                     *)
(*                                                                         *)
(* The argument counts.  A task of stage 0 names every non-empty partition *)
(* once, so n replies name it n times; every location that the final task  *)
(* reads moves one occurrence of its partition into the answer of the      *)
(* groups that hash to it, and nothing else changes an aggregate's answer. *)
(* The servers that the locations name are those of the tasks that replied, *)
(* which decides whether the final task refuses to read.  A plan without   *)
(* shuffle has sent each of its batches at most once, whenever it panics.  *)
(* With this the jobs implement QueryJobs, in which each job answers as if *)
(* it were alone.                                                          *)
(***************************************************************************)
EXTENDS DistributedQueryProofs, FiniteSets, FiniteSetTheorems

\* How often partition p is named.
Occurrences(locs, p) == Cardinality({i \in 1..Len(locs) : locs[i].part = p})

\* The servers that are named.
Named(locs) == {locs[i].executor : i \in 1..Len(locs)}

\* The servers that n tasks of job j name, if its shuffle has rows at all.
NamedBy(j, n) == IF JobGroups[j] = {} THEN {} ELSE {ServerId[t % NumExecutors] : t \in 0..(n - 1)}

\* locs is what n tasks of job j together report.
ReportedBy(j, n, locs) ==
    /\ \A p \in Partitions : Bucket(j, p) # {} => Occurrences(locs, p) = n
    /\ Named(locs) = NamedBy(j, n)

\* Each task names every non-empty partition once ...
CountInv(j) ==
    j \in Aggregates =>
      /\ stage[j] = 1 => ReportedBy(j, task[j], locations[j])
      /\ stage[j] = 2 => ReportedBy(j, PartitionCount, locationsByStage[j][0].locs)
      /\ handler[j].pc = "check" => ReportedBy(j, PartitionCount, handler[j].locs)
      /\ handler[j].pc \in {"write", "open"} =>
           /\ \A p \in Partitions : Bucket(j, p) # {} =>
                Occurrences(handler[j].locs, p) = IF p < handler[j].part THEN 1 ELSE 0
           /\ Named(handler[j].locs) \subseteq {ServerId[handler[j].exec]}

\* ... and what is merged and what is yet to be read add up.
ReadInv(j) ==
    handler[j].pc = "read" =>
      /\ ~swallowed[j]
      /\ \A g \in Groups \ JobGroups[j] : answer[j][g] = 0
      /\ j \notin Aggregates => answer[j] \in Remains(j)
      /\ j \in Aggregates =>
           /\ ~CrossesExecutors(j)
           /\ \A p \in Partitions : \A g \in Bucket(j, p) :
                answer[j][g] + Occurrences(handler[j].locs, p) = PartitionCount

\* The answer is empty before the final task reads and settled afterwards: whole, or
\* what a swallowed panic leaves of it.
AnswerInv(j) ==
    /\ phase[j] \in {"idle", "dispatch"} \/ handler[j].pc \in {"write", "open", "check"} =>
         answer[j] = Nothing /\ ~swallowed[j]
    /\ phase[j] = "ok" \/ handler[j].pc = "end" =>
         /\ answer[j] \in IF swallowed[j] THEN Remains(j) ELSE {Merged(j)}
         /\ j \in Aggregates => (swallowed[j] <=> CrossesExecutors(j))

ResultInv(j) == CountInv(j) /\ ReadInv(j) /\ AnswerInv(j)

-------------------------------------------------------------------------------
(* Counting locations. *)

\* The places at which a sequence of locations names partition p.
Places(locs, p) == {i \in 1..Len(locs) : locs[i].part = p}

\* They are finitely many.
LEMMA PlacesFinite ==
  ASSUME NEW s \in Seq(Location), NEW p
  PROVE  /\ IsFiniteSet(Places(s, p)) /\ Places(s, p) \in SUBSET Nat
         /\ Occurrences(s, p) = Cardinality(Places(s, p))
         /\ Occurrences(s, p) \in Nat
<1>1. IsFiniteSet(1..Len(s))
  BY FS_Interval
<1>2. IsFiniteSet(Places(s, p))
  BY <1>1, FS_Subset, Places(s, p) \subseteq 1..Len(s) DEF Places
<1> QED
  BY <1>2, FS_CardinalityType DEF Places, Occurrences

\* Moving a set of places along a sequence does not change their number.
LEMMA ShiftedPlaces ==
  ASSUME NEW S \in SUBSET Nat, IsFiniteSet(S), NEW n \in Nat
  PROVE  IsFiniteSet({i + n : i \in S}) /\ Cardinality({i + n : i \in S}) = Cardinality(S)
<1> DEFINE T == {i + n : i \in S}
           f == [i \in S |-> i + n]
<1>1. f \in Bijection(S, T)
  BY DEF Bijection, Injection, Surjection, IsInjective
<1>2. ExistsBijection(S, T)
  BY <1>1 DEF ExistsBijection
<1> QED
  BY <1>2, FS_Bijection

\* Nothing is named in an empty sequence.
LEMMA NothingNamed ==
  ASSUME NEW p
  PROVE  Occurrences(<<>>, p) = 0 /\ Named(<<>>) = {}
  BY FS_EmptySet DEF Occurrences, Named

\* One more location is counted for its partition only.
LEMMA OneMoreNamed ==
  ASSUME NEW s \in Seq(Location), NEW l \in Location, NEW p
  PROVE  /\ Occurrences(Append(s, l), p) = Occurrences(s, p) + (IF l.part = p THEN 1 ELSE 0)
         /\ Named(Append(s, l)) = Named(s) \cup {l.executor}
<1>1. /\ Append(s, l) \in Seq(Location) /\ Len(Append(s, l)) = Len(s) + 1
      /\ \A i \in 1..Len(s) : Append(s, l)[i] = s[i]
      /\ Append(s, l)[Len(s) + 1] = l
  BY AppendProperties
<1>2. Places(Append(s, l), p) = Places(s, p) \cup (IF l.part = p THEN {Len(s) + 1} ELSE {})
  BY <1>1 DEF Places
<1>3. Len(s) + 1 \notin Places(s, p)
  BY DEF Places
<1>4. Occurrences(Append(s, l), p) = Occurrences(s, p) + (IF l.part = p THEN 1 ELSE 0)
  <2>1. /\ IsFiniteSet(Places(s, p)) /\ Occurrences(s, p) = Cardinality(Places(s, p))
        /\ Occurrences(s, p) \in Nat
    BY PlacesFinite
  <2>2. Occurrences(Append(s, l), p) = Cardinality(Places(Append(s, l), p))
    BY <1>1, PlacesFinite
  <2>3. Cardinality(Places(s, p) \cup {Len(s) + 1}) = Cardinality(Places(s, p)) + 1
    BY <1>3, <2>1, FS_AddElement
  <2>4. CASE l.part = p
    BY <1>2, <2>1, <2>2, <2>3, <2>4
  <2>5. CASE l.part # p
    <3>1. Places(Append(s, l), p) = Places(s, p)
      BY <1>2, <2>5
    <3> QED
      BY <2>1, <2>2, <2>5, <3>1
  <2> QED
    BY <2>4, <2>5
<1>5. Named(Append(s, l)) = Named(s) \cup {l.executor}
  BY <1>1 DEF Named
<1> QED
  BY <1>4, <1>5

\* Two replies together name what each of them names.
LEMMA NamedTogether ==
  ASSUME NEW s \in Seq(Location), NEW t \in Seq(Location), NEW p
  PROVE  /\ Occurrences(s \o t, p) = Occurrences(s, p) + Occurrences(t, p)
         /\ Named(s \o t) = Named(s) \cup Named(t)
<1> DEFINE moved == {i + Len(s) : i \in Places(t, p)}
<1>1. /\ s \o t \in Seq(Location)
      /\ Len(s \o t) = Len(s) + Len(t)
      /\ \A i \in 1..(Len(s) + Len(t)) :
           (s \o t)[i] = IF i <= Len(s) THEN s[i] ELSE t[i - Len(s)]
  BY ConcatProperties
<1>a. \A i \in 1..Len(s) : i \in 1..Len(s \o t) /\ (s \o t)[i] = s[i]
  BY <1>1
<1>b. \A i \in 1..Len(t) : i + Len(s) \in 1..Len(s \o t) /\ (s \o t)[i + Len(s)] = t[i]
  BY <1>1
<1>c. \A i \in 1..Len(s \o t) : i \in 1..Len(s) \/ \E m \in 1..Len(t) : i = m + Len(s)
  <2> TAKE i \in 1..Len(s \o t)
  <2>1. CASE i > Len(s)
    <3>1. i - Len(s) \in 1..Len(t) /\ i = (i - Len(s)) + Len(s)
      BY <1>1, <2>1
    <3> QED
      BY <3>1
  <2> QED
    BY <2>1
<1>2. Places(s \o t, p) = Places(s, p) \cup moved
  <2>1. Places(s \o t, p) \subseteq Places(s, p) \cup moved
    BY <1>a, <1>b, <1>c DEF Places
  <2>2. Places(s, p) \cup moved \subseteq Places(s \o t, p)
    BY <1>a, <1>b DEF Places
  <2> QED
    BY <2>1, <2>2
<1>3. Places(s, p) \cap moved = {}
  BY DEF Places
<1>4. IsFiniteSet(moved) /\ Cardinality(moved) = Occurrences(t, p)
  <2>1. /\ IsFiniteSet(Places(t, p)) /\ Places(t, p) \in SUBSET Nat
        /\ Occurrences(t, p) = Cardinality(Places(t, p))
    BY PlacesFinite
  <2>2. Len(s) \in Nat
    OBVIOUS
  <2> QED
    BY <2>1, <2>2, ShiftedPlaces
<1>5. Occurrences(s \o t, p) = Occurrences(s, p) + Occurrences(t, p)
  <2> HIDE DEF moved
  <2>1. /\ IsFiniteSet(Places(s, p)) /\ Cardinality(Places(s, p)) = Occurrences(s, p)
        /\ Occurrences(s, p) \in Nat /\ Occurrences(t, p) \in Nat
    BY PlacesFinite
  <2>3. Occurrences(s \o t, p) = Cardinality(Places(s \o t, p))
    BY <1>1, PlacesFinite
  <2>2. Cardinality(Places(s, p) \cup moved) = Cardinality(Places(s, p)) + Cardinality(moved) - 0
    BY <1>3, <1>4, <2>1, FS_Union, FS_EmptySet
  <2> QED
    BY <1>2, <1>4, <2>1, <2>2, <2>3
<1>6. Named(s \o t) = Named(s) \cup Named(t)
  <2>1. Named(s \o t) \subseteq Named(s) \cup Named(t)
    BY <1>a, <1>b, <1>c DEF Named
  <2>2. Named(s) \cup Named(t) \subseteq Named(s \o t)
    BY <1>a, <1>b DEF Named
  <2> QED
    BY <2>1, <2>2
<1> QED
  BY <1>5, <1>6

\* Reading the first location leaves the others to be counted.
LEMMA OneLessNamed ==
  ASSUME NEW s \in Seq(Location), s # <<>>, NEW p
  PROVE  Occurrences(s, p) = Occurrences(Tail(s), p) + (IF Head(s).part = p THEN 1 ELSE 0)
<1>1. /\ Head(s) \in Location /\ Tail(s) \in Seq(Location) /\ Len(Tail(s)) = Len(s) - 1
      /\ \A i \in 1..Len(Tail(s)) : Tail(s)[i] = s[i + 1]
  BY HeadTailProperties
<1>2. Len(s) \in Nat \ {0} /\ Head(s) = s[1]
  OBVIOUS
<1> DEFINE moved == {i + 1 : i \in Places(Tail(s), p)}
<1>3. Places(s, p) = moved \cup (IF Head(s).part = p THEN {1} ELSE {})
  <2>1. \A i \in 1..Len(s) : i = 1 \/ \E m \in 1..Len(Tail(s)) : i = m + 1
    <3> TAKE i \in 1..Len(s)
    <3>1. CASE i # 1
      <4>1. i - 1 \in 1..Len(Tail(s)) /\ i = (i - 1) + 1
        BY <1>1, <1>2, <3>1
      <4> QED
        BY <4>1
    <3> QED
      BY <3>1
  <2>2. \A m \in 1..Len(Tail(s)) : m + 1 \in 1..Len(s) /\ m + 1 # 1
    BY <1>1, <1>2
  <2>3. 1 \in 1..Len(s)
    BY <1>2
  <2>4. Places(s, p) \subseteq moved \cup (IF Head(s).part = p THEN {1} ELSE {})
    BY <1>1, <1>2, <2>1 DEF Places
  <2>5. moved \cup (IF Head(s).part = p THEN {1} ELSE {}) \subseteq Places(s, p)
    BY <1>1, <1>2, <2>2, <2>3 DEF Places
  <2> QED
    BY <2>4, <2>5
<1>4. 1 \notin moved
  BY DEF Places
<1>5. IsFiniteSet(moved) /\ Cardinality(moved) = Occurrences(Tail(s), p)
  <2>1. /\ IsFiniteSet(Places(Tail(s), p)) /\ Places(Tail(s), p) \in SUBSET Nat
        /\ Occurrences(Tail(s), p) = Cardinality(Places(Tail(s), p))
    BY <1>1, PlacesFinite
  <2> QED
    BY <2>1, ShiftedPlaces
<1>6. Occurrences(s, p) = Cardinality(Places(s, p)) /\ Occurrences(Tail(s), p) \in Nat
  BY <1>1, PlacesFinite
<1> HIDE DEF moved
<1>7. Cardinality(moved \cup {1}) = Cardinality(moved) + 1
  BY <1>4, <1>5, FS_AddElement
<1> QED
  BY <1>3, <1>5, <1>6, <1>7

-------------------------------------------------------------------------------
(* Facts about partitions. *)

\* A group hashes to exactly one partition.
LEMMA GroupPartition ==
  ASSUME NEW j \in Jobs, NEW g \in JobGroups[j]
  PROVE  /\ g \in Groups
         /\ Hash[g] % PartitionCount \in Partitions
         /\ g \in Bucket(j, Hash[g] % PartitionCount)
         /\ \A p : g \in Bucket(j, p) => p = Hash[g] % PartitionCount
<1>1. g \in Groups /\ Hash[g] \in Nat
  BY ClusterAssumption
<1>2. Hash[g] % PartitionCount \in Partitions
  BY <1>1, Counts DEF Partitions
<1> QED
  BY <1>1, <1>2 DEF Bucket

\* A job without groups has only empty partitions, and then no locations.
LEMMA NoGroups ==
  ASSUME NEW j \in Jobs, JobGroups[j] = {}, NEW s \in Seq(Location), GoodLocations(j, s)
  PROVE  Named(s) = {}
  BY DEF GoodLocations, Bucket, Named

\* One more task names its own server.
LEMMA OneMoreTask ==
  ASSUME NEW j \in Jobs, NEW n \in Nat
  PROVE  NamedBy(j, n + 1) =
           NamedBy(j, n) \cup (IF JobGroups[j] = {} THEN {} ELSE {ServerId[n % NumExecutors]})
<1>1. 0..(n + 1 - 1) = (0..(n - 1)) \cup {n}
  OBVIOUS
<1> QED
  BY <1>1 DEF NamedBy

\* A remote location exists exactly when the shuffle crosses executors.
LEMMA RemoteLocation ==
  ASSUME NEW j \in Jobs, NEW s \in Seq(Location), ReportedBy(j, PartitionCount, s)
  PROVE  CrossesExecutors(j) <=> \E i \in DOMAIN s : s[i].executor # ServerId[0]
<1>1. (\E i \in DOMAIN s : s[i].executor # ServerId[0]) <=> \E e \in Named(s) : e # ServerId[0]
  <2>1. DOMAIN s = 1..Len(s)
    OBVIOUS
  <2> QED
    BY ONLY <2>1, Zenon DEF Named
<1>2. Named(s) = NamedBy(j, PartitionCount)
  BY DEF ReportedBy
<1> QED
  BY <1>1, <1>2 DEF NamedBy, CrossesExecutors, Partitions

\* Some of the batches of a plan without a root aggregate may remain of its result.
LEMMA SomeRemain ==
  ASSUME NEW j \in Jobs, j \notin Aggregates, NEW sent \in SUBSET JobGroups[j]
  PROVE  [g \in Groups |-> IF g \in sent THEN 1 ELSE 0] \in Remains(j)
  BY Zenon DEF Remains

\* A panic before the first batch leaves nothing of any job.
LEMMA NothingRemains ==
  ASSUME NEW j \in Jobs
  PROVE  Nothing \in Remains(j)
<1>1. CASE j \in Aggregates
  BY <1>1 DEF Remains
<1>2. CASE j \notin Aggregates
  <2>1. Nothing = [g \in Groups |-> IF g \in {} THEN 1 ELSE 0]
    BY DEF Nothing
  <2>2. {} \in SUBSET JobGroups[j]
    OBVIOUS
  <2>3. [g \in Groups |-> IF g \in {} THEN 1 ELSE 0] \in Remains(j)
    BY ONLY <1>2, <2>2, SomeRemain, j \in Jobs
  <2> QED
    BY <2>1, <2>3
<1> QED
  BY <1>1, <1>2

\* All of them are sent when nothing goes wrong.
LEMMA MergedRemains ==
  ASSUME NEW j \in Jobs, j \notin Aggregates
  PROVE  Merged(j) \in Remains(j)
<1>1. Merged(j) = [g \in Groups |-> IF g \in JobGroups[j] THEN 1 ELSE 0]
  BY DEF Merged
<1>2. [g \in Groups |-> IF g \in JobGroups[j] THEN 1 ELSE 0] \in Remains(j)
  BY SomeRemain
<1> QED
  BY <1>1, <1>2

-------------------------------------------------------------------------------
(* Steps of one job. *)

Results == \A j \in Jobs : ResultInv(j)

\* A step of job k leaves what ResultInv says of the other jobs alone.
KeepsOthers(k) ==
    \A j \in Jobs \ {k} :
        /\ phase'[j] = phase[j] /\ stage'[j] = stage[j] /\ task'[j] = task[j]
        /\ locations'[j] = locations[j] /\ locationsByStage'[j] = locationsByStage[j]
        /\ handler'[j] = handler[j] /\ answer'[j] = answer[j] /\ swallowed'[j] = swallowed[j]

\* What is left to show of a step of job k.
LEMMA OneResult ==
  ASSUME Results, NEW k \in Jobs, KeepsOthers(k), ResultInv(k)'
  PROVE  Results'
<1> SUFFICES ASSUME NEW j \in Jobs, j # k PROVE ResultInv(j)'
  BY DEF Results
<1>1. /\ phase'[j] = phase[j] /\ stage'[j] = stage[j] /\ task'[j] = task[j]
      /\ locations'[j] = locations[j] /\ locationsByStage'[j] = locationsByStage[j]
      /\ handler'[j] = handler[j] /\ answer'[j] = answer[j] /\ swallowed'[j] = swallowed[j]
  BY DEF KeepsOthers
<1>2. ResultInv(j)
  BY DEF Results
<1> QED
  BY <1>1, <1>2 DEF ResultInv, CountInv, ReadInv, AnswerInv

\* What the invariants say of the job that takes the step.
LEMMA JobFacts ==
  ASSUME Inv, Results, NEW k \in Jobs
  PROVE  /\ TypeOK /\ JobInv(k) /\ handler[k] \in HandlerState /\ handler[k].locs \in Seq(Location)
         /\ CountInv(k) /\ ReadInv(k) /\ AnswerInv(k)
         /\ answer[k] \in [Groups -> Nat] /\ swallowed[k] \in BOOLEAN
  BY DEF Inv, Results, ResultInv, TypeOK, HandlerState

\* Job k submits, fails or its server panics.
LEMMA SimpleResult ==
  ASSUME Inv, Results, NEW k \in Jobs, Submit(k) \/ DispatchFails(k) \/ HandlerPanics(k)
  PROVE  Results'
<1>1. TypeOK /\ JobInv(k) /\ CountInv(k) /\ ReadInv(k) /\ AnswerInv(k)
  BY JobFacts
<1>2. /\ UNCHANGED <<stage, task, locations, locationsByStage, answer, swallowed>>
      /\ \/ phase[k] = "idle" /\ phase' = [phase EXCEPT ![k] = "dispatch"] /\ handler' = handler
         \/ phase[k] = "dispatch" /\ phase' = [phase EXCEPT ![k] = "failed"] /\ handler' = handler
         \/ phase' = [phase EXCEPT ![k] = "failed"] /\ handler' = [handler EXCEPT ![k] = NoHandler]
  BY DEF Submit, DispatchFails, HandlerPanics, resultVars, clusterVars
<1>3. KeepsOthers(k)
  BY <1>1, <1>2 DEF KeepsOthers, TypeOK
<1>4. /\ handler'[k].pc = "none"
      /\ phase'[k] = "failed" \/ (phase[k] = "idle" /\ phase'[k] = "dispatch")
  BY <1>1, <1>2, NoHandlerType DEF TypeOK, JobInv, HandlerInv
<1>5. CountInv(k)'
  BY <1>1, <1>2, <1>4 DEF CountInv
<1>6. ReadInv(k)' /\ AnswerInv(k)'
  BY <1>1, <1>2, <1>4 DEF ReadInv, AnswerInv
<1> QED
  BY <1>3, <1>5, <1>6, OneResult DEF ResultInv

\* An RPC of job k reaches its server (Dispatch).
LEMMA DispatchResult ==
  ASSUME Inv, Results, NEW k \in Jobs, Dispatch(k)
  PROVE  Results'
<1>1. TypeOK /\ JobInv(k) /\ CountInv(k) /\ ReadInv(k) /\ AnswerInv(k)
  BY JobFacts
<1>2. /\ phase[k] = "dispatch" /\ phase' = [phase EXCEPT ![k] = "waiting"]
      /\ UNCHANGED <<stage, task, locations, locationsByStage, answer, swallowed>>
      /\ handler' = [handler EXCEPT ![k] =
           [pc |-> IF Current(k).is_final_stage THEN "check" ELSE "write",
            exec |-> Target(k), part |-> 0, locs |-> InputLocations(k)]]
  BY DEF Dispatch, resultVars
<1>3. KeepsOthers(k)
  BY <1>1, <1>2 DEF KeepsOthers, TypeOK
<1>4. /\ phase'[k] = "waiting" /\ handler'[k].part = 0 /\ handler'[k].locs = InputLocations(k)
      /\ handler'[k].pc = IF Current(k).is_final_stage THEN "check" ELSE "write"
  BY <1>1, <1>2 DEF TypeOK
<1>5. CountInv(k)'
  <2> SUFFICES ASSUME k \in Aggregates PROVE CountInv(k)'
    BY DEF CountInv
  <2>1. CASE Current(k).is_final_stage
    <3>1. stage[k] = 2
      BY <1>1, <2>1, StageOf
    <3>2. InputLocations(k) = locationsByStage[k][0].locs
      BY <1>1, <3>1, StageOf DEF InputLocations
    <3> QED
      BY <1>1, <1>2, <1>4, <2>1, <3>1, <3>2 DEF CountInv
  <2>2. CASE ~Current(k).is_final_stage
    <3>1. stage[k] = 1
      BY <1>1, <2>2, StageOf
    <3>2. InputLocations(k) = <<>>
      BY <1>1, <3>1, StageOf DEF InputLocations
    <3>3. \A p \in Partitions : Occurrences(InputLocations(k), p) = IF p < 0 THEN 1 ELSE 0
      BY <3>2, NothingNamed DEF Partitions
    <3>4. Named(InputLocations(k)) = {}
      BY <3>2, NothingNamed
    <3> QED
      BY <1>1, <1>2, <1>4, <2>2, <3>1, <3>3, <3>4 DEF CountInv
  <2> QED
    BY <2>1, <2>2
<1>6. ReadInv(k)' /\ AnswerInv(k)'
  BY <1>1, <1>2, <1>4 DEF ReadInv, AnswerInv
<1> QED
  BY <1>3, <1>5, <1>6, OneResult DEF ResultInv

\* All tasks of stage 0 have replied (FinishStage).
LEMMA FinishStageResult ==
  ASSUME Inv, Results, NEW k \in Jobs, FinishStage(k)
  PROVE  Results'
<1>1. TypeOK /\ JobInv(k) /\ CountInv(k) /\ ReadInv(k) /\ AnswerInv(k) /\ phase[k] = "dispatch"
  BY JobFacts DEF FinishStage
<1>2. k \in Aggregates /\ stage[k] = 1 /\ Current(k).id = 0 /\ task[k] = PartitionCount
  BY <1>1, StageOf DEF FinishStage
<1>3. /\ locationsByStage' = [locationsByStage EXCEPT ![k][0] = [done |-> TRUE, locs |-> locations[k]]]
      /\ stage' = [stage EXCEPT ![k] = 2]
      /\ task' = [task EXCEPT ![k] = 0]
      /\ locations' = [locations EXCEPT ![k] = <<>>]
      /\ UNCHANGED <<phase, handler, answer, swallowed>>
  BY <1>2 DEF FinishStage, resultVars
<1>4. KeepsOthers(k)
  BY <1>1, <1>3 DEF KeepsOthers, TypeOK
<1>5. stage'[k] = 2 /\ locationsByStage'[k][0].locs = locations[k] /\ handler[k].pc = "none"
  BY <1>1, <1>3 DEF TypeOK, StageIds, JobInv, HandlerInv
<1>6. CountInv(k)'
  BY <1>1, <1>2, <1>3, <1>5 DEF CountInv
<1>7. ReadInv(k)' /\ AnswerInv(k)'
  BY <1>1, <1>3 DEF ReadInv, AnswerInv
<1> QED
  BY <1>4, <1>6, <1>7, OneResult DEF ResultInv

\* A server passes over an empty partition, or creates a file.
LEMMA WriteResult ==
  ASSUME Inv, Results, NEW k \in Jobs, SkipEmptyPartition(k) \/ CreateFile(k)
  PROVE  Results'
<1>1. /\ TypeOK /\ JobInv(k) /\ CountInv(k) /\ ReadInv(k) /\ AnswerInv(k)
      /\ handler[k] \in HandlerState /\ handler[k].pc = "write"
  BY JobFacts DEF SkipEmptyPartition, CreateFile
<1>2. UNCHANGED <<phase, stage, task, locations, locationsByStage, answer, swallowed>>
  BY DEF SkipEmptyPartition, CreateFile, schedulerVars, resultVars
<1>3. /\ handler' = [handler EXCEPT ![k] = handler'[k]]
      /\ handler'[k].locs = handler[k].locs /\ handler'[k].exec = handler[k].exec
      /\ handler'[k].pc \in {"write", "open"}
      /\ \/ handler'[k].part = handler[k].part
         \/ handler'[k].part = handler[k].part + 1 /\ Bucket(k, handler[k].part) = {}
  BY <1>1 DEF SkipEmptyPartition, CreateFile, TypeOK, HandlerState
<1>4. KeepsOthers(k)
  BY <1>1, <1>2, <1>3 DEF KeepsOthers, TypeOK
<1>5. \A p \in Partitions : Bucket(k, p) # {} => (p < handler'[k].part <=> p < handler[k].part)
  BY <1>1, <1>3 DEF HandlerState, Partitions
<1>6. CountInv(k)'
  BY <1>1, <1>2, <1>3, <1>5 DEF CountInv
<1>7. ReadInv(k)' /\ AnswerInv(k)'
  BY <1>1, <1>2, <1>3 DEF ReadInv, AnswerInv, JobInv, HandlerInv
<1> QED
  BY <1>4, <1>6, <1>7, OneResult DEF ResultInv

\* A server finishes a file and names it (FinishFile).
LEMMA FinishFileResult ==
  ASSUME Inv, Results, NEW k \in Jobs, FinishFile(k)
  PROVE  Results'
<1> DEFINE loc == [job |-> k, stage |-> Current(k).id, part |-> handler[k].part,
                   executor |-> ServerId[handler[k].exec]]
<1>1. /\ TypeOK /\ JobInv(k) /\ CountInv(k) /\ ReadInv(k) /\ AnswerInv(k)
      /\ handler[k] \in HandlerState /\ handler[k].locs \in Seq(Location) /\ handler[k].pc = "open"
  BY JobFacts DEF FinishFile
<1>2. /\ UNCHANGED <<phase, stage, task, locations, locationsByStage, answer, swallowed>>
      /\ handler' = [handler EXCEPT ![k].pc = "write", ![k].part = @ + 1, ![k].locs = Append(@, loc)]
  BY DEF FinishFile, schedulerVars, resultVars
<1>3. KeepsOthers(k)
  BY <1>1, <1>2 DEF KeepsOthers, TypeOK
<1>4. /\ k \in Aggregates /\ stage[k] = 1 /\ handler[k].part \in Partitions
      /\ handler[k].exec \in Executors /\ phase[k] = "waiting"
  BY <1>1, Counts DEF JobInv, HandlerInv, HandlerState, Partitions
<1>5. loc \in Location /\ loc.part = handler[k].part /\ loc.executor = ServerId[handler[k].exec]
  BY <1>1, <1>4, StageOf DEF Location, StageIds, Ids
<1> HIDE DEF loc
<1>6. /\ handler'[k].pc = "write" /\ handler'[k].part = handler[k].part + 1
      /\ handler'[k].locs = Append(handler[k].locs, loc) /\ handler'[k].exec = handler[k].exec
  BY <1>1, <1>2 DEF TypeOK, HandlerState
<1>7. ASSUME NEW p \in Partitions, Bucket(k, p) # {}
      PROVE  Occurrences(Append(handler[k].locs, loc), p) = IF p < handler[k].part + 1 THEN 1 ELSE 0
  <2>1. Occurrences(handler[k].locs, p) = IF p < handler[k].part THEN 1 ELSE 0
    BY <1>1, <1>4, <1>7 DEF CountInv
  <2>2. Occurrences(Append(handler[k].locs, loc), p) =
          Occurrences(handler[k].locs, p) + (IF handler[k].part = p THEN 1 ELSE 0)
    BY <1>1, <1>5, OneMoreNamed
  <2> QED
    BY <1>4, <2>1, <2>2 DEF Partitions
<1>8. Named(Append(handler[k].locs, loc)) \subseteq {ServerId[handler[k].exec]}
  BY <1>1, <1>4, <1>5, OneMoreNamed DEF CountInv
<1>9. CountInv(k)'
  BY <1>1, <1>2, <1>4, <1>6, <1>7, <1>8 DEF CountInv
<1>10. ReadInv(k)' /\ AnswerInv(k)'
  BY <1>1, <1>2, <1>4, <1>6 DEF ReadInv, AnswerInv
<1> QED
  BY <1>3, <1>9, <1>10, OneResult DEF ResultInv

\* A task that wrote every partition reports what one task of its job reports.
LEMMA TaskReport ==
  ASSUME Inv, Results, NEW k \in Jobs, handler[k].pc = "write", handler[k].part = PartitionCount
  PROVE  /\ \A p \in Partitions : Bucket(k, p) # {} => Occurrences(handler[k].locs, p) = 1
         /\ Named(handler[k].locs) = IF JobGroups[k] = {} THEN {} ELSE {ServerId[handler[k].exec]}
<1>1. /\ JobInv(k) /\ CountInv(k) /\ handler[k].locs \in Seq(Location) /\ k \in Aggregates
      /\ GoodLocations(k, handler[k].locs)
  BY JobFacts DEF JobInv, HandlerInv, LocationsInv
<1>2. \A p \in Partitions : Bucket(k, p) # {} => Occurrences(handler[k].locs, p) = 1
  BY <1>1, Counts DEF CountInv, Partitions
<1>3. CASE JobGroups[k] = {}
  BY <1>1, <1>2, <1>3, NoGroups
<1>4. CASE JobGroups[k] # {}
  <2>1. PICK p \in Partitions : Bucket(k, p) # {}
    BY <1>4, GroupPartition
  <2>2. Occurrences(handler[k].locs, p) = 1
    BY <1>2, <2>1
  <2>3. Places(handler[k].locs, p) # {}
    BY <1>1, <2>2, PlacesFinite, FS_EmptySet
  <2>4. Named(handler[k].locs) # {}
    BY <2>3 DEF Places, Named
  <2>5. Named(handler[k].locs) \subseteq {ServerId[handler[k].exec]}
    BY <1>1 DEF CountInv
  <2> QED
    BY <1>2, <1>4, <2>4, <2>5
<1> QED
  BY <1>3, <1>4

\* The scheduler adds the locations of a task to those of the stage (TaskReply).
LEMMA TaskReplyResult ==
  ASSUME Inv, Results, NEW k \in Jobs, TaskReply(k)
  PROVE  Results'
<1>1. /\ TypeOK /\ JobInv(k) /\ CountInv(k) /\ ReadInv(k) /\ AnswerInv(k)
      /\ handler[k].locs \in Seq(Location) /\ handler[k].pc = "write"
      /\ handler[k].part = PartitionCount
  BY JobFacts DEF TaskReply
<1>2. /\ UNCHANGED <<stage, locationsByStage, answer, swallowed>>
      /\ locations' = [locations EXCEPT ![k] = locations[k] \o handler[k].locs]
      /\ task' = [task EXCEPT ![k] = task[k] + 1]
      /\ phase' = [phase EXCEPT ![k] = "dispatch"]
      /\ handler' = [handler EXCEPT ![k] = NoHandler]
  BY <1>1 DEF TaskReply, resultVars, TypeOK
<1>3. KeepsOthers(k)
  BY <1>1, <1>2 DEF KeepsOthers, TypeOK
<1>4. /\ k \in Aggregates /\ stage[k] = 1 /\ handler[k].exec = task[k] % NumExecutors
      /\ task[k] \in Nat /\ locations[k] \in Seq(Location)
  BY <1>1 DEF JobInv, HandlerInv, TypeOK
<1>5. /\ locations'[k] = locations[k] \o handler[k].locs /\ task'[k] = task[k] + 1
      /\ handler'[k].pc = "none" /\ phase'[k] = "dispatch"
  BY <1>1, <1>2, NoHandlerType DEF TypeOK
<1>6. ReportedBy(k, task[k], locations[k])
  BY <1>1, <1>4 DEF CountInv
<1>7. ReportedBy(k, task[k] + 1, locations[k] \o handler[k].locs)
  <2>1. ASSUME NEW p \in Partitions, Bucket(k, p) # {}
        PROVE  Occurrences(locations[k] \o handler[k].locs, p) = task[k] + 1
    <3>1. Occurrences(locations[k], p) = task[k] /\ Occurrences(handler[k].locs, p) = 1
      BY <1>1, <1>6, <2>1, TaskReport DEF ReportedBy
    <3> QED
      BY <1>1, <1>4, <3>1, NamedTogether
  <2>2. Named(locations[k] \o handler[k].locs) = Named(locations[k]) \cup Named(handler[k].locs)
    BY <1>1, <1>4, NamedTogether
  <2>3. Named(locations[k]) = NamedBy(k, task[k])
    BY <1>6 DEF ReportedBy
  <2>4. Named(handler[k].locs) =
          IF JobGroups[k] = {} THEN {} ELSE {ServerId[task[k] % NumExecutors]}
    BY <1>1, <1>4, TaskReport
  <2>5. Named(locations[k] \o handler[k].locs) = NamedBy(k, task[k] + 1)
    BY <1>4, <2>2, <2>3, <2>4, OneMoreTask
  <2> QED
    BY <2>1, <2>5 DEF ReportedBy
<1>8. CountInv(k)'
  <2>1. ReportedBy(k, task'[k], locations'[k])
    BY <1>5, <1>7
  <2>2. stage'[k] = 1 /\ handler'[k].pc = "none"
    BY <1>2, <1>4, <1>5
  <2> QED
    BY <2>1, <2>2 DEF CountInv
<1>9. ReadInv(k)' /\ AnswerInv(k)'
  BY <1>1, <1>2, <1>5 DEF ReadInv, AnswerInv
<1> QED
  BY <1>3, <1>8, <1>9, OneResult DEF ResultInv

\* The server of the final task refuses remote locations, or starts to read.
LEMMA CheckResult ==
  ASSUME Inv, Results, NEW k \in Jobs, CheckLocations(k)
  PROVE  Results'
<1>1. /\ TypeOK /\ JobInv(k) /\ CountInv(k) /\ ReadInv(k) /\ AnswerInv(k)
      /\ handler[k] \in HandlerState /\ handler[k].locs \in Seq(Location)
      /\ handler[k].pc = "check" /\ handler[k].exec = 0 /\ phase[k] = "waiting"
  BY JobFacts DEF CheckLocations, JobInv, HandlerInv
<1>2. UNCHANGED <<phase, stage, task, locations, locationsByStage>>
  BY DEF CheckLocations, schedulerVars
<1>3. k \in Aggregates => ReportedBy(k, PartitionCount, handler[k].locs)
  BY <1>1 DEF CountInv
<1>4. CASE \E i \in DOMAIN handler[k].locs : handler[k].locs[i].executor # ServerId[0]
  <2>1. /\ swallowed' = [swallowed EXCEPT ![k] = TRUE] /\ answer' = [answer EXCEPT ![k] = Nothing]
        /\ handler' = [handler EXCEPT ![k] = [NoHandler EXCEPT !.pc = "end"]]
    BY <1>1, <1>4 DEF CheckLocations, Swallow, TypeOK, AnswerInv
  <2>2. KeepsOthers(k)
    BY <1>1, <1>2, <2>1 DEF KeepsOthers, TypeOK
  <2>3. handler'[k].pc = "end" /\ answer'[k] = Nothing /\ swallowed'[k] = TRUE
    BY <1>1, <2>1 DEF TypeOK, NoHandler
  <2>4. k \in Aggregates => CrossesExecutors(k)
    BY <1>1, <1>3, <1>4, RemoteLocation
  <2>5. CountInv(k)'
    BY <1>1, <1>2, <2>3 DEF CountInv
  <2>6. Nothing \in Remains(k)
    BY NothingRemains
  <2>7. ReadInv(k)' /\ AnswerInv(k)'
    BY <1>1, <1>2, <2>3, <2>4, <2>6 DEF ReadInv, AnswerInv, Remains
  <2> QED
    BY <2>2, <2>5, <2>7, OneResult DEF ResultInv
<1>5. CASE ~\E i \in DOMAIN handler[k].locs : handler[k].locs[i].executor # ServerId[0]
  <2>1. handler' = [handler EXCEPT ![k].pc = "read"] /\ UNCHANGED <<answer, swallowed>>
    BY <1>1, <1>5 DEF CheckLocations
  <2>2. KeepsOthers(k)
    BY <1>1, <1>2, <2>1 DEF KeepsOthers, TypeOK
  <2>3. handler'[k].pc = "read" /\ handler'[k].locs = handler[k].locs
    BY <1>1, <2>1 DEF TypeOK, HandlerState
  <2>4. k \in Aggregates => ~CrossesExecutors(k)
    BY <1>1, <1>3, <1>5, RemoteLocation
  <2>5. CountInv(k)'
    BY <1>1, <1>2, <2>3 DEF CountInv
  <2>6. answer[k] = Nothing /\ ~swallowed[k] /\ \A g \in Groups : answer[k][g] = 0
    BY <1>1 DEF AnswerInv, Nothing
  <2>7. ASSUME k \in Aggregates, NEW p \in Partitions, NEW g \in Bucket(k, p)
        PROVE  answer[k][g] + Occurrences(handler[k].locs, p) = PartitionCount
    <3>1. g \in Groups
      BY <2>7, ClusterAssumption DEF Bucket
    <3>2. Occurrences(handler[k].locs, p) = PartitionCount
      BY <1>3, <2>7 DEF ReportedBy
    <3> QED
      BY <2>6, <3>1, <3>2, Counts
  <2>8. ReadInv(k)'
    <3>1. Nothing \in Remains(k)
      BY NothingRemains
    <3> QED
      BY <2>1, <2>3, <2>4, <2>6, <2>7, <3>1 DEF ReadInv, Remains
  <2>9. AnswerInv(k)'
    BY <1>1, <1>2, <2>3 DEF AnswerInv
  <2> QED
    BY <2>2, <2>5, <2>8, <2>9, OneResult DEF ResultInv
<1> QED
  BY <1>4, <1>5

\* The final task merges one more partition (ReadPartition), whose file is complete.
LEMMA ReadResult ==
  ASSUME Inv, Results, NEW k \in Jobs, ReadPartition(k)
  PROVE  Results'
<1> DEFINE loc == Head(handler[k].locs)
           merged == [g \in Groups |-> IF g \in Bucket(k, loc.part) THEN answer[k][g] + 1 ELSE answer[k][g]]
<1>1. /\ TypeOK /\ JobInv(k) /\ CountInv(k) /\ ReadInv(k) /\ AnswerInv(k)
      /\ handler[k] \in HandlerState /\ handler[k].locs \in Seq(Location) /\ handler[k].locs # <<>>
      /\ handler[k].pc = "read" /\ k \in Aggregates /\ phase[k] = "waiting"
      /\ answer[k] \in [Groups -> Nat]
  BY JobFacts DEF ReadPartition, JobInv, HandlerInv
<1>2. UNCHANGED <<phase, stage, task, locations, locationsByStage>>
  BY DEF ReadPartition, schedulerVars
<1>3. files[partition_file(handler[k].exec, loc.job, loc.stage, loc.part)] = Complete(Bucket(k, loc.part))
  <2>1. 1 \in DOMAIN handler[k].locs /\ loc = handler[k].locs[1]
    BY <1>1
  <2> QED
    BY <1>1, <2>1, InputsComplete DEF FinalInputsComplete
<1>4. /\ answer' = [answer EXCEPT ![k] = merged] /\ UNCHANGED swallowed
      /\ handler' = [handler EXCEPT ![k].locs = Tail(handler[k].locs)]
  BY <1>1, <1>3 DEF ReadPartition, Complete, TypeOK
<1>5. KeepsOthers(k)
  BY <1>1, <1>2, <1>4 DEF KeepsOthers, TypeOK
<1>6. handler'[k].pc = "read" /\ handler'[k].locs = Tail(handler[k].locs) /\ answer'[k] = merged
  BY <1>1, <1>4 DEF TypeOK, HandlerState
<1>7. ASSUME NEW g \in Groups \ JobGroups[k] PROVE merged[g] = 0
  BY <1>1 DEF ReadInv, Bucket
<1>8. ASSUME NEW p \in Partitions, NEW g \in Bucket(k, p)
      PROVE  merged[g] + Occurrences(Tail(handler[k].locs), p) = PartitionCount
  <2>1. g \in Groups /\ (g \in Bucket(k, loc.part) <=> loc.part = p)
    <3>1. g \in JobGroups[k]
      BY DEF Bucket
    <3> QED
      BY <3>1, GroupPartition
  <2>2. answer[k][g] + Occurrences(handler[k].locs, p) = PartitionCount
    BY <1>1 DEF ReadInv
  <2>3. Occurrences(handler[k].locs, p) =
          Occurrences(Tail(handler[k].locs), p) + (IF loc.part = p THEN 1 ELSE 0)
    BY <1>1, OneLessNamed
  <2>4. Occurrences(Tail(handler[k].locs), p) \in Nat /\ answer[k][g] \in Nat
    BY <1>1, <2>1, PlacesFinite, HeadTailProperties
  <2> QED
    BY <2>1, <2>2, <2>3, <2>4
<1> HIDE DEF merged, loc
<1>9. CountInv(k)'
  BY <1>1, <1>2, <1>6 DEF CountInv
<1>10. ReadInv(k)'
  BY <1>1, <1>4, <1>6, <1>7, <1>8 DEF ReadInv
<1>11. AnswerInv(k)'
  BY <1>1, <1>2, <1>6 DEF AnswerInv
<1> QED
  BY <1>5, <1>9, <1>10, <1>11, OneResult DEF ResultInv

\* A plan over data sources sends one more batch, which it had not sent (SendBatch).
LEMMA SendBatchResult ==
  ASSUME Inv, Results, NEW k \in Jobs, SendBatch(k)
  PROVE  Results'
<1>1. /\ TypeOK /\ JobInv(k) /\ CountInv(k) /\ ReadInv(k) /\ AnswerInv(k)
      /\ handler[k].pc = "read" /\ phase[k] = "waiting" /\ k \notin Aggregates
      /\ answer[k] \in [Groups -> Nat]
  BY JobFacts DEF SendBatch, JobInv, HandlerInv
<1>2. UNCHANGED <<phase, stage, task, locations, locationsByStage, handler, swallowed>>
  BY DEF SendBatch, schedulerVars
<1>3. PICK g \in JobGroups[k] : answer' = [answer EXCEPT ![k] = [answer[k] EXCEPT ![g] = 1]]
  BY <1>1 DEF SendBatch, TypeOK
<1>4. KeepsOthers(k)
  BY <1>1, <1>2, <1>3 DEF KeepsOthers, TypeOK
<1>5. PICK sent \in SUBSET JobGroups[k] : answer[k] = [h \in Groups |-> IF h \in sent THEN 1 ELSE 0]
  BY <1>1 DEF ReadInv, Remains
<1>6. answer'[k] = [h \in Groups |-> IF h \in sent \cup {g} THEN 1 ELSE 0]
  BY <1>1, <1>3, <1>5 DEF TypeOK
<1>7. answer'[k] \in Remains(k) /\ \A h \in Groups \ JobGroups[k] : answer'[k][h] = 0
  <2> DEFINE more == sent \cup {g}
  <2>1. more \in SUBSET JobGroups[k] /\ answer'[k] = [h \in Groups |-> IF h \in more THEN 1 ELSE 0]
    BY <1>6
  <2> HIDE DEF more
  <2>2. [h \in Groups |-> IF h \in more THEN 1 ELSE 0] \in Remains(k)
    BY <1>1, <2>1, SomeRemain
  <2>3. \A h \in Groups \ JobGroups[k] : answer'[k][h] = 0
    BY <2>1
  <2> QED
    BY <2>1, <2>2, <2>3
<1>8. CountInv(k)' /\ AnswerInv(k)'
  BY <1>1, <1>2 DEF CountInv, AnswerInv
<1>9. ReadInv(k)'
  BY <1>1, <1>2, <1>7 DEF ReadInv, Remains
<1> QED
  BY <1>4, <1>8, <1>9, OneResult DEF ResultInv

\* Everything is read, or every batch has been sent (ProduceResult).
LEMMA ProduceResultResult ==
  ASSUME Inv, Results, NEW k \in Jobs, ProduceResult(k)
  PROVE  Results'
<1>1. /\ TypeOK /\ JobInv(k) /\ CountInv(k) /\ ReadInv(k) /\ AnswerInv(k)
      /\ handler[k] \in HandlerState /\ handler[k].pc = "read" /\ phase[k] = "waiting"
      /\ answer[k] \in [Groups -> Nat] /\ \A g \in Groups \ JobGroups[k] : answer[k][g] = 0
  BY JobFacts DEF ProduceResult, JobInv, HandlerInv, ReadInv
<1>2. UNCHANGED <<phase, stage, task, locations, locationsByStage, answer, swallowed>>
  BY DEF ProduceResult, schedulerVars, resultVars
<1>3. handler' = [handler EXCEPT ![k].pc = "end"]
  BY DEF ProduceResult
<1>4. answer[k] = Merged(k)
  <2>1. CASE k \in Aggregates
    <3>1. ASSUME NEW g \in JobGroups[k] PROVE answer[k][g] = PartitionCount
      <4> DEFINE p == Hash[g] % PartitionCount
      <4>1. g \in Groups /\ p \in Partitions /\ g \in Bucket(k, p)
        BY GroupPartition
      <4> HIDE DEF p
      <4>2. answer[k][g] + Occurrences(handler[k].locs, p) = PartitionCount
        BY <1>1, <2>1, <4>1 DEF ReadInv
      <4>3. Occurrences(handler[k].locs, p) = 0
        BY <2>1, NothingNamed DEF ProduceResult
      <4> QED
        BY <1>1, <4>1, <4>2, <4>3
    <3> QED
      BY <1>1, <2>1, <3>1 DEF Merged
  <2>2. CASE k \notin Aggregates
    <3>1. \A g \in JobGroups[k] : answer[k][g] = 1
      BY <2>2 DEF ProduceResult
    <3> QED
      BY <1>1, <2>2, <3>1 DEF Merged
  <2> QED
    BY <2>1, <2>2
<1>5. KeepsOthers(k)
  BY <1>1, <1>2, <1>3 DEF KeepsOthers, TypeOK
<1>6. handler'[k].pc = "end" /\ answer'[k] = Merged(k) /\ ~swallowed[k]
  BY <1>1, <1>2, <1>3, <1>4 DEF TypeOK, HandlerState, ReadInv
<1>7. k \in Aggregates => ~CrossesExecutors(k)
  BY <1>1 DEF ReadInv
<1>8. CountInv(k)' /\ ReadInv(k)'
  BY <1>1, <1>2, <1>6 DEF CountInv, ReadInv
<1>9. AnswerInv(k)'
  <2>1. Merged(k)' = Merged(k) /\ CrossesExecutors(k)' = CrossesExecutors(k)
    BY DEF Merged, CrossesExecutors
  <2> QED
    BY <1>1, <1>2, <1>6, <1>7, <2>1 DEF AnswerInv
<1> QED
  BY <1>5, <1>8, <1>9, OneResult DEF ResultInv

\* A plan over data sources panics, and the client keeps the batches it has.
LEMMA SourcePanicsResult ==
  ASSUME Inv, Results, NEW k \in Jobs, SourcePanics(k)
  PROVE  Results'
<1>1. /\ TypeOK /\ JobInv(k) /\ CountInv(k) /\ ReadInv(k) /\ AnswerInv(k)
      /\ handler[k].pc = "read" /\ phase[k] = "waiting" /\ k \notin Aggregates
  BY JobFacts DEF SourcePanics, JobInv, HandlerInv
<1>2. /\ UNCHANGED <<phase, stage, task, locations, locationsByStage, answer>>
      /\ swallowed' = [swallowed EXCEPT ![k] = TRUE]
      /\ handler' = [handler EXCEPT ![k] = [NoHandler EXCEPT !.pc = "end"]]
  BY <1>1 DEF SourcePanics, Swallow, schedulerVars
<1>3. KeepsOthers(k)
  BY <1>1, <1>2 DEF KeepsOthers, TypeOK
<1>4. handler'[k].pc = "end" /\ answer'[k] \in Remains(k) /\ swallowed'[k] = TRUE
  BY <1>1, <1>2 DEF TypeOK, NoHandler, ReadInv
<1>5. CountInv(k)' /\ ReadInv(k)'
  BY <1>1, <1>4 DEF CountInv, ReadInv
<1>6. AnswerInv(k)'
  BY <1>1, <1>2, <1>4 DEF AnswerInv, Remains
<1> QED
  BY <1>3, <1>5, <1>6, OneResult DEF ResultInv

\* The answer returns to the job (FinalReply).
LEMMA FinalReplyResult ==
  ASSUME Inv, Results, NEW k \in Jobs, FinalReply(k)
  PROVE  Results'
<1>1. /\ TypeOK /\ JobInv(k) /\ CountInv(k) /\ ReadInv(k) /\ AnswerInv(k) /\ handler[k].pc = "end"
  BY JobFacts DEF FinalReply
<1>2. /\ phase' = [phase EXCEPT ![k] = "ok"] /\ handler' = [handler EXCEPT ![k] = NoHandler]
      /\ UNCHANGED <<stage, task, locations, locationsByStage, answer, swallowed>>
  BY DEF FinalReply, resultVars
<1>3. KeepsOthers(k)
  BY <1>1, <1>2 DEF KeepsOthers, TypeOK
<1>4. handler'[k].pc = "none" /\ phase'[k] = "ok"
  BY <1>1, <1>2, NoHandlerType DEF TypeOK
<1>5. CountInv(k)' /\ ReadInv(k)'
  BY <1>1, <1>2, <1>4 DEF CountInv, ReadInv
<1>6. AnswerInv(k)'
  BY <1>1, <1>2, <1>4 DEF AnswerInv, Merged, Remains, Nothing, CrossesExecutors
<1> QED
  BY <1>3, <1>5, <1>6, OneResult DEF ResultInv

\* A server crashes with the RPCs it was handling, or comes back.
LEMMA CrashResult ==
  ASSUME Inv, Results, NEW e \in Executors, Crash(e) \/ Restart(e)
  PROVE  Results'
<1> SUFFICES ASSUME NEW j \in Jobs PROVE ResultInv(j)'
  BY DEF Results
<1>1. UNCHANGED <<stage, task, locations, locationsByStage, answer, swallowed>>
  BY DEF Crash, Restart, schedulerVars, resultVars
<1>2. \/ handler'[j] = handler[j] /\ phase'[j] = phase[j]
      \/ handler'[j] = NoHandler /\ phase'[j] = phase[j] /\ handler[j].pc = "none"
      \/ handler'[j] = NoHandler /\ phase'[j] = "failed"
  BY DEF Crash, Restart, schedulerVars
<1>3. CountInv(j) /\ ReadInv(j) /\ AnswerInv(j)
  BY JobFacts
<1>4. CountInv(j)' /\ ReadInv(j)'
  BY <1>1, <1>2, <1>3, NoHandlerType DEF CountInv, ReadInv
<1>5. AnswerInv(j)'
  BY <1>1, <1>2, <1>3, NoHandlerType DEF AnswerInv, Merged, Remains, Nothing, CrossesExecutors
<1> QED
  BY <1>4, <1>5 DEF ResultInv

-------------------------------------------------------------------------------
\* No job has reported or merged anything at the start.
LEMMA InitResults == Init => Results
<1> SUFFICES ASSUME Init, NEW j \in Jobs PROVE ResultInv(j)
  BY DEF Results
<1>1. /\ phase[j] = "idle" /\ stage[j] = 1 /\ task[j] = 0 /\ locations[j] = <<>>
      /\ handler[j].pc = "none" /\ answer[j] = Nothing /\ swallowed[j] = FALSE
  BY NoHandlerType DEF Init
<1>2. ReportedBy(j, 0, <<>>)
  <2>1. 0..(0 - 1) = {}
    OBVIOUS
  <2>2. NamedBy(j, 0) = {}
    BY <2>1 DEF NamedBy
  <2> QED
    BY <2>2, NothingNamed DEF ReportedBy
<1>3. CountInv(j)
  BY <1>1, <1>2 DEF CountInv
<1> QED
  BY <1>1, <1>3 DEF ResultInv, ReadInv, AnswerInv

\* Every operation of the scheduler, the servers and the cluster preserves what
\* is counted.
LEMMA NextResults == Inv /\ Results /\ [Next]_vars => Results'
<1> SUFFICES ASSUME Inv, Results, [Next]_vars PROVE Results'
  OBVIOUS
<1>1. ASSUME NEW j \in Jobs, Submit(j) \/ DispatchFails(j) \/ HandlerPanics(j) PROVE Results'
  BY <1>1, SimpleResult
<1>2. ASSUME NEW j \in Jobs, Dispatch(j) \/ FinishStage(j) PROVE Results'
  BY <1>2, DispatchResult, FinishStageResult
<1>3. ASSUME NEW j \in Jobs, Writing(j) PROVE Results'
  BY <1>3, WriteResult, FinishFileResult, TaskReplyResult DEF Writing
<1>4. ASSUME NEW j \in Jobs, Reading(j) \/ SourcePanics(j) PROVE Results'
  BY <1>4, CheckResult, ReadResult, SendBatchResult, ProduceResultResult, FinalReplyResult,
         SourcePanicsResult DEF Reading
<1>5. ASSUME NEW e \in Executors, Crash(e) \/ Restart(e) PROVE Results'
  BY <1>5, CrashResult
<1>6. CASE UNCHANGED vars
  BY <1>6 DEF Results, ResultInv, CountInv, ReadInv, AnswerInv, Merged, Remains, Nothing, CrossesExecutors, vars
<1> QED
  BY <1>1, <1>2, <1>3, <1>4, <1>5, <1>6 DEF Next, Scheduling

\* What is counted holds of every reachable state of the cluster.
THEOREM ResultsInvariant == Spec => []Results
  BY InitResults, NextResults, Invariance, PTL DEF Spec

\* A returned answer holds every group of the job equally often; after a swallowed
\* panic it is an aggregate's empty one or some of another plan's batches.
THEOREM AnswersMultiply == Spec => []AnswerMultiplicity
<1>1. Results => AnswerMultiplicity
  BY DEF Results, ResultInv, AnswerInv, AnswerMultiplicity
<1> QED
  BY <1>1, ResultsInvariant, PTL

\* An aggregate's answer is lost exactly when its shuffle crosses executors.
THEOREM SwallowedIffRemote == Spec => []SwallowedExactlyIfRemote
<1>1. Results => SwallowedExactlyIfRemote
  BY ClusterAssumption DEF Results, ResultInv, AnswerInv, SwallowedExactlyIfRemote
<1> QED
  BY <1>1, ResultsInvariant, PTL

-------------------------------------------------------------------------------
(* The jobs implement QueryJobs. *)

\* What a caller sees of one job.
LEMMA JobSeen ==
  ASSUME TypeOK, NEW j \in Jobs
  PROVE  /\ phase[j] = "idle" => JobStatus[j] = "idle"
         /\ phase[j] \in {"dispatch", "waiting"} => JobStatus[j] = "running"
         /\ phase[j] = "ok" => JobStatus[j] = "returned"
         /\ phase[j] = "failed" => JobStatus[j] = "panicked"
         /\ JobResult[j] = IF phase[j] = "ok" THEN answer[j] ELSE Nothing
  BY DEF TypeOK, JobStatus, JobResult

\* A step that keeps jobs running or as they were is not seen.
LEMMA NotSeen ==
  ASSUME TypeOK, TypeOK',
         \A j \in Jobs : /\ \/ phase'[j] = phase[j]
                            \/ {phase[j], phase'[j]} \subseteq {"dispatch", "waiting"}
                         /\ phase[j] = "ok" => answer'[j] = answer[j]
  PROVE  UNCHANGED <<JobStatus, JobResult>>
<1>1. JobStatus' = JobStatus
  BY DEF JobStatus, TypeOK
<1>2. JobResult' = JobResult
  BY DEF JobResult, TypeOK
<1> QED
  BY <1>1, <1>2

\* Only the final task of a running job changes its answer.
LEMMA ReturnedAnswersStay ==
  ASSUME Inv, [Next]_vars, NEW j \in Jobs, phase[j] \notin {"dispatch", "waiting"}
  PROVE  answer'[j] = answer[j]
<1>1. TypeOK /\ \A k \in Jobs : handler[k].pc # "none" => phase[k] = "waiting"
  BY DEF Inv, JobInv, HandlerInv
<1>2. CASE \E k \in Jobs : CheckLocations(k) \/ ReadPartition(k) \/ SendBatch(k) \/ SourcePanics(k)
  <2>1. PICK k \in Jobs : CheckLocations(k) \/ ReadPartition(k) \/ SendBatch(k) \/ SourcePanics(k)
    BY <1>2
  <2>2. k # j
    BY <1>1, <2>1 DEF CheckLocations, ReadPartition, SendBatch, SourcePanics
  <2>3. answer' = answer \/ \E a : answer' = [answer EXCEPT ![k] = a]
    BY <2>1 DEF CheckLocations, ReadPartition, SendBatch, SourcePanics, Swallow
  <2> QED
    BY <1>1, <2>2, <2>3 DEF TypeOK
<1>3. CASE answer' = answer
  BY <1>3
<1> QED
  BY <1>2, <1>3 DEF Next, Submit, Scheduling, Dispatch, DispatchFails, FinishStage, Writing,
     SkipEmptyPartition, CreateFile, FinishFile, TaskReply, Reading, ProduceResult, FinalReply,
     HandlerPanics, Crash, Restart, resultVars, vars

\* Every step is one that QueryJobs allows, or is not seen.
LEMMA StepImplements ==
  ASSUME Inv, Inv', Results, [Next]_vars
  PROVE  [Promise!Next]_(Promise!vars)
<1> USE DEF Promise!Next, Promise!vars
<1>1. /\ TypeOK /\ TypeOK'
      /\ \A j \in Jobs : handler[j].pc # "none" => phase[j] = "waiting"
      /\ \A j \in Jobs : phase[j] \notin {"dispatch", "waiting"} => answer'[j] = answer[j]
  BY ReturnedAnswersStay DEF Inv, JobInv, HandlerInv
<1>2. ASSUME NEW k \in Jobs, Submit(k) PROVE Promise!Submit(k)
  <2>1. phase[k] = "idle" /\ phase' = [phase EXCEPT ![k] = "dispatch"] /\ answer' = answer
    BY <1>2 DEF Submit, resultVars
  <2>2. JobStatus' = [JobStatus EXCEPT ![k] = "running"]
    BY <1>1, <2>1 DEF JobStatus, TypeOK
  <2>3. JobResult' = JobResult
    BY <1>1, <2>1 DEF JobResult, TypeOK
  <2> QED
    BY <1>1, <2>1, <2>2, <2>3, JobSeen DEF Promise!Submit
<1>3. ASSUME NEW k \in Jobs, FinalReply(k) PROVE Promise!Return(k)
  <2>1. phase[k] = "waiting" /\ phase' = [phase EXCEPT ![k] = "ok"] /\ answer' = answer
    BY <1>1, <1>3 DEF FinalReply, resultVars
  <2>2. JobStatus' = [JobStatus EXCEPT ![k] = "returned"]
    BY <1>1, <2>1 DEF JobStatus, TypeOK
  <2>3. JobResult' = [JobResult EXCEPT ![k] = answer[k]]
    BY <1>1, <2>1 DEF JobResult, TypeOK
  <2>4. answer[k] \in Alone(k)
    <3>1. AnswerInv(k) /\ handler[k].pc = "end"
      BY <1>3 DEF Results, ResultInv, FinalReply
    <3>2. k \notin Aggregates => answer[k] \in Remains(k)
      BY <3>1, MergedRemains DEF AnswerInv
    <3>3. k \in Aggregates => answer[k] = IF CrossesExecutors(k) THEN Nothing ELSE Merged(k)
      BY <3>1 DEF AnswerInv, Remains
    <3> QED
      BY <3>2, <3>3 DEF Alone
  <2>5. [j \in Jobs |-> Alone(j)][k] = Alone(k)
    OBVIOUS
  <2> QED
    BY <1>1, <2>1, <2>2, <2>3, <2>4, <2>5, JobSeen DEF Promise!Return
<1>4. ASSUME NEW lost \in SUBSET Jobs, \A j \in lost : phase[j] \in {"dispatch", "waiting"},
             phase' = [j \in Jobs |-> IF j \in lost THEN "failed" ELSE phase[j]], answer' = answer
      PROVE  [Promise!Next]_(Promise!vars)
  <2>1. CASE lost = {}
    <3>1. phase' = phase
      BY <1>1, <1>4, <2>1 DEF TypeOK
    <3> QED
      BY <1>1, <1>4, <3>1, NotSeen
  <2>2. CASE lost # {}
    <3>1. JobStatus' = [j \in Jobs |-> IF j \in lost THEN "panicked" ELSE JobStatus[j]]
      BY <1>1, <1>4 DEF JobStatus, TypeOK
    <3>2. JobResult' = JobResult
      BY <1>1, <1>4 DEF JobResult, TypeOK
    <3> QED
      BY <1>1, <1>4, <2>2, <3>1, <3>2, JobSeen DEF Promise!Panic
  <2> QED
    BY <2>1, <2>2
<1>5. ASSUME NEW k \in Jobs, DispatchFails(k) \/ HandlerPanics(k)
      PROVE  [Promise!Next]_(Promise!vars)
  <2>1. /\ phase[k] \in {"dispatch", "waiting"} /\ answer' = answer
        /\ phase' = [phase EXCEPT ![k] = "failed"]
    BY <1>1, <1>5 DEF DispatchFails, HandlerPanics, resultVars
  <2>2. phase' = [j \in Jobs |-> IF j \in {k} THEN "failed" ELSE phase[j]]
    BY <1>1, <2>1 DEF TypeOK
  <2> QED
    BY <1>4, <2>1, <2>2
<1>6. ASSUME NEW e \in Executors, Crash(e) PROVE [Promise!Next]_(Promise!vars)
  <2> DEFINE lost == {j \in Jobs : handler[j].pc # "none" /\ handler[j].exec = e}
  <2>1. phase' = [j \in Jobs |-> IF j \in lost THEN "failed" ELSE phase[j]] /\ answer' = answer
    BY <1>6 DEF Crash, resultVars
  <2>2. \A j \in lost : phase[j] \in {"dispatch", "waiting"}
    BY <1>1
  <2> QED
    BY <1>4, <2>1, <2>2
<1>7. CASE \A j \in Jobs : \/ phase'[j] = phase[j]
                           \/ {phase[j], phase'[j]} \subseteq {"dispatch", "waiting"}
  BY <1>1, <1>7, NotSeen
<1>8. ASSUME NEW k \in Jobs, Dispatch(k) \/ FinishStage(k) \/ Writing(k) \/ CheckLocations(k)
                              \/ ReadPartition(k) \/ SendBatch(k) \/ ProduceResult(k)
                              \/ SourcePanics(k)
       PROVE  \A j \in Jobs : \/ phase'[j] = phase[j]
                              \/ {phase[j], phase'[j]} \subseteq {"dispatch", "waiting"}
  <2>1. \/ phase' = phase
        \/ phase[k] = "dispatch" /\ phase' = [phase EXCEPT ![k] = "waiting"]
        \/ phase[k] = "waiting" /\ phase' = [phase EXCEPT ![k] = "dispatch"]
    BY <1>1, <1>8 DEF Dispatch, FinishStage, Writing, SkipEmptyPartition, CreateFile, FinishFile, TaskReply,
       CheckLocations, ReadPartition, SendBatch, ProduceResult, SourcePanics, schedulerVars
  <2> QED
    BY <1>1, <2>1 DEF TypeOK
<1>9. CASE \E e \in Executors : Restart(e)
  BY <1>7, <1>9 DEF Restart, schedulerVars
<1>10. CASE UNCHANGED vars
  BY <1>7, <1>10 DEF vars
<1> QED
  BY <1>2, <1>3, <1>5, <1>6, <1>7, <1>8, <1>9, <1>10 DEF Next, Scheduling, Reading

\* Concurrent jobs on shared executors answer as if each were alone.
THEOREM Refinement == Spec => JobsAnswerAlone
<1>1. Init => Promise!Init
  <2> SUFFICES ASSUME Init PROVE Promise!Init
    OBVIOUS
  <2>1. JobStatus = [j \in Jobs |-> "idle"]
    BY DEF Init, JobStatus
  <2>2. JobResult = [j \in Jobs |-> Nothing]
    BY DEF Init, JobResult
  <2> QED
    BY <2>1, <2>2 DEF Promise!Init
<1>2. Inv /\ Inv' /\ Results /\ [Next]_vars => [Promise!Next]_(Promise!vars)
  BY StepImplements
<1> QED
  BY <1>1, <1>2, Invariance, ResultsInvariant, PTL DEF Spec, JobsAnswerAlone, Promise!Spec
===============================================================================
