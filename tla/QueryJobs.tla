------------------------------ MODULE QueryJobs ------------------------------
(***************************************************************************)
(* What `Scheduler::execute` promises its callers, abstractly: each of     *)
(* several jobs is submitted, and either returns one of the answers that   *)
(* its own plan has in this cluster, or panics.  Neither the other jobs    *)
(* nor servers that crash and come back have a part in what a job returns; *)
(* a crash ends any number of running jobs at once.                        *)
(***************************************************************************)
CONSTANTS Jobs,
          Possible,   \* job -> the answers it may return
          NoAnswer    \* stands for the answer of a job that has not returned

VARIABLES status,     \* job -> idle, running, returned or panicked
          result      \* job -> its answer

vars == <<status, result>>

Init ==
    /\ status = [j \in Jobs |-> "idle"]
    /\ result = [j \in Jobs |-> NoAnswer]

Submit(j) ==
    /\ status[j] = "idle"
    /\ status' = [status EXCEPT ![j] = "running"]
    /\ UNCHANGED result

Return(j) ==
    /\ status[j] = "running"
    /\ status' = [status EXCEPT ![j] = "returned"]
    /\ \E answer \in Possible[j] : result' = [result EXCEPT ![j] = answer]

Panic(lost) ==
    /\ lost # {}
    /\ \A j \in lost : status[j] = "running"
    /\ status' = [j \in Jobs |-> IF j \in lost THEN "panicked" ELSE status[j]]
    /\ UNCHANGED result

Next ==
    \/ \E j \in Jobs : Submit(j) \/ Return(j)
    \/ \E lost \in SUBSET Jobs : Panic(lost)

Spec == Init /\ [][Next]_vars
===============================================================================
