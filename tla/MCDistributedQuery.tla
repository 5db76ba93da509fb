-------------------------- MODULE MCDistributedQuery --------------------------
(***************************************************************************)
(* Bounded instances of DistributedQuery.  Job a aggregates three groups   *)
(* that fall into two of the partitions, job b two of the same groups, and *)
(* job c is a plan without a root aggregate, which is what every SQL query *)
(* becomes.                                                                *)
(***************************************************************************)
EXTENDS DistributedQuery, TLC

CONSTANTS a, b, c, g1, g2, g3

MCJobGroups ==
    [j \in Jobs |-> CASE j = a -> {g1, g2, g3} [] j = b -> {g2, g3} [] j = c -> {g1, g3}]
MCHash == (g1 :> 5) @@ (g2 :> 5) @@ (g3 :> 0)

\* One identity, which flight_server hard-codes, or one for each server.
OneServer == [e \in Executors |-> "executor-0"]
OwnId == [e \in Executors |-> e]
\* The shuffle directories of servers on one host, on two and on hosts of their own.
OneDir == [e \in Executors |-> "host 1"]
TwoHosts == [e \in Executors |-> IF e = 2 THEN "host 2" ELSE "host 1"]
OwnDir == [e \in Executors |-> e]
===============================================================================
