----------------------------- MODULE MCCronService -----------------------------
(* A one-shot and a recurring job on disk, changed by a few requests. *)
EXTENDS CronService

CONSTANTS once, often, extra

MCEvery == [j \in Jobs |-> IF j = often THEN 1 ELSE 0]
MCAt == [j \in Jobs |-> 0]
MCRequests ==
  {[kind |-> k, job |-> once] : k \in {"disable", "enable", "remove"}} \cup
  {[kind |-> "add", job |-> extra], [kind |-> "list", job |-> often]}
================================================================================
