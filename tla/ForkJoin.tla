------------------------------ MODULE ForkJoin ------------------------------
(***************************************************************************)
(* What a pool of threads with job queues promises to those who submit:    *)
(* a job runs once, after it was submitted, and whoever submitted jobs and *)
(* waited for them goes on only when all of them have ended.  Implemented  *)
(* by ThreadPool.                                                          *)
(***************************************************************************)
CONSTANTS Jobs, Roots, Parent

VARIABLE state   \* of every job, and of the roots, which run from the start

FJInit == state = [o \in Jobs \cup Roots |-> IF o \in Roots THEN "running" ELSE "new"]

Below(o) == {j \in Jobs : Parent[j] = o}

Fork(o) ==
  /\ state[o] = "running"
  /\ \E S \in SUBSET {j \in Below(o) : state[j] = "new"} :
       state' = [p \in DOMAIN state |-> IF p \in S THEN "ready" ELSE state[p]]

Begin(j) ==
  /\ state[j] \in {"new", "ready"} /\ state[Parent[j]] = "running"
  /\ state' = [state EXCEPT ![j] = "running"]

Lose(j) == state[j] = "ready" /\ state' = [state EXCEPT ![j] = "lost"]

End(o) ==
  /\ state[o] = "running"
  /\ \A j \in Below(o) : state[j] \in {"new", "ended"}
  /\ state' = [state EXCEPT ![o] = "ended"]

(* No pool: the roots give up before they submitted anything. *)
Abandon ==
  /\ \A j \in Jobs : state[j] = "new"
  /\ state' = [p \in DOMAIN state |-> IF p \in Roots THEN "ended" ELSE state[p]]

FJNext ==
  \/ \E o \in Jobs \cup Roots : Fork(o) \/ End(o)
  \/ \E j \in Jobs : Begin(j) \/ Lose(j)
  \/ Abandon

FJSpec == FJInit /\ [][FJNext]_state
=============================================================================
