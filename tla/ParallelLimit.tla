---------------------------- MODULE ParallelLimit ----------------------------
(***************************************************************************)
(* parallelLimit of utils/retry.utils.ts: one call over Count items.  The  *)
(* loop starts an item, adds its promise to `executing` and, once there    *)
(* are Limit of them, awaits a race.  After the race it removes from       *)
(* `executing` the promise it has just added, whichever promise settled.   *)
(***************************************************************************)
EXTENDS Naturals, FiniteSets

CONSTANTS
  Count,  \* the number of items
  Limit   \* the concurrency limit

ASSUME ParallelAssumption ==
  /\ Count \in Nat
  /\ Limit \in Nat \ {0}

VARIABLES
  item,       \* "new", "running", "done" or "failed", for each item
  executing,  \* the items whose promises are in the array
  next,       \* the item the loop has come to
  pc          \* "loop", "race", "all", "resolved" or "rejected"

parallelVars == <<item, executing, next, pc>>

Item == 1..Count
Running == {i \in Item : item[i] = "running"}
Settled(i) == item[i] \in {"done", "failed"}

ParallelInit ==
  /\ item = [i \in Item |-> "new"]
  /\ executing = {}
  /\ next = 1
  /\ pc = "loop"

\* Mutant: the race is entered one item late.
StartItemLate ==
  /\ pc = "loop" /\ next <= Count
  /\ item' = [item EXCEPT ![next] = "running"]
  /\ executing' = executing \cup {next}
  /\ IF Cardinality(executing') > Limit
       THEN pc' = "race" /\ UNCHANGED next
       ELSE pc' = "loop" /\ next' = next + 1

\* One round of the loop, up to the await if there is one.
StartItem ==
  /\ pc = "loop" /\ next <= Count
  /\ item' = [item EXCEPT ![next] = "running"]
  /\ executing' = executing \cup {next}
  /\ IF Cardinality(executing') >= Limit
       THEN pc' = "race" /\ UNCHANGED next
       ELSE pc' = "loop" /\ next' = next + 1

\* Promise.race resolves and the promise just added leaves the array.
RaceResolves ==
  /\ pc = "race"
  /\ \E i \in executing : item[i] = "done"
  /\ executing' = executing \ {next}
  /\ next' = next + 1
  /\ pc' = "loop"
  /\ UNCHANGED item

\* A rejection that the race or the final await sees rejects the call; when
\* several promises have settled, the race may see either.
Rejects ==
  /\ pc \in {"race", "all"}
  /\ \E i \in executing : item[i] = "failed"
  /\ pc' = "rejected"
  /\ UNCHANGED <<item, executing, next>>

LoopEnds ==
  /\ pc = "loop" /\ next > Count
  /\ pc' = "all"
  /\ UNCHANGED <<item, executing, next>>

\* Promise.all(executing) resolves
Resolves ==
  /\ pc = "all"
  /\ \A i \in executing : item[i] = "done"
  /\ pc' = "resolved"
  /\ UNCHANGED <<item, executing, next>>

ItemSettles(i) ==
  /\ item[i] = "running"
  /\ \E s \in {"done", "failed"} : item' = [item EXCEPT ![i] = s]
  /\ UNCHANGED <<executing, next, pc>>

\* The steps of the function itself.
CallSteps == StartItem \/ RaceResolves \/ Rejects \/ LoopEnds \/ Resolves

ParallelNext ==
  \/ CallSteps
  \/ \E i \in Item : ItemSettles(i)

ParallelSpec == ParallelInit /\ [][ParallelNext]_parallelVars

\* The items settle and the runtime resumes what has settled.
ParallelFairness ==
  /\ WF_parallelVars(CallSteps)
  /\ \A i \in Item : WF_parallelVars(ItemSettles(i))

ParallelFairSpec == ParallelSpec /\ ParallelFairness

-----------------------------------------------------------------------------
\* Every variable has values of its kind.
ParallelTypeOK ==
  /\ item \in [Item -> {"new", "running", "done", "failed"}]
  /\ executing \subseteq Item
  /\ next \in 1..(Count + 1)
  /\ pc \in {"loop", "race", "all", "resolved", "rejected"}

\* The limit is kept as long as none of the first Limit - 1 items, the ones
\* that stay in the array for good, has settled (with a limit of 1: always).
LimitUntilFirstSettles ==
  (\A i \in Item : i < Limit => ~Settled(i)) => Cardinality(Running) <= Limit

\* A call that resolves has the results of the items below the limit, and of
\* all of them when the limit is 1.
AwaitedItemsDone ==
  pc = "resolved" => \A i \in Item : i < Limit \/ Limit = 1 => item[i] = "done"

\* Every call ends.
CallEnds == <>(pc \in {"resolved", "rejected"})

-----------------------------------------------------------------------------
\* "Execute functions in parallel with concurrency limit"
LimitRespected == Cardinality(Running) <= Limit

\* What parallelLimit keeps although it takes the wrong promise out of its array.
ParallelIsSound == ParallelTypeOK /\ LimitUntilFirstSettles /\ AwaitedItemsDone
=============================================================================
