---------------------------- MODULE JobContract ----------------------------
(***************************************************************************)
(* What the job queue promises a producer, without workers, leases or      *)
(* clocks: a submitted job is tried a bounded number of times, ends once   *)
(* and for all, and ends for a reason.                                     *)
(***************************************************************************)
EXTENDS Naturals

CONSTANTS Jobs, Keys, MaxAttempts

VARIABLES state,   \* "absent", "pending", "succeeded" or "failed"
          key,     \* the idempotency key a job was submitted under
          tries,   \* how often the job was handed to a handler
          answers  \* what handlers have said of it

vars == <<state, key, tries, answers>>

Init == /\ state = [j \in Jobs |-> "absent"]
        /\ key = [j \in Jobs |-> "none"]
        /\ tries = [j \in Jobs |-> 0]
        /\ answers = [j \in Jobs |-> {}]

Submit(j, k) ==
  /\ state[j] = "absent"
  /\ ~\E i \in Jobs : state[i] = "pending" /\ key[i] = k
  /\ state' = [state EXCEPT ![j] = "pending"]
  /\ key' = [key EXCEPT ![j] = k]
  /\ UNCHANGED <<tries, answers>>

\* One poll may hand out several jobs at once.
Try(S) ==
  /\ \A j \in S : state[j] = "pending" /\ tries[j] < MaxAttempts
  /\ tries' = [j \in Jobs |-> IF j \in S THEN tries[j] + 1 ELSE tries[j]]
  /\ UNCHANGED <<state, key, answers>>

Answer(j, r) ==
  /\ state[j] = "pending" /\ tries[j] > 0
  /\ answers' = [answers EXCEPT ![j] = @ \cup {r}]
  /\ UNCHANGED <<state, key, tries>>

Succeed(j) ==
  /\ state[j] = "pending" /\ "ok" \in answers[j]
  /\ state' = [state EXCEPT ![j] = "succeeded"]
  /\ UNCHANGED <<key, tries, answers>>

\* Giving up needs a handler's refusal or a spent budget.
MayGiveUp(j) == state[j] = "pending" /\ ("fatal" \in answers[j] \/ tries[j] = MaxAttempts)

GiveUp(S) ==
  /\ \A j \in S : MayGiveUp(j)
  /\ state' = [j \in Jobs |-> IF j \in S THEN "failed" ELSE state[j]]
  /\ UNCHANGED <<key, tries, answers>>

Next == \/ \E j \in Jobs, k \in Keys : Submit(j, k)
        \/ \E S \in SUBSET Jobs : Try(S) \/ GiveUp(S)
        \/ \E j \in Jobs, r \in {"ok", "retry", "fatal"} : Answer(j, r)
        \/ \E j \in Jobs : Succeed(j)

Spec == Init /\ [][Next]_vars
=============================================================================
