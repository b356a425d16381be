----------------------------- MODULE AuditQueue -----------------------------
(***************************************************************************)
(* What the audit queue promises, without leases, attempts or workers: a   *)
(* bounded set of open jobs, one per actor and target, each of which ends  *)
(* at most once, completed or failed, and may be deleted.                  *)
(***************************************************************************)
EXTENDS Naturals, FiniteSets

CONSTANTS Jobs, Keys, NoKey, Cap

VARIABLES phase, key

Phase == {"none", "open", "completed", "failed", "deleted"}

Open == {j \in Jobs : phase[j] = "open"}

Init ==
  /\ phase = [j \in Jobs |-> "none"]
  /\ key = [j \in Jobs |-> NoKey]

Enter(j, k) ==
  /\ phase[j] = "none"
  /\ Cardinality(Open) < Cap
  /\ \A i \in Open : key[i] # k
  /\ phase' = [phase EXCEPT ![j] = "open"]
  /\ key' = [key EXCEPT ![j] = k]

End(j, outcome) ==
  /\ phase[j] = "open"
  /\ phase' = [phase EXCEPT ![j] = outcome]
  /\ UNCHANGED key

\* A website or an account takes its jobs with it, whatever their phase.
Delete(gone) ==
  /\ \A j \in gone : phase[j] # "none"
  /\ phase' = [j \in Jobs |-> IF j \in gone THEN "deleted" ELSE phase[j]]
  /\ UNCHANGED key

Next ==
  \/ \E j \in Jobs, k \in Keys : Enter(j, k)
  \/ \E j \in Jobs, outcome \in {"completed", "failed"} : End(j, outcome)
  \/ \E gone \in SUBSET Jobs : Delete(gone)

Spec == Init /\ [][Next]_<<phase, key>>
=============================================================================
