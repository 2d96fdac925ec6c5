------------------------------ MODULE JobService ------------------------------
(***************************************************************************)
(* What a pool of workers promises its callers: every job that was handed  *)
(* over is settled, once, by its result or by an error.                    *)
(***************************************************************************)
CONSTANT Jobs

VARIABLE phase   \* job -> what its caller knows of it

ServiceInit == phase = [j \in Jobs |-> "new"]

HandOver(j) == phase[j] = "new" /\ phase' = [phase EXCEPT ![j] = "waiting"]

\* Nobody is there to do it.
Refuse(j) == phase[j] = "new" /\ phase' = [phase EXCEPT ![j] = "failed"]

Resolve(j) == phase[j] = "waiting" /\ phase' = [phase EXCEPT ![j] = "done"]

\* An event may end several.
Fail(js) ==
  /\ \A j \in js : phase[j] = "waiting"
  /\ phase' = [j \in Jobs |-> IF j \in js THEN "failed" ELSE phase[j]]

ServiceNext ==
  \/ \E j \in Jobs : HandOver(j) \/ Refuse(j) \/ Resolve(j)
  \/ \E js \in SUBSET Jobs : Fail(js)

ServiceSpec ==
  /\ ServiceInit /\ [][ServiceNext]_phase
  /\ \A j \in Jobs : WF_phase(Resolve(j) \/ \E js \in SUBSET Jobs : j \in js /\ Fail(js))

=============================================================================
