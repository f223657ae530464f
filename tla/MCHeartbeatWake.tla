--------------------------- MODULE MCHeartbeatWake ---------------------------
(* Instances of HeartbeatWake for TLC. *)
EXTENDS HeartbeatWake, TLC

\* Callbacks of the wake timer are alike.
BatchSymmetry == Permutations(Batches)

\* All but the history variable that no safety property reads.
WithoutHistory == <<handler, pending, scheduled, running, timer, batch, life, armed, agents,
                    enabled, cooling>>
=============================================================================
