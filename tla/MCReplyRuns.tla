----------------------------- MODULE MCReplyRuns -----------------------------
(* Instances of ReplyRuns for TLC. *)
EXTENDS ReplyRuns, TLC

CONSTANTS a, b, a1, a2, b1

\* Two ids for the session of one key, to rotate, and one for the other.
TwoAndOne == a1 :> a @@ a2 :> a @@ b1 :> b

OpSymmetry == Permutations(Ops)
=============================================================================
