--------------------------- MODULE MCFollowupQueue ---------------------------
(* Instances of FollowupQueue for TLC. *)
EXTENDS FollowupQueue, TLC

CONSTANTS a, b, c

Three == {a, b, c}

\* Everybody in one place with one authorization.
SameRoute == [m \in Msgs |-> "home"]
SameAuth  == [m \in Msgs |-> "owner"]

\* c writes from another thread, b is not the owner.
MixedRoute == [m \in Msgs |-> IF m = c THEN "thread" ELSE "home"]
MixedAuth  == [m \in Msgs |-> IF m = b THEN "guest" ELSE "owner"]

With(modes, caps, drops) == [mode : modes, cap : caps, drop : drops]

Roomy     == With({"collect", "followup"}, {4}, {"summarize"})
Calm      == Roomy \cup With({"collect"}, {1}, {"new"})
Tight     == With({"collect"}, {1, 2}, {"old", "summarize"})
             \cup With({"followup"}, {1}, {"old"}) \cup With({"followup"}, {2}, {"summarize"})
DropOld   == With({"followup"}, {2}, {"old"})
=============================================================================
