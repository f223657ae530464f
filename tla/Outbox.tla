------------------------------- MODULE Outbox -------------------------------
(***************************************************************************)
(* What the delivery queue promises to those who send messages: a message  *)
(* that was put into the box is taken out only for a reason.  It reached   *)
(* the channel, or it was given up, and that is on record: it was withdrawn *)
(* or is kept among the failed ones.  Only unreliable messages may go      *)
(* without.  A message may be sent twice, and may be put back.             *)
(***************************************************************************)
CONSTANTS Messages,
          Unreliable  \* messages that may be dropped

VARIABLES known,   \* messages that were ever put into the box
          box,     \* messages still owed
          reached, \* messages the channel accepted
          given    \* messages given up on record

vars == <<known, box, reached, given>>

Init ==
  /\ box \in SUBSET Messages
  /\ known = box
  /\ reached = {}
  /\ given = {}

Put(m) ==
  /\ m \notin known
  /\ known' = known \cup {m}
  /\ box' = box \cup {m}
  /\ UNCHANGED <<reached, given>>

Reach(m) ==
  /\ m \in known
  /\ reached' = reached \cup {m}
  /\ UNCHANGED <<known, box, given>>

Withdraw(m) ==
  /\ m \in known
  /\ given' = given \cup {m}
  /\ UNCHANGED <<known, box, reached>>

\* The message is given up as it is taken out.
Discard(m) ==
  /\ m \in box
  /\ box' = box \ {m}
  /\ given' = given \cup {m}
  /\ UNCHANGED <<known, reached>>

Take(m) ==
  /\ m \in box
  /\ m \in reached \cup given \cup Unreliable
  /\ box' = box \ {m}
  /\ UNCHANGED <<known, reached, given>>

PutBack(m) ==
  /\ m \in known \ box
  /\ box' = box \cup {m}
  /\ UNCHANGED <<known, reached, given>>

Next ==
  \E m \in Messages : \/ Put(m) \/ Reach(m) \/ Withdraw(m)
                      \/ Discard(m) \/ Take(m) \/ PutBack(m)

Spec == Init /\ [][Next]_vars
=============================================================================
