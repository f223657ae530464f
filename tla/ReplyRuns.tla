------------------------------- MODULE ReplyRuns -------------------------------
(***************************************************************************)
(* The registry of the runs that answer messages,                          *)
(* src/auto-reply/reply/reply-run-registry.ts: one run per session key,    *)
(* found by the key or by the id of its session, which a compaction may    *)
(* change under way; aborts by a user, a restart or an upstream signal;    *)
(* and those who wait for the end of a run.                                *)
(*                                                                         *)
(* Every function of the module runs undisturbed, so each is one action.   *)
(* An operation is owned by the function that created it (runReplyAgent,   *)
(* createFollowupRunner), which goes through the phases, attaches and      *)
(* detaches backends, and completes it in a finally.  The registry may     *)
(* drop an operation long before its owner is done with it.  An operation  *)
(* whose owner has returned is gone: nobody has it any more, and the next  *)
(* Begin may take its place.                                               *)
(***************************************************************************)
EXTENDS Naturals

CONSTANTS Keys,    \* session keys
          Ids,     \* session ids
          Owner,   \* session id -> the key that has it in the session store
          Ops,     \* operations there are at a time
          Waiters, \* callers that wait for the end of a run
          None

ASSUME ConstantsAssumption ==
  /\ Owner \in [Ids -> Keys]
  /\ None \notin Keys /\ None \notin Ids /\ None \notin Ops

VARIABLES
  active,    \* activeRunsByKey: key -> operation, or None
  idOf,      \* activeSessionIdsByKey: key -> session id, or None
  keyOf,     \* activeKeysBySessionId: session id -> key, or None
  waitKey,   \* waitKeysBySessionId: session id -> key, or None
  waitersOn, \* waitersByKey: key -> set of waiters
  key,       \* operation -> its sessionKey
  session,   \* operation -> its currentSessionId
  phase,     \* operation -> its phase, or "gone"
  result,    \* operation -> kind of its result, or "none"
  signal,    \* operations whose abort signal was raised
  cleared,   \* operations with stateCleared, and those that are gone
  backend,   \* operation -> state of the backend its owner runs
  told,      \* waiter -> what it was told
  awaits,    \* waiter -> operations in the registry when it asked, not ended since
  held       \* operation -> session ids it has had

registry == <<active, idOf, keyOf, waitKey, waitersOn, told, awaits>>
vars == <<active, idOf, keyOf, waitKey, waitersOn, key, session, phase, result,
          signal, cleared, backend, told, awaits, held>>

Compacting == {"preflight_compacting", "memory_flushing"}
Running == Compacting \cup {"queued", "running"}
Phases == Running \cup {"failed", "aborted", "gone"}

\* A backend is attached unless it came too late; it works on until the
\* owner detaches it, cancelled or not.
Attached == {"working", "cancelled"}
Backends == Attached \cup {"none", "refused"}

TypeOK ==
  /\ active \in [Keys -> Ops \cup {None}]
  /\ idOf \in [Keys -> Ids \cup {None}]
  /\ keyOf \in [Ids -> Keys \cup {None}]
  /\ waitKey \in [Ids -> Keys \cup {None}]
  /\ waitersOn \in [Keys -> SUBSET Waiters]
  /\ key \in [Ops -> Keys \cup {None}]
  /\ session \in [Ops -> Ids \cup {None}]
  /\ phase \in [Ops -> Phases]
  /\ result \in [Ops -> {"none", "failed", "aborted"}]
  /\ signal \subseteq Ops
  /\ cleared \subseteq Ops
  /\ backend \in [Ops -> Backends]
  /\ told \in [Waiters -> {"nothing", "waiting", "ended", "timeout"}]
  /\ awaits \in [Waiters -> SUBSET Ops]
  /\ held \in [Ops -> SUBSET Ids]

Init ==
  /\ active = [k \in Keys |-> None]
  /\ idOf = [k \in Keys |-> None]
  /\ keyOf = [s \in Ids |-> None]
  /\ waitKey = [s \in Ids |-> None]
  /\ waitersOn = [k \in Keys |-> {}]
  /\ key = [o \in Ops |-> None]
  /\ session = [o \in Ops |-> None]
  /\ phase = [o \in Ops |-> "gone"]
  /\ result = [o \in Ops |-> "none"]
  /\ signal = {} /\ cleared = Ops
  /\ backend = [o \in Ops |-> "none"]
  /\ told = [w \in Waiters |-> "nothing"]
  /\ awaits = [w \in Waiters |-> {}]
  /\ held = [o \in Ops |-> {}]

-----------------------------------------------------------------------------
(* The registry drops operations *)

\* Mutant: an operation clears the state of its key as often as it ends.
MutToClear(S) == S

\* clearState: the operations of S that have not cleared their state before.
ToClear(S) == S \ cleared

\* Mutant: the waiters of the key are forgotten, not notified.
MutNotified(ks) == UNCHANGED <<told, awaits>>

\* notifyReplyRunEnded for the keys ks.
Notified(ks) ==
  /\ told' = [w \in Waiters |-> IF \E k \in ks : w \in waitersOn[k] THEN "ended" ELSE told[w]]
  /\ awaits' = [w \in Waiters |-> awaits[w] \ {active[k] : k \in ks}]

\* clearReplyRunState for each operation of S that has not done so.  It goes by
\* the key and does not look which operation the key has.
Clear(S) ==
  LET C == ToClear(S)
      ks == {key[o] : o \in C} IN
  /\ cleared' = cleared \cup C
  /\ active' = [k \in Keys |-> IF k \in ks THEN None ELSE active[k]]
  /\ idOf' = [k \in Keys |-> IF k \in ks THEN None ELSE idOf[k]]
  /\ keyOf' = [s \in Ids |-> IF \E o \in C : s = session[o] /\ keyOf[s] = key[o]
                             THEN None ELSE keyOf[s]]
  /\ waitKey' = [s \in Ids |-> IF waitKey[s] \in ks THEN None ELSE waitKey[s]]
  /\ waitersOn' = [k \in Keys |-> IF k \in ks THEN {} ELSE waitersOn[k]]
  /\ Notified(ks)

-----------------------------------------------------------------------------
(* The owner of an operation *)

\* createReplyOperation; the upstream signal may have been raised before.
Begin(o, k, s) ==
  /\ phase[o] = "gone"
  /\ active[k] = None
  /\ Owner[s] = k
  /\ active' = [active EXCEPT ![k] = o]
  /\ idOf' = [idOf EXCEPT ![k] = s]
  /\ keyOf' = [keyOf EXCEPT ![s] = k]
  /\ waitKey' = [waitKey EXCEPT ![s] = k]
  /\ key' = [key EXCEPT ![o] = k]
  /\ session' = [session EXCEPT ![o] = s]
  /\ phase' = [phase EXCEPT ![o] = "queued"]
  /\ cleared' = cleared \ {o}
  /\ held' = [held EXCEPT ![o] = {s}]
  /\ signal' \in {signal, signal \cup {o}}
  /\ UNCHANGED <<waitersOn, result, backend, told, awaits>>

Before == [preflight_compacting |-> {"queued"},
           memory_flushing |-> {"queued", "preflight_compacting"},
           running |-> Running \ {"running"}]

\* setPhase, in the order in which owners call it.
SetPhase(o) ==
  /\ result[o] = "none"
  /\ backend[o] = "none"
  /\ \E p \in DOMAIN Before :
       /\ phase[o] \in Before[p]
       /\ phase' = [phase EXCEPT ![o] = p]
  /\ UNCHANGED <<registry, key, session, result, signal, cleared, backend, held>>

\* Mutant: the id the session had is forgotten.
MutRebound(o, s) == [waitKey EXCEPT ![session[o]] = None, ![s] = key[o]]

\* Session ids by which waiters find the run of o.
Rebound(o, s) == [waitKey EXCEPT ![session[o]] = key[o], ![s] = key[o]]

\* Mutant: the old id still leads to the run.
MutMoved(o, s) == [keyOf EXCEPT ![s] = key[o]]

\* Session ids by which the run of o is found.
Moved(o, s) == [keyOf EXCEPT ![session[o]] = None, ![s] = key[o]]

\* updateSessionId, after a memory flush that compacted the session.
UpdateSessionId(o, s) ==
  /\ result[o] = "none"
  /\ phase[o] = "memory_flushing"
  /\ backend[o] = "none"
  /\ s # session[o]
  /\ Owner[s] = key[o]
  /\ keyOf[s] \in {None, key[o]}
  /\ keyOf' = Moved(o, s)
  /\ idOf' = [idOf EXCEPT ![key[o]] = s]
  /\ waitKey' = Rebound(o, s)
  /\ session' = [session EXCEPT ![o] = s]
  /\ held' = [held EXCEPT ![o] = @ \cup {s}]
  /\ UNCHANGED <<active, waitersOn, told, awaits, key, phase, result, signal, cleared, backend>>

\* What becomes of a backend that is attached to o now.
Received(o) ==
  IF result[o] # "none" THEN "refused"
  ELSE IF o \in signal THEN "cancelled" ELSE "working"

\* attachBackend; the owner of an aborted operation may have a run still to
\* come, as it learns of the abort when the run is cancelled.
AttachBackend(o) ==
  /\ phase[o] \in {"memory_flushing", "running", "aborted"}
  /\ backend[o] = "none"
  /\ backend' = [backend EXCEPT ![o] = Received(o)]
  /\ UNCHANGED <<registry, key, session, phase, result, signal, cleared, held>>

\* detachBackend; the run has ended, cancelled or not.
DetachBackend(o) ==
  /\ backend[o] # "none"
  /\ backend' = [backend EXCEPT ![o] = "none"]
  /\ UNCHANGED <<registry, key, session, phase, result, signal, cleared, held>>

\* The owner reports a failure, and has yet to complete.
Fail(o) ==
  /\ phase[o] # "gone"
  /\ backend[o] = "none"
  /\ IF result[o] = "none"
     THEN /\ result' = [result EXCEPT ![o] = "failed"]
          /\ phase' = [phase EXCEPT ![o] = "failed"]
     ELSE UNCHANGED <<result, phase>>
  /\ Clear({o})
  /\ UNCHANGED <<key, session, signal, backend, held>>

\* complete, and the owner returns; nobody sees the result any more.
Complete(o) ==
  /\ phase[o] # "gone"
  /\ backend[o] = "none"
  /\ Clear({o})
  /\ phase' = [phase EXCEPT ![o] = "gone"]
  /\ result' = [result EXCEPT ![o] = "none"]
  /\ key' = [key EXCEPT ![o] = None]
  /\ session' = [session EXCEPT ![o] = None]
  /\ held' = [held EXCEPT ![o] = {}]
  /\ signal' = signal \ {o}
  /\ UNCHANGED backend

-----------------------------------------------------------------------------
(* Those who abort runs *)

\* The upstream signal of o is raised; a backend listens to it by itself.
RaiseSignal(o) ==
  /\ phase[o] # "gone"
  /\ o \notin signal
  /\ signal' = signal \cup {o}
  /\ UNCHANGED <<registry, key, session, phase, result, cleared, backend, held>>

\* Mutant: the backends are left working.
MutCancelled(S) == backend

\* The backends of the operations S are cancelled.
Cancelled(S) ==
  [o \in Ops |-> IF o \in S /\ backend[o] = "working" THEN "cancelled" ELSE backend[o]]

\* abortByUser or abortForRestart on the operations S; one that is still
\* queued gives up its key at once.
Abort(S) ==
  /\ S # {}
  /\ result' = [o \in Ops |-> IF o \in S /\ result[o] = "none" THEN "aborted" ELSE result[o]]
  /\ phase' = [o \in Ops |-> IF o \in S THEN "aborted" ELSE phase[o]]
  /\ signal' = signal \cup S
  /\ backend' = Cancelled(S)
  /\ Clear({o \in S : phase[o] = "queued"})
  /\ UNCHANGED <<key, session, held>>

RunsOf(ks) == {active[k] : k \in ks} \ {None}

AbortByKey(k) == Abort(RunsOf({k}))

AbortBySessionId(s) == Abort(RunsOf({keyOf[s]} \ {None}))

AbortAll == Abort(RunsOf(Keys))

\* Those in a compacting phase, and some of those with a backend at work,
\* which may be compacting as well.
AbortCompacting ==
  LET sure == {o \in RunsOf(Keys) : phase[o] \in Compacting}
      perhaps == {o \in RunsOf(Keys) : phase[o] = "running" /\ backend[o] \in Attached} IN
  \E S \in SUBSET perhaps : Abort(sure \cup S)

-----------------------------------------------------------------------------
(* Those who wait *)

\* waitForIdle on key k, which is None if nothing is known of what the waiter
\* asked for; os are the operations it asked for that are in the registry.
Wait(w, k, os) ==
  /\ told[w] # "waiting"
  /\ awaits' = [awaits EXCEPT ![w] = os]
  /\ IF RunsOf({k} \ {None}) = {}
     THEN /\ told' = [told EXCEPT ![w] = "ended"]
          /\ UNCHANGED waitersOn
     ELSE /\ told' = [told EXCEPT ![w] = "waiting"]
          /\ waitersOn' = [waitersOn EXCEPT ![k] = @ \cup {w}]
  /\ UNCHANGED <<active, idOf, keyOf, waitKey, key, session, phase, result,
                 signal, cleared, backend, held>>

WaitForIdle(w, k) == Wait(w, k, RunsOf({k}))

\* Mutant: only the id a session has now leads to its run.
MutWaitKeyFor(s) == keyOf[s]

\* resolveReplyRunWaitKey
WaitKeyFor(s) == IF keyOf[s] # None THEN keyOf[s] ELSE waitKey[s]

\* waitForReplyRunEndBySessionId: s may be an id the session had before.
WaitBySessionId(w, s) == Wait(w, WaitKeyFor(s), {o \in RunsOf(Keys) : s \in held[o]})

Timeout(w) ==
  /\ told[w] = "waiting"
  /\ told' = [told EXCEPT ![w] = "timeout"]
  /\ waitersOn' = [k \in Keys |-> waitersOn[k] \ {w}]
  /\ UNCHANGED <<active, idOf, keyOf, waitKey, key, session, phase, result,
                 signal, cleared, backend, awaits, held>>

Next ==
  \/ \E o \in Ops :
       \/ \E s \in Ids : UpdateSessionId(o, s) \/ \E k \in Keys : Begin(o, k, s)
       \/ SetPhase(o) \/ AttachBackend(o) \/ DetachBackend(o)
       \/ Fail(o) \/ Complete(o) \/ RaiseSignal(o)
  \/ \E k \in Keys : AbortByKey(k)
  \/ \E s \in Ids : AbortBySessionId(s)
  \/ AbortAll
  \/ AbortCompacting
  \/ \E w \in Waiters :
       \/ \E k \in Keys : WaitForIdle(w, k)
       \/ \E s \in Ids : WaitBySessionId(w, s)
       \/ Timeout(w)

Spec == Init /\ [][Next]_vars
-----------------------------------------------------------------------------
(* Properties *)

\* The indexes agree with the operations through every rebinding, abort and
\* late end: a key has a session id if and only if it has a run, and a run is
\* found by exactly the id its session has now.
IndexesAgree ==
  /\ \A k \in Keys : active[k] # None =>
       /\ key[active[k]] = k
       /\ idOf[k] = session[active[k]]
       /\ keyOf[idOf[k]] = k
  /\ \A k \in Keys : active[k] = None => idOf[k] = None
  /\ \A s \in Ids : keyOf[s] # None => idOf[keyOf[s]] = s

\* Whoever waits for the end of a run is known to the key of a run that goes
\* on: it will be told, however the run ends.
NoForgottenWaiter ==
  \A w \in Waiters : told[w] = "waiting" =>
    \E k \in Keys : w \in waitersOn[k] /\ active[k] # None

\* A waiter that was told of the end asked for a run that has left the
\* registry, even if it asked by an id the session had before.
ToldTheTruth ==
  \A w \in Waiters : told[w] = "ended" => awaits[w] = {}

\* A backend that nobody has cancelled belongs to the run its key has now: an
\* aborted or ended operation, and one that gave up its key to another while
\* its owner was still preparing, has no backend at work.
OneBackendPerKey ==
  \A o \in Ops : backend[o] = "working" => active[key[o]] = o /\ result[o] = "none"

\* An operation leaves the registry when it ends itself and not because another
\* one does: the late completion of an aborted operation must not free the
\* session for a third.
EndsOnlyItself ==
  [][\A k \in Keys : active[k] \notin {None, active'[k]} => active[k] \in cleared' \ cleared]_vars
=============================================================================
