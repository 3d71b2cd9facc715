------------------------------ MODULE KeyQueue ------------------------------
(***************************************************************************)
(* What the work queue promises to the controller, without saying how:     *)
(* a key that was added waits, it leaves the queue only by being taken, at *)
(* most one worker holds it, and while it is held it can be added again.   *)
(* A key that was added several times may be taken once for all of them or *)
(* several times.  After Close nothing is promised about what waits.       *)
(*                                                                         *)
(* WorkQueue implements this specification.  KanaryController takes these  *)
(* promises for granted: its pending is waiting, and the guard Available   *)
(* of StartSync is that of Take.                                           *)
(***************************************************************************)
CONSTANTS Keys, Workers, None

VARIABLES
    waiting,   \* keys added and not yet taken
    held,      \* worker -> the key it processes, or None
    open       \* the queue has not been shut down

vars == <<waiting, held, open>>

Init ==
    /\ waiting = {}
    /\ held = [w \in Workers |-> None]
    /\ open = TRUE

\* One handler may enqueue several keys before anything else happens.
Add(S) ==
    /\ waiting' = waiting \cup S
    /\ UNCHANGED <<held, open>>

Take(w, k) ==
    /\ k \in waiting
    /\ held[w] = None
    /\ \A v \in Workers : held[v] # k
    /\ held' = [held EXCEPT ![w] = k]
    /\ waiting' \in {waiting, waiting \ {k}}
    /\ UNCHANGED open

\* A worker that failed may add its key again as it lets go of it.
Release(w) ==
    /\ held[w] # None
    /\ held' = [held EXCEPT ![w] = None]
    /\ waiting' \in {waiting, waiting \cup {held[w]}}
    /\ UNCHANGED open

Close ==
    /\ open
    /\ open' = FALSE
    /\ UNCHANGED <<waiting, held>>

Lose(k) ==
    /\ ~open
    /\ waiting' = waiting \ {k}
    /\ UNCHANGED <<held, open>>

Next ==
    \/ \E S \in SUBSET Keys : Add(S)
    \/ \E w \in Workers, k \in Keys : Take(w, k)
    \/ \E w \in Workers : Release(w)
    \/ Close
    \/ \E k \in Keys : Lose(k)

Spec == Init /\ [][Next]_vars
=============================================================================
