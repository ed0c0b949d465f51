------------------------------- MODULE Ledger -------------------------------
(***************************************************************************)
(* What the event store promises, whatever crashes: a durable log that     *)
(* only grows, holds each idempotency key once, and whose every event is   *)
(* admitted by the events before it, so that it can always be replayed.    *)
(***************************************************************************)
EXTENDS Naturals, Sequences

CONSTANTS
    Keys,           \* idempotency keys; a key fixes its payload (it ends in its hash)
    Admits(_, _)    \* Admits(prefix, k): the transition validator's verdict

VARIABLE log    \* the durable events, by key

Before(events, i) == SubSeq(events, 1, i - 1)
Holds(events, k) == \E i \in 1..Len(events) : events[i] = k

\* Event i is new and legal where it stands.
Sound(events, i) ==
    /\ events[i] \in Keys
    /\ ~Holds(Before(events, i), events[i])
    /\ Admits(Before(events, i), events[i])

Init == log = <<>>

\* One or more events become durable at once.
Extend ==
    /\ Len(log') > Len(log)
    /\ SubSeq(log', 1, Len(log)) = log
    /\ \A i \in Len(log) + 1..Len(log') : Sound(log', i)

Spec == Init /\ [][Extend]_log
=============================================================================
