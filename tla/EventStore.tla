----------------------------- MODULE EventStore -----------------------------
(***************************************************************************)
(* The append-only JSONL ledger of memory/event_store.py, shared by the    *)
(* controller and the command-line tools: a lock, an append that repairs,  *)
(* reads, checks, writes and syncs, and reads that may repair a torn tail. *)
(* A process may be killed at any step, a write or a sync may fail, and    *)
(* the machine may lose power with writes still in its cache.              *)
(*                                                                         *)
(* An event is its idempotency key.  The file is its complete lines and    *)
(* whether an incomplete fragment follows them.                            *)
(***************************************************************************)
EXTENDS Naturals, Sequences

CONSTANTS
    Processes,      \* the controller and the tools that open the ledger
    Keys,           \* idempotency keys that may be appended
    Admits(_, _),   \* Admits(prefix, k): the transition validator's verdict
    MaxFailures,    \* bound: kills, failed writes and failed syncs
    MaxPowerLosses  \* bound: losses of power

VARIABLES
    file,   \* the ledger as processes see it: complete lines, torn fragment
    synced, \* the ledger as the disk has it
    lock,   \* the process that holds the lock file, or Free
    proc,   \* proc[p]: where p is in an operation, on which key, what it has read
    acks,   \* history: the appends acknowledged, and whether by their own sync
    spent   \* failures and power losses so far

vars == <<file, synced, lock, proc, acks, spent>>

Free == "free"

ASSUME StoreAssumption == Free \notin Processes

NoKey == "none"
Idle == [pc |-> "idle", op |-> "none", key |-> NoKey, seen |-> <<>>]

\* append and resume's read repair the tail first; a plain read does not.
Repairing == {"append", "resume"}
Operations == Repairing \cup {"read"}

Holds(events, k) == \E i \in 1..Len(events) : events[i] = k

Init ==
    /\ file = [lines |-> <<>>, torn |-> FALSE] /\ synced = file
    /\ lock = Free
    /\ proc = [p \in Processes |-> Idle]
    /\ acks = {}
    /\ spent = [failures |-> 0, power |-> 0]

At(p, pc) == proc[p].pc = pc
Goto(p, pc) == proc' = [proc EXCEPT ![p].pc = pc]

\* _locked's finally: the operation returned or raised.
Leave(p) == proc' = [proc EXCEPT ![p] = Idle] /\ lock' = Free

Begin(p, op, k) ==
    /\ At(p, "idle")
    /\ op = "append" <=> k # NoKey
    /\ proc' = [proc EXCEPT ![p] = [Idle EXCEPT !.pc = "waiting", !.op = op,
                                                !.key = k]]
    /\ UNCHANGED <<file, synced, lock, acks, spent>>

\* Mutant of Lock: an operation does not wait for the lock.
LockIgnored(p) ==
    /\ At(p, "waiting")
    /\ lock' = p
    /\ Goto(p, IF proc[p].op \in Repairing THEN "repairing" ELSE "reading")
    /\ UNCHANGED <<file, synced, acks, spent>>

Lock(p) ==
    /\ At(p, "waiting") /\ lock = Free
    /\ lock' = p
    /\ Goto(p, IF proc[p].op \in Repairing THEN "repairing" ELSE "reading")
    /\ UNCHANGED <<file, synced, acks, spent>>

\* _repair_incomplete_tail_locked cuts the fragment off and syncs the cut.
Truncate(p) ==
    /\ At(p, "repairing")
    /\ IF file.torn THEN file' = [file EXCEPT !.torn = FALSE] /\ Goto(p, "cut")
       ELSE UNCHANGED file /\ Goto(p, "reading")
    /\ UNCHANGED <<synced, lock, acks, spent>>

SyncCut(p) ==
    /\ At(p, "cut")
    /\ synced' = file /\ Goto(p, "reading")
    /\ UNCHANGED <<file, lock, acks, spent>>

\* _read_locked raises LedgerCorruptionError over a fragment.
Read(p) ==
    /\ At(p, "reading")
    /\ IF proc[p].op = "append" /\ ~file.torn
       THEN /\ proc' = [proc EXCEPT ![p].pc = "checking",
                                    ![p].seen = file.lines]
            /\ UNCHANGED lock
       ELSE IF file.torn THEN Goto(p, "corrupt") /\ UNCHANGED lock
       ELSE Leave(p)
    /\ UNCHANGED <<file, synced, acks, spent>>

Corrupt(p) ==
    /\ At(p, "corrupt") /\ Leave(p)
    /\ UNCHANGED <<file, synced, acks, spent>>

\* Mutant of Check: the key is not looked up.
UncheckedKey(p) ==
    /\ At(p, "checking")
    /\ Goto(p, "writing") /\ UNCHANGED <<file, synced, lock, acks, spent>>

\* An event that is already there is returned as acknowledged (_append catches
\* DuplicateIdempotencyKey); one the validator refuses raises.
Check(p) ==
    /\ At(p, "checking")
    /\ LET k == proc[p].key IN
       IF Holds(proc[p].seen, k)
       THEN Leave(p) /\ acks' = acks \cup {[key |-> k, own |-> FALSE]}
       ELSE IF Admits(proc[p].seen, k)
       THEN Goto(p, "writing") /\ UNCHANGED <<lock, acks>>
       ELSE Leave(p) /\ UNCHANGED acks
    /\ UNCHANGED <<file, synced, spent>>

\* The line reaches the file in pieces: its newline is the last byte.
WritePart(p) ==
    /\ At(p, "writing")
    /\ file' = [file EXCEPT !.torn = TRUE] /\ Goto(p, "newline")
    /\ UNCHANGED <<synced, lock, acks, spent>>

WriteRest(p) ==
    /\ At(p, "newline")
    /\ file' = [lines |-> Append(file.lines, proc[p].key), torn |-> FALSE]
    /\ Goto(p, "syncing")
    /\ UNCHANGED <<synced, lock, acks, spent>>

\* Mutant of Sync: the append is acknowledged without fsync.
FlushedOnly(p) ==
    /\ At(p, "syncing")
    /\ acks' = acks \cup {[key |-> proc[p].key, own |-> TRUE]}
    /\ Leave(p)
    /\ UNCHANGED <<file, synced, spent>>

\* fsync, then the append returns (event_store.py:280).
Sync(p) ==
    /\ At(p, "syncing")
    /\ synced' = file
    /\ acks' = acks \cup {[key |-> proc[p].key, own |-> TRUE]}
    /\ Leave(p)
    /\ UNCHANGED <<file, spent>>

(***************************************************************************)
(* Failures.  A process that dies, or a write or a sync that raises,       *)
(* leaves the file as it is and the lock free.                             *)
(***************************************************************************)
Fail(p) ==
    /\ ~At(p, "idle") /\ spent.failures < MaxFailures
    /\ spent' = [spent EXCEPT !.failures = @ + 1]
    /\ proc' = [proc EXCEPT ![p] = Idle]
    /\ lock' = IF lock = p THEN Free ELSE lock
    /\ UNCHANGED <<file, synced, acks>>

\* What the disk may be left with: what was synced, or any part of what was
\* written or cut since.
Survivors ==
    {synced, file} \cup
    {[lines |-> SubSeq(file.lines, 1, n), torn |-> torn] :
        n \in Len(synced.lines)..Len(file.lines) - 1, torn \in BOOLEAN}

PowerLoss ==
    /\ spent.power < MaxPowerLosses
    /\ spent' = [spent EXCEPT !.power = @ + 1]
    /\ \E left \in Survivors : file' = left /\ synced' = left
    /\ proc' = [p \in Processes |-> Idle] /\ lock' = Free
    /\ UNCHANGED acks

Step(p) ==
    \/ \E op \in Operations, k \in Keys \cup {NoKey} : Begin(p, op, k)
    \/ Lock(p) \/ Truncate(p) \/ SyncCut(p) \/ Read(p) \/ Corrupt(p)
    \/ Check(p) \/ WritePart(p) \/ WriteRest(p) \/ Sync(p) \/ Fail(p)

Next == PowerLoss \/ \E p \in Processes : Step(p)

Spec == Init /\ [][Next]_vars

-----------------------------------------------------------------------------
(***************************************************************************)
(* Properties.                                                             *)
(***************************************************************************)
\* The durable lines are a log that only grows by new, admissible events: append
\* (event_store.py:198) implements Ledger through every kill, torn write, failed
\* sync and loss of power.
Durable == INSTANCE Ledger WITH log <- synced.lines
DurableLog == Durable!Spec

\* An append that returned from its own fsync (event_store.py:280) is on disk for good.
SyncedAppendsAreDurable ==
    \A a \in acks : a.own => Holds(synced.lines, a.key)

\* Half a line is met only by a plain read after some process has failed: never by
\* an operation that repairs first, nor because another process is in the middle of
\* its append (_locked and _repair_incomplete_tail_locked, event_store.py:72-115).
OnlyReadsMeetTornTails ==
    \A p \in Processes : At(p, "corrupt") =>
        proc[p].op = "read" /\ spent.failures + spent.power > 0
=============================================================================
