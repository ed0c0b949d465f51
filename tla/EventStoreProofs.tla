-------------------------- MODULE EventStoreProofs --------------------------
(***************************************************************************)
(* The event store implements the durable log of Ledger, for any number of *)
(* processes, keys, failures and losses of power, and any validator.       *)
(*                                                                         *)
(* The step that matters is the fsync of an append: it makes durable a     *)
(* line that was checked several steps earlier, against what the process   *)
(* had read then.  It is still right because of the lock: between the read *)
(* and the write nobody else touches the file, so what was seen is what is *)
(* there (Locked), and every line of the file, synced or not, is sound     *)
(* where it stands (SoundFile).                                            *)
(***************************************************************************)
EXTENDS EventStore, SequenceTheorems, TLAPS

\* Where a process holds the lock, and where it has read the file under it.
Inside == {"repairing", "cut", "reading", "corrupt", "checking", "writing",
           "newline", "syncing"}
Decided == {"writing", "newline"}
HasRead == {"checking"} \cup Decided

Record == [lines : Seq(Keys), torn : BOOLEAN]

StoreTypeOK ==
    /\ file \in Record /\ synced \in Record
    /\ proc \in [Processes -> [pc : Inside \cup {"idle", "waiting"},
                               op : Operations \cup {"none"},
                               key : Keys \cup {NoKey}, seen : Seq(Keys)]]

Locked == \A p \in Processes : proc[p].pc \in Inside => lock = p

\* What p has read is still the file; what it is about to write is a key, and sound.
Agrees(p) ==
    /\ proc[p].op = "append" => proc[p].key \in Keys
    /\ proc[p].pc \in HasRead =>
          proc[p].seen = file.lines /\ proc[p].op = "append"
    /\ proc[p].pc \in Decided =>
          ~Holds(proc[p].seen, proc[p].key) /\ Admits(proc[p].seen, proc[p].key)

StillCurrent == \A p \in Processes : Agrees(p)

SoundLines(events) == \A i \in 1..Len(events) : Durable!Sound(events, i)
SyncedIsPrefix ==
    /\ Len(synced.lines) <= Len(file.lines)
    /\ synced.lines = SubSeq(file.lines, 1, Len(synced.lines))

StoreInv ==
    StoreTypeOK /\ Locked /\ StillCurrent /\ SoundLines(file.lines) /\ SyncedIsPrefix

-----------------------------------------------------------------------------
(***************************************************************************)
(* Prefixes of sound lines.                                                *)
(***************************************************************************)
\* A prefix of a prefix is a prefix, as the readers of a growing file see it.
LEMMA PrefixOfPrefix ==
    ASSUME NEW f \in Seq(Keys), NEW n \in 0..Len(f), NEW m \in 0..n
    PROVE  /\ SubSeq(f, 1, n) \in Seq(Keys)
           /\ Len(SubSeq(f, 1, n)) = n
           /\ SubSeq(SubSeq(f, 1, n), 1, m) = SubSeq(f, 1, m)
<1>1. \A k \in 0..Len(f) :
        /\ SubSeq(f, 1, k) \in Seq(Keys) /\ Len(SubSeq(f, 1, k)) = k
        /\ \A i \in 1..k : SubSeq(f, 1, k)[i] = f[i]
  <2> TAKE k \in 0..Len(f)
  <2>1. \A i \in 1..k : f[i] \in Keys
    BY ElementOfSeq
  <2> QED
    BY <2>1, SubSeqProperties
<1> DEFINE g == SubSeq(f, 1, n)
<1>2. g \in Seq(Keys) /\ Len(g) = n /\ \A i \in 1..n : g[i] = f[i]
  BY <1>1
<1>3. /\ SubSeq(g, 1, m) \in Seq(Keys) /\ Len(SubSeq(g, 1, m)) = m
      /\ \A i \in 1..m : SubSeq(g, 1, m)[i] = g[i]
  <2>1. \A i \in 1..m : g[i] \in Keys
    BY <1>2, ElementOfSeq
  <2> HIDE DEF g
  <2> QED
    BY <2>1, SubSeqProperties
<1>4. SubSeq(g, 1, m) = SubSeq(f, 1, m)
  <2> HIDE DEF g
  <2>1. m \in 0..Len(f)
    BY LenProperties
  <2>2. \A i \in 1..m : SubSeq(g, 1, m)[i] = SubSeq(f, 1, m)[i]
    BY <1>1, <1>2, <1>3, <2>1
  <2> QED
    BY <1>1, <1>3, <2>1, <2>2, SeqEqual
<1> QED
  BY <1>2, <1>4

\* Cutting a file between two complete lines leaves a sound file.
LEMMA PrefixesAreSound ==
    ASSUME NEW f \in Seq(Keys), NEW n \in 0..Len(f), SoundLines(f)
    PROVE  SoundLines(SubSeq(f, 1, n))
<1> DEFINE g == SubSeq(f, 1, n)
<1>1. Len(g) = n
  BY PrefixOfPrefix
<1> SUFFICES ASSUME NEW i \in 1..n PROVE Durable!Sound(g, i)
  BY <1>1 DEF SoundLines
<1>2. i - 1 \in 0..n /\ i \in 1..Len(f)
  BY LenProperties
<1>3. SubSeq(g, 1, i - 1) = SubSeq(f, 1, i - 1)
  BY <1>2, PrefixOfPrefix
<1>4. g[i] = f[i]
  <2>1. \A j \in 1..n : f[j] \in Keys
    BY ElementOfSeq, LenProperties
  <2> QED
    BY <2>1, SubSeqProperties
<1>5. Durable!Sound(f, i)
  BY <1>2 DEF SoundLines
<1> QED
  BY <1>3, <1>4, <1>5 DEF Durable!Sound, Durable!Before

\* Writing a new, admitted event at the end leaves a sound file.
LEMMA AppendsAreSound ==
    ASSUME NEW f \in Seq(Keys), NEW k \in Keys, SoundLines(f),
           ~Holds(f, k), Admits(f, k)
    PROVE  SoundLines(Append(f, k))
<1> DEFINE g == Append(f, k)
<1>1. /\ g \in Seq(Keys) /\ Len(g) = Len(f) + 1 /\ Len(f) \in Nat
      /\ g[Len(f) + 1] = k /\ \A i \in 1..Len(f) : g[i] = f[i]
  BY AppendProperties, LenProperties
<1>2. SubSeq(g, 1, Len(f)) = f
  <2> DEFINE h == SubSeq(g, 1, Len(f))
  <2>1. h \in Seq(Keys) /\ Len(h) = Len(f)
    BY <1>1, PrefixOfPrefix
  <2>2. \A i \in 1..Len(f) : h[i] = f[i]
    <3>1. \A i \in 1..Len(f) : g[i] \in Keys
      BY <1>1, ElementOfSeq
    <3> HIDE DEF g
    <3> QED
      BY <1>1, <3>1, SubSeqProperties
  <2> QED
    BY <2>1, <2>2, SeqEqual
<1> SUFFICES ASSUME NEW i \in 1..Len(g) PROVE Durable!Sound(g, i)
  BY DEF SoundLines
<1>3. CASE i = Len(f) + 1
  <2>1. SubSeq(g, 1, i - 1) = f /\ g[i] = k
    BY <1>1, <1>2, <1>3
  <2>2. ~Durable!Holds(f, k)
    BY DEF Durable!Holds, Holds
  <2> HIDE DEF g
  <2> QED
    BY <2>1, <2>2 DEF Durable!Sound, Durable!Before
<1>4. CASE i \in 1..Len(f)
  <2>1. SubSeq(g, 1, i - 1) = SubSeq(f, 1, i - 1)
    BY <1>1, <1>2, <1>4, PrefixOfPrefix
  <2>2. Durable!Sound(f, i) /\ g[i] = f[i]
    BY <1>1, <1>4 DEF SoundLines
  <2> QED
    BY <2>1, <2>2 DEF Durable!Sound, Durable!Before
<1> QED
  BY <1>1, <1>3, <1>4
\* What was at the front of the file before an append is still there after it.
LEMMA PrefixOfAppend ==
    ASSUME NEW f \in Seq(Keys), NEW k \in Keys, NEW n \in 0..Len(f)
    PROVE  SubSeq(Append(f, k), 1, n) = SubSeq(f, 1, n)
<1> DEFINE g == Append(f, k)
           s == SubSeq(g, 1, n)
           t == SubSeq(f, 1, n)
<1>1. /\ g \in Seq(Keys) /\ Len(g) = Len(f) + 1 /\ Len(f) \in Nat
      /\ \A i \in 1..Len(f) : g[i] = f[i] /\ f[i] \in Keys
  BY AppendProperties, LenProperties, ElementOfSeq
<1>2. s \in Seq(Keys) /\ Len(s) = n /\ \A i \in 1..n : s[i] = f[i]
  <2>1. \A i \in 1..n : g[i] \in Keys /\ g[i] = f[i]
    BY <1>1
  <2> HIDE DEF g
  <2> QED
    BY <1>1, <2>1, SubSeqProperties
<1>3. t \in Seq(Keys) /\ Len(t) = n /\ \A i \in 1..n : t[i] = f[i]
  <2>1. \A i \in 1..n : f[i] \in Keys
    BY <1>1
  <2> QED
    BY <1>1, <2>1, SubSeqProperties
<1> HIDE DEF s, t
<1>4. s = t
  BY <1>2, <1>3, SeqEqual
<1> QED
  BY <1>4 DEF s, t

\* A loss of power leaves a file that was sound already: part of the present one.
LEMMA SurvivorsAreSound ==
    ASSUME StoreInv, NEW left \in Survivors
    PROVE  /\ left \in Record /\ SoundLines(left.lines)
           /\ \E n \in Len(synced.lines)..Len(file.lines) :
                 left.lines = SubSeq(file.lines, 1, n)
<1>1. /\ file \in Record /\ synced \in Record /\ SoundLines(file.lines)
      /\ Len(synced.lines) \in 0..Len(file.lines) /\ Len(file.lines) \in Nat
      /\ synced.lines = SubSeq(file.lines, 1, Len(synced.lines))
  BY LenProperties DEF StoreInv, StoreTypeOK, Record, SyncedIsPrefix
<1>2. file.lines = SubSeq(file.lines, 1, Len(file.lines))
  BY <1>1, SubSeqFull DEF Record
<1>3. PICK n \in Len(synced.lines)..Len(file.lines) :
        left.lines = SubSeq(file.lines, 1, n) /\ left.torn \in BOOLEAN
  <2>1. CASE left = synced
    BY <1>1, <2>1 DEF Record
  <2>2. CASE left = file
    BY <1>1, <1>2, <2>2 DEF Record
  <2>3. CASE left \notin {synced, file}
    <3>1. PICK n \in Len(synced.lines)..Len(file.lines) - 1, torn \in BOOLEAN :
            left = [lines |-> SubSeq(file.lines, 1, n), torn |-> torn]
      BY <2>3 DEF Survivors
    <3> QED
      BY <1>1, <3>1
  <2> QED
    BY <2>1, <2>2, <2>3
<1>4. left = [lines |-> left.lines, torn |-> left.torn]
  BY <1>1 DEF Survivors, Record
<1>5. left.lines \in Seq(Keys) /\ SoundLines(left.lines)
  BY <1>1, <1>3, PrefixOfPrefix, PrefixesAreSound DEF Record
<1> QED
  BY <1>3, <1>4, <1>5 DEF Record

-----------------------------------------------------------------------------
(***************************************************************************)
(* The invariant is inductive.                                             *)
(***************************************************************************)
\* An empty ledger (read as no events, event_store.py:125) satisfies the invariant.
THEOREM StoreInit == Init => StoreInv
<1> SUFFICES ASSUME Init PROVE StoreInv
  OBVIOUS
<1>1. <<>> \in Seq(Keys) /\ Len(<<>>) = 0
  BY EmptySeq
<1>2. StoreTypeOK /\ Locked /\ StillCurrent
  BY <1>1 DEF Init, StoreTypeOK, Record, Locked, StillCurrent, Agrees, Idle, NoKey, Inside,
              HasRead, Decided
<1>3. SoundLines(file.lines) /\ SyncedIsPrefix
  <2>1. file.lines = <<>> /\ synced.lines = <<>>
    BY DEF Init
  <2>2. SubSeq(<<>>, 1, 0) = <<>>
    BY SubSeqEmpty
  <2> QED
    BY <1>1, <2>1, <2>2 DEF SoundLines, SyncedIsPrefix
<1> QED
  BY <1>2, <1>3 DEF StoreInv

\* A step of p that leaves the lines alone keeps the invariant if p itself still
\* agrees with them, and only the holder of the lock gives it up.
LEMMA QuietStep ==
    ASSUME StoreInv, NEW p \in Processes, StoreTypeOK',
           file'.lines = file.lines, synced'.lines \in {synced.lines, file.lines},
           \A q \in Processes \ {p} : proc'[q] = proc[q],
           lock' = lock \/ lock \in {Free, p},
           proc'[p].pc \in Inside => lock' = p, Agrees(p)'
    PROVE  StoreInv'
<1>1. Locked'
  BY StoreAssumption DEF StoreInv, Locked
<1>2. StillCurrent'
  BY DEF StoreInv, StillCurrent, Agrees
<1>3. SoundLines(file.lines)'
  BY DEF StoreInv, SoundLines, Durable!Sound, Durable!Before, Durable!Holds
<1>4. SyncedIsPrefix'
  <2>1. file.lines \in Seq(Keys)
    BY DEF StoreInv, StoreTypeOK, Record
  <2>2. SubSeq(file.lines, 1, Len(file.lines)) = file.lines /\ Len(file.lines) \in Nat
    BY <2>1, SubSeqFull, LenProperties
  <2> QED
    BY <2>2 DEF StoreInv, SyncedIsPrefix
<1> QED
  BY <1>1, <1>2, <1>3, <1>4 DEF StoreInv

\* Every step of an append, a read, a failure or a loss of power keeps it
\* (event_store.py:72-281).
THEOREM StoreStep == StoreInv /\ [Next]_vars => StoreInv'
<1> SUFFICES ASSUME StoreInv, [Next]_vars PROVE StoreInv'
  OBVIOUS
<1> USE DEF Repairing, Operations, Inside, HasRead, Decided
<1>t. StoreTypeOK /\ Locked /\ StillCurrent /\ <<>> \in Seq(Keys)
  BY EmptySeq DEF StoreInv
<1>q. ASSUME NEW p \in Processes, StoreTypeOK', UNCHANGED file.lines,
             synced'.lines \in {synced.lines, file.lines},
             \A q \in Processes \ {p} : proc'[q] = proc[q],
             lock' = lock \/ lock \in {Free, p},
             proc'[p].pc \in Inside => lock' = p, Agrees(p)'
      PROVE  StoreInv'
  BY <1>q, QuietStep
<1>1. ASSUME NEW p \in Processes, NEW op \in Operations, NEW k \in Keys \cup {NoKey},
             Begin(p, op, k)
      PROVE  StoreInv'
  <2>1. StoreTypeOK'
    BY <1>1, <1>t DEF Begin, StoreTypeOK, Idle
  <2>2. Agrees(p)'
    BY <1>1, <1>t DEF Begin, StoreTypeOK, Idle, Agrees
  <2> QED
    BY <1>1, <1>t, <1>q, <2>1, <2>2 DEF Begin, StoreTypeOK, Idle
<1>2. ASSUME NEW p \in Processes, Lock(p) PROVE StoreInv'
  <2>1. StoreTypeOK' /\ Agrees(p)'
    BY <1>2, <1>t DEF Lock, Goto, At, StoreTypeOK, StillCurrent, Agrees
  <2> QED
    BY <1>2, <1>t, <1>q, <2>1 DEF Lock, Goto, At, StoreTypeOK
<1>3. ASSUME NEW p \in Processes, Truncate(p) PROVE StoreInv'
  <2>1. /\ file' \in Record /\ file'.lines = file.lines /\ UNCHANGED <<synced, lock>>
        /\ \E pc \in {"cut", "reading"} : proc' = [proc EXCEPT ![p].pc = pc]
    BY <1>3, <1>t DEF Truncate, Goto, StoreTypeOK, Record
  <2>2. StoreTypeOK'
    <3>1. PICK pc \in {"cut", "reading"} : proc' = [proc EXCEPT ![p].pc = pc]
      BY <2>1
    <3> DEFINE r == [proc[p] EXCEPT !.pc = pc]
    <3>2. r \in [pc : Inside \cup {"idle", "waiting"}, op : Operations \cup {"none"},
                 key : Keys \cup {NoKey}, seen : Seq(Keys)]
      BY <1>t, <3>1 DEF StoreTypeOK
    <3>3. proc' = [proc EXCEPT ![p] = r]
      BY <1>t, <3>1 DEF StoreTypeOK
    <3> HIDE DEF r
    <3> QED
      BY <1>t, <2>1, <3>2, <3>3 DEF StoreTypeOK
  <2>3. Agrees(p)'
    BY <1>t, <2>1 DEF StoreTypeOK, StillCurrent, Agrees
  <2> QED
    BY <1>3, <1>t, <1>q, <2>1, <2>2, <2>3 DEF Truncate, Goto, At, StoreTypeOK, Record, Locked
<1>4. ASSUME NEW p \in Processes, SyncCut(p) PROVE StoreInv'
  <2>1. StoreTypeOK' /\ Agrees(p)'
    BY <1>4, <1>t DEF SyncCut, Goto, At, StoreTypeOK, StillCurrent, Agrees
  <2> QED
    BY <1>4, <1>t, <1>q, <2>1 DEF SyncCut, Goto, At, StoreTypeOK, Locked
<1>l. ASSUME NEW p \in Processes, proc[p].pc \in Inside, Leave(p), UNCHANGED file,
             synced' \in {synced, file}
      PROVE  StoreInv'
  <2>1. StoreTypeOK' /\ Agrees(p)'
    BY <1>l, <1>t DEF Leave, Idle, StoreTypeOK, Agrees
  <2> QED
    BY <1>l, <1>t, <1>q, <2>1 DEF Leave, Idle, StoreTypeOK, Locked
<1>5. ASSUME NEW p \in Processes, Read(p) PROVE StoreInv'
  <2>1. CASE proc[p].op = "append" /\ ~file.torn
    <3>1. /\ proc' = [proc EXCEPT ![p].pc = "checking", ![p].seen = file.lines]
          /\ UNCHANGED <<file, synced, lock>> /\ file.lines \in Seq(Keys)
      BY <1>5, <1>t, <2>1 DEF Read, StoreTypeOK, Record
    <3>2. StoreTypeOK'
      <4> DEFINE r == [proc[p] EXCEPT !.pc = "checking", !.seen = file.lines]
      <4>1. r \in [pc : Inside \cup {"idle", "waiting"}, op : Operations \cup {"none"},
                   key : Keys \cup {NoKey}, seen : Seq(Keys)]
        BY <1>t, <3>1 DEF StoreTypeOK
      <4>2. proc' = [proc EXCEPT ![p] = r]
        BY <1>t, <3>1 DEF StoreTypeOK
      <4> HIDE DEF r
      <4> QED
        BY <1>t, <3>1, <4>1, <4>2 DEF StoreTypeOK
    <3>3. Agrees(p)'
      BY <1>t, <2>1, <3>1 DEF StoreTypeOK, StillCurrent, Agrees
    <3> QED
      BY <1>5, <1>t, <1>q, <2>1, <3>1, <3>2, <3>3 DEF Read, At, StoreTypeOK, Locked
  <2>2. CASE file.torn
    <3>1. /\ proc' = [proc EXCEPT ![p].pc = "corrupt"]
          /\ UNCHANGED <<file, synced, lock>>
      BY <1>5, <2>2 DEF Read, Goto
    <3>2. StoreTypeOK' /\ Agrees(p)'
      BY <1>t, <3>1 DEF StoreTypeOK, StillCurrent, Agrees
    <3> QED
      BY <1>5, <1>t, <1>q, <2>2, <3>1, <3>2 DEF Read, At, Goto, StoreTypeOK, Locked
  <2>3. CASE proc[p].op # "append" /\ ~file.torn
    BY <1>5, <1>l, <2>3 DEF Read, At
  <2> QED
    BY <2>1, <2>2, <2>3
<1>6. ASSUME NEW p \in Processes, Corrupt(p) PROVE StoreInv'
  BY <1>6, <1>l DEF Corrupt, At
<1>7. ASSUME NEW p \in Processes, Check(p) PROVE StoreInv'
  <2>1. CASE Leave(p)
    BY <1>7, <1>l, <2>1 DEF Check, At
  <2>2. CASE /\ ~Holds(proc[p].seen, proc[p].key) /\ Admits(proc[p].seen, proc[p].key)
             /\ Goto(p, "writing") /\ UNCHANGED lock
    <3>1. StoreTypeOK' /\ Agrees(p)'
      BY <1>7, <1>t, <2>2 DEF Check, Goto, At, StoreTypeOK, StillCurrent, Agrees
    <3> QED
      BY <1>7, <1>t, <1>q, <2>2, <3>1 DEF Check, Goto, At, StoreTypeOK, Locked
  <2> QED
    BY <1>7, <2>1, <2>2 DEF Check
<1>8. ASSUME NEW p \in Processes, WritePart(p) PROVE StoreInv'
  <2>1. StoreTypeOK' /\ Agrees(p)'
    BY <1>8, <1>t DEF WritePart, Goto, At, StoreTypeOK, Record, StillCurrent, Agrees
  <2> QED
    BY <1>8, <1>t, <1>q, <2>1 DEF WritePart, Goto, At, StoreTypeOK, Record, Locked
<1>9. ASSUME NEW p \in Processes, WriteRest(p) PROVE StoreInv'
  <2> DEFINE f == file.lines
             k == proc[p].key
  <2>1. /\ f \in Seq(Keys) /\ k \in Keys /\ lock = p
        /\ ~Holds(f, k) /\ Admits(f, k) /\ SoundLines(f)
    BY <1>9, <1>t DEF WriteRest, At, StoreTypeOK, Record, StillCurrent, Agrees, Locked,
                      StoreInv
  <2>2. /\ file' = [lines |-> Append(f, k), torn |-> FALSE] /\ UNCHANGED <<synced, lock>>
        /\ proc' = [proc EXCEPT ![p].pc = "syncing"]
    BY <1>9 DEF WriteRest, Goto
  <2>3. Append(f, k) \in Seq(Keys) /\ SoundLines(Append(f, k))
    BY <2>1, AppendsAreSound, AppendProperties
  <2>4. StoreTypeOK'
    <3>1. file' \in Record
      BY <2>2, <2>3 DEF Record
    <3> QED
      BY <1>t, <2>2, <3>1 DEF StoreTypeOK
  <2>5. Locked'
    BY <1>t, <2>1, <2>2 DEF Locked, StoreTypeOK
  <2>6. StillCurrent'
    <3> SUFFICES ASSUME NEW q \in Processes PROVE Agrees(q)'
      BY DEF StillCurrent
    <3>1. CASE q = p
      BY <1>t, <2>2, <3>1 DEF StillCurrent, Agrees, StoreTypeOK
    <3>2. CASE q # p
      \* Only the writer had read the file.
      BY <1>t, <2>1, <2>2, <3>2 DEF Locked, StillCurrent, Agrees, StoreTypeOK
    <3> QED
      BY <3>1, <3>2
  <2>7. SyncedIsPrefix'
    <3>1. Len(synced.lines) \in 0..Len(f) /\ Len(Append(f, k)) = Len(f) + 1
      BY <1>t, <2>1, AppendProperties, LenProperties
         DEF StoreInv, SyncedIsPrefix, StoreTypeOK, Record
    <3>2. SubSeq(Append(f, k), 1, Len(synced.lines)) = SubSeq(f, 1, Len(synced.lines))
      BY <2>1, <3>1, PrefixOfAppend
    <3> QED
      BY <2>2, <3>1, <3>2, LenProperties, <2>1 DEF StoreInv, SyncedIsPrefix
  <2> QED
    BY <2>2, <2>3, <2>4, <2>5, <2>6, <2>7 DEF StoreInv
<1>10. ASSUME NEW p \in Processes, Sync(p) PROVE StoreInv'
  BY <1>10, <1>l DEF Sync, At
<1>11. ASSUME NEW p \in Processes, Fail(p) PROVE StoreInv'
  <2>1. StoreTypeOK' /\ Agrees(p)'
    BY <1>11, <1>t DEF Fail, Idle, StoreTypeOK, Agrees
  <2> QED
    BY <1>11, <1>t, <1>q, <2>1 DEF Fail, Idle, StoreTypeOK
<1>12. ASSUME PowerLoss PROVE StoreInv'
  <2>1. PICK left \in Survivors : file' = left /\ synced' = left
    BY <1>12 DEF PowerLoss
  <2>2. left \in Record /\ SoundLines(left.lines)
    BY SurvivorsAreSound
  <2>3. proc' = [p \in Processes |-> Idle]
    BY <1>12 DEF PowerLoss
  <2>4. StoreTypeOK' /\ Locked' /\ StillCurrent'
    BY <1>t, <2>1, <2>2, <2>3 DEF StoreTypeOK, Locked, StillCurrent, Agrees, Idle, NoKey
  <2>5. SyncedIsPrefix'
    <3>1. SubSeq(left.lines, 1, Len(left.lines)) = left.lines /\ Len(left.lines) \in Nat
      BY <2>2, SubSeqFull, LenProperties DEF Record
    <3> QED
      BY <2>1, <3>1 DEF SyncedIsPrefix
  <2> QED
    BY <2>1, <2>2, <2>4, <2>5 DEF StoreInv
<1>13. CASE UNCHANGED vars
  BY <1>13 DEF vars, StoreInv, StoreTypeOK, Record, Locked, StillCurrent, Agrees,
               SoundLines, SyncedIsPrefix, Durable!Sound, Durable!Before, Durable!Holds
<1> QED
  BY <1>1, <1>2, <1>3, <1>4, <1>5, <1>6, <1>7, <1>8, <1>9, <1>10, <1>11, <1>12, <1>13
     DEF Next, Step

-----------------------------------------------------------------------------
(***************************************************************************)
(* The store implements the durable log.                                   *)
(***************************************************************************)
\* Syncing any more of a sound file extends the log by sound events.
LEMMA MoreIsDurable ==
    ASSUME StoreInv, NEW n \in Len(synced.lines)..Len(file.lines),
           synced'.lines = SubSeq(file.lines, 1, n)
    PROVE  [Durable!Extend]_(synced.lines)
<1> DEFINE f == file.lines
           old == synced.lines
           new == SubSeq(f, 1, n)
<1>1. /\ f \in Seq(Keys) /\ SoundLines(f) /\ Len(old) \in 0..n /\ n \in 0..Len(f)
      /\ old = SubSeq(f, 1, Len(old)) /\ Len(f) \in Nat /\ n \in Nat /\ Len(old) \in Nat
  BY LenProperties DEF StoreInv, StoreTypeOK, Record, SyncedIsPrefix
<1>2. Len(new) = n /\ SubSeq(new, 1, Len(old)) = old /\ SoundLines(new)
  BY <1>1, PrefixOfPrefix, PrefixesAreSound
<1>3. CASE n = Len(old)
  BY <1>1, <1>3
<1>4. CASE n # Len(old)
  <2>1. n > Len(old)
    BY <1>1, <1>4
  <2>2. \A i \in Len(old) + 1..Len(new) : Durable!Sound(new, i)
    <3>1. \A i \in Len(old) + 1..n : i \in 1..n
      BY <1>1
    <3> HIDE DEF new
    <3> QED
      BY <1>2, <3>1 DEF SoundLines
  <2> QED
    BY <1>2, <2>1, <2>2 DEF Durable!Extend
<1> QED
  BY <1>3, <1>4

\* Every step extends the durable log or leaves it.
LEMMA StoreExtendsLedger ==
    StoreInv /\ [Next]_vars => [Durable!Extend]_(synced.lines)
<1> SUFFICES ASSUME StoreInv, [Next]_vars PROVE [Durable!Extend]_(synced.lines)
  OBVIOUS
<1>1. Len(synced.lines) <= Len(file.lines) /\ Len(file.lines) \in Nat
      /\ Len(synced.lines) \in Nat /\ file.lines \in Seq(Keys)
  BY LenProperties DEF StoreInv, StoreTypeOK, Record, SyncedIsPrefix
<1>2. CASE synced' = file
  <2>1. file.lines = SubSeq(file.lines, 1, Len(file.lines))
    BY <1>1, SubSeqFull
  <2> QED
    BY <1>1, <1>2, <2>1, MoreIsDurable
<1>3. CASE PowerLoss
  BY <1>3, SurvivorsAreSound, MoreIsDurable DEF PowerLoss
<1>4. CASE synced' = synced
  BY <1>4
<1>5. synced' = file \/ PowerLoss \/ synced' = synced
  BY DEF Next, Step, vars, Begin, Lock, Truncate, SyncCut, Read, Corrupt, Check,
         WritePart, WriteRest, Sync, Fail
<1> QED
  BY <1>2, <1>3, <1>4, <1>5

\* Whoever crashes, fails or loses power, the durable ledger only grows, by events
\* that are new and that the validator admits after those before them
\* (event_store.py:198-281).
THEOREM StoreImplementsLedger == Spec => DurableLog
<1>1. Init => Durable!Init
  BY DEF Init, Durable!Init
<1> QED
  BY <1>1, StoreInit, StoreStep, StoreExtendsLedger, PTL DEF Spec, DurableLog, Durable!Spec

-----------------------------------------------------------------------------
(***************************************************************************)
(* What fsync acknowledged stays on disk.                                  *)
(***************************************************************************)
\* An event in the log stays in every longer one.
LEMMA HeldInLonger ==
    ASSUME NEW s \in Seq(Keys), NEW t \in Seq(Keys), NEW k, Holds(s, k),
           Len(s) <= Len(t), SubSeq(t, 1, Len(s)) = s
    PROVE  Holds(t, k)
<1>1. PICK i \in 1..Len(s) : s[i] = k
  BY DEF Holds
<1>2. Len(s) \in Nat /\ Len(t) \in Nat
  BY LenProperties
<1>3. \A j \in 1..Len(s) : t[j] \in Keys
  BY <1>2, ElementOfSeq
<1>4. s[i] = t[i]
  BY <1>2, <1>3, SubSeqProperties
<1> QED
  BY <1>1, <1>2, <1>4 DEF Holds

\* A line that is about to be synced is in the file.
Written == \A p \in Processes : At(p, "syncing") => Holds(file.lines, proc[p].key)

LEMMA WrittenStep == StoreInv /\ Written /\ [Next]_vars => Written'
<1> SUFFICES ASSUME StoreInv, Written, [Next]_vars, NEW q \in Processes,
                    proc'[q].pc = "syncing"
             PROVE  Holds(file'.lines, proc'[q].key)
  BY DEF Written, At
<1>t. StoreTypeOK /\ Locked
  BY DEF StoreInv
<1>1. ASSUME NEW p \in Processes, WriteRest(p) PROVE Holds(file'.lines, proc'[q].key)
  <2>1. q = p
    BY <1>1, <1>t DEF WriteRest, At, Goto, Locked, StoreTypeOK, Inside
  <2>2. file.lines \in Seq(Keys) /\ proc[p].key \in Keys /\ proc'[q].key = proc[p].key
    BY <1>1, <1>t, <2>1
       DEF WriteRest, At, Goto, StoreTypeOK, Record, StoreInv, StillCurrent, Agrees,
           HasRead, Decided
  <2>3. file'.lines = Append(file.lines, proc[p].key)
    BY <1>1 DEF WriteRest
  <2> DEFINE g == Append(file.lines, proc[p].key)
  <2>4. Len(g) \in Nat /\ Len(g) >= 1 /\ g[Len(g)] = proc[p].key
    BY <2>2, AppendProperties, LenProperties
  <2> HIDE DEF g
  <2>5. Holds(g, proc[p].key)
    BY <2>4 DEF Holds
  <2> QED
    BY <2>2, <2>3, <2>5 DEF g
<1>2. ASSUME proc'[q] = proc[q], file'.lines = file.lines
      PROVE  Holds(file'.lines, proc'[q].key)
  BY <1>2 DEF Written, At
<1>3. ASSUME NEW p \in Processes, Truncate(p) PROVE Holds(file'.lines, proc'[q].key)
  <2>1. file'.lines = file.lines
    BY <1>3, <1>t DEF Truncate, StoreTypeOK, Record
  <2>2. proc'[q] = proc[q]
    BY <1>3, <1>t DEF Truncate, Goto, StoreTypeOK
  <2> QED
    BY <1>2, <2>1, <2>2
<1>4. ASSUME NEW p \in Processes, WritePart(p) PROVE Holds(file'.lines, proc'[q].key)
  BY <1>2, <1>4, <1>t DEF WritePart, Goto, StoreTypeOK, Record
<1>5. ASSUME NEW p \in Processes,
             Lock(p) \/ SyncCut(p) \/ Read(p) \/ Corrupt(p) \/ Check(p) \/ Sync(p) \/ Fail(p)
      PROVE  Holds(file'.lines, proc'[q].key)
  <2>1. file' = file
    BY <1>5 DEF Lock, SyncCut, Read, Corrupt, Check, Sync, Fail
  <2>2. proc'[q] = proc[q]
    BY <1>5, <1>t DEF Lock, SyncCut, Read, Corrupt, Check, Sync, Fail, Goto, Leave, Idle,
                      StoreTypeOK
  <2> QED
    BY <1>2, <2>1, <2>2
<1>6. ASSUME NEW p \in Processes, NEW op \in Operations, NEW k \in Keys \cup {NoKey},
             Begin(p, op, k)
      PROVE  Holds(file'.lines, proc'[q].key)
  BY <1>2, <1>6, <1>t DEF Begin, Idle, StoreTypeOK
<1>7. CASE PowerLoss
  BY <1>7 DEF PowerLoss, Idle
<1>8. CASE UNCHANGED vars
  BY <1>2, <1>8 DEF vars
<1> QED
  BY <1>1, <1>3, <1>4, <1>5, <1>6, <1>7, <1>8 DEF Next, Step

\* An append that returned from its own fsync (event_store.py:280) is on disk for good,
\* whatever fails afterwards.
THEOREM SyncedAppendsAreDurableTheorem == Spec => []SyncedAppendsAreDurable
<1> DEFINE Inv == StoreInv /\ Written /\ SyncedAppendsAreDurable
<1>1. Init => Written /\ SyncedAppendsAreDurable
  BY DEF Init, Written, SyncedAppendsAreDurable, At, Idle
<1>2. Inv /\ [Next]_vars => Inv'
  <2> SUFFICES ASSUME Inv, [Next]_vars PROVE SyncedAppendsAreDurable'
    BY StoreStep, WrittenStep
  <2>1. ASSUME NEW k, Holds(synced.lines, k) PROVE Holds(synced'.lines, k)
    <3>1. StoreInv' /\ [Durable!Extend]_(synced.lines)
      BY StoreStep, StoreExtendsLedger
    <3>2. synced.lines \in Seq(Keys) /\ synced'.lines \in Seq(Keys)
      BY <3>1 DEF StoreInv, StoreTypeOK, Record
    <3>3. CASE Durable!Extend
      <4>1. /\ Len(synced.lines) <= Len(synced'.lines)
            /\ SubSeq(synced'.lines, 1, Len(synced.lines)) = synced.lines
        BY <3>2, <3>3, LenProperties DEF Durable!Extend
      <4> QED
        BY <2>1, <3>2, <4>1, HeldInLonger
    <3> QED
      BY <2>1, <3>1, <3>3
  <2>2. ASSUME NEW p \in Processes, Sync(p) PROVE SyncedAppendsAreDurable'
    <3>1. Holds(synced'.lines, proc[p].key)
      BY <2>2 DEF Sync, Written
    <3>2. acks' = acks \cup {[key |-> proc[p].key, own |-> TRUE]}
      BY <2>2 DEF Sync
    <3> QED
      BY <2>1, <3>1, <3>2 DEF SyncedAppendsAreDurable
  <2>3. ASSUME \A a \in acks' : a.own => a \in acks PROVE SyncedAppendsAreDurable'
    BY <2>1, <2>3 DEF SyncedAppendsAreDurable
  <2>4. ASSUME NEW p \in Processes, Check(p) PROVE SyncedAppendsAreDurable'
    BY <2>3, <2>4 DEF Check
  <2>5. ASSUME acks' = acks PROVE SyncedAppendsAreDurable'
    BY <2>3, <2>5
  <2> QED
    BY <2>2, <2>4, <2>5
       DEF Next, Step, vars, Begin, Lock, Truncate, SyncCut, Read, Corrupt, WritePart,
           WriteRest, Fail, PowerLoss
<1>3. Inv => SyncedAppendsAreDurable
  OBVIOUS
<1> QED
  BY <1>1, <1>2, <1>3, StoreInit, PTL DEF Spec

-----------------------------------------------------------------------------
(***************************************************************************)
(* Who meets half a line.                                                  *)
(***************************************************************************)
\* Some process has failed, or the machine has.
SomethingFailed == spent.failures + spent.power > 0

\* Half a line is an append in progress or the work of a failure; an operation that
\* repairs the tail has none before it from the cut to the end of its read.
TornInv ==
    /\ spent \in [failures : Nat, power : Nat]
    /\ \A p \in Processes : ~At(p, "idle") => proc[p].op \in Operations
    /\ file.torn => SomethingFailed \/ \E p \in Processes : At(p, "newline")
    /\ \A p \in Processes :
          At(p, "cut") \/ (At(p, "reading") /\ proc[p].op \in Repairing) => ~file.torn
    /\ OnlyReadsMeetTornTails

\* The lock keeps an append in progress out of sight of whoever reads under it.
LEMMA TornStep == StoreInv /\ TornInv /\ [Next]_vars => TornInv'
<1> SUFFICES ASSUME StoreInv, TornInv, [Next]_vars PROVE TornInv'
  OBVIOUS
<1>t. StoreTypeOK /\ Locked
  BY DEF StoreInv
<1> USE DEF TornInv, SomethingFailed, OnlyReadsMeetTornTails, At, Operations, Repairing
<1>1. ASSUME NEW p \in Processes, NEW op \in Operations, NEW k \in Keys \cup {NoKey},
             Begin(p, op, k)
      PROVE  TornInv'
  BY <1>1, <1>t DEF Begin, Idle, StoreTypeOK
<1>2. ASSUME NEW p \in Processes, Lock(p) PROVE TornInv'
  BY <1>2, <1>t DEF Lock, Goto, StoreTypeOK
<1>3. ASSUME NEW p \in Processes, Truncate(p) PROVE TornInv'
  <2>1. ~file'.torn /\ UNCHANGED spent
    BY <1>3, <1>t DEF Truncate, StoreTypeOK, Record
  <2>2. /\ proc'[p].pc \in {"cut", "reading"} /\ proc'[p].op = proc[p].op
        /\ \A q \in Processes \ {p} : proc'[q] = proc[q]
    BY <1>3, <1>t DEF Truncate, Goto, StoreTypeOK
  <2> QED
    BY <1>3, <2>1, <2>2 DEF Truncate
<1>4. ASSUME NEW p \in Processes, SyncCut(p) PROVE TornInv'
  BY <1>4, <1>t DEF SyncCut, Goto, StoreTypeOK
<1>l. ASSUME NEW p \in Processes, ~At(p, "newline"), Leave(p), UNCHANGED <<file, spent>>
      PROVE  TornInv'
  BY <1>l, <1>t DEF Leave, Idle, StoreTypeOK
<1>g. ASSUME NEW p \in Processes, At(p, "reading") \/ At(p, "checking"),
             proc'[p].pc \in {"corrupt", "checking", "writing"}, proc'[p].op = proc[p].op,
             \A q \in Processes \ {p} : proc'[q] = proc[q], UNCHANGED <<file, spent>>,
             proc'[p].pc = "corrupt" => proc[p].op = "read" /\ SomethingFailed
      PROVE  TornInv'
  <2>1. spent' \in [failures : Nat, power : Nat] /\ SomethingFailed' = SomethingFailed
    BY <1>g
  <2>2. file'.torn => SomethingFailed' \/ \E q \in Processes : At(q, "newline")'
    BY <1>g, <2>1
  <2>3. \A q \in Processes :
          /\ ~At(q, "idle")' => proc'[q].op \in Operations
          /\ At(q, "cut")' \/ (At(q, "reading")' /\ proc'[q].op \in Repairing) => ~file'.torn
          /\ At(q, "corrupt")' => proc'[q].op = "read" /\ SomethingFailed'
    BY <1>g, <2>1
  <2> QED
    BY <2>1, <2>2, <2>3
<1>5. ASSUME NEW p \in Processes, Read(p) PROVE TornInv'
  <2>1. file.torn => SomethingFailed
    BY <1>5, <1>t DEF Read, Locked, Inside
  <2>2. CASE Leave(p)
    BY <1>5, <1>l, <2>2 DEF Read
  <2>3. CASE file.torn /\ Goto(p, "corrupt")
    BY <1>5, <1>t, <1>g, <2>1, <2>3 DEF Read, Goto, StoreTypeOK
  <2>4. CASE proc' = [proc EXCEPT ![p].pc = "checking", ![p].seen = file.lines]
    BY <1>5, <1>t, <1>g, <2>4 DEF Read, StoreTypeOK
  <2> QED
    BY <1>5, <2>2, <2>3, <2>4 DEF Read
<1>6. ASSUME NEW p \in Processes, Corrupt(p) \/ Check(p) \/ Sync(p) PROVE TornInv'
  <2>1. UNCHANGED <<file, spent>> /\ ~At(p, "newline")
    BY <1>6 DEF Corrupt, Check, Sync
  <2>2. CASE Leave(p)
    BY <1>l, <2>1, <2>2
  <2>3. CASE Check(p) /\ Goto(p, "writing")
    BY <1>t, <1>g, <2>1, <2>3 DEF Check, Goto, StoreTypeOK
  <2> QED
    BY <1>6, <2>2, <2>3 DEF Corrupt, Check, Sync
<1>7. ASSUME NEW p \in Processes, WritePart(p) PROVE TornInv'
  <2>1. \A q \in Processes : proc[q].pc \in Inside => q = p
    BY <1>7, <1>t DEF WritePart, Locked, Inside
  <2> QED
    BY <1>7, <1>t, <2>1 DEF WritePart, Goto, Inside, StoreTypeOK, Record
<1>8. ASSUME NEW p \in Processes, WriteRest(p) PROVE TornInv'
  BY <1>8, <1>t DEF WriteRest, Goto, StoreTypeOK
<1>9. ASSUME NEW p \in Processes, Fail(p) PROVE TornInv'
  <2>1. spent' \in [failures : Nat, power : Nat] /\ SomethingFailed'
    BY <1>9 DEF Fail
  <2>2. UNCHANGED file /\ proc' = [proc EXCEPT ![p] = Idle]
    BY <1>9 DEF Fail
  <2> QED
    BY <1>t, <2>1, <2>2 DEF Idle, StoreTypeOK
<1>10. CASE PowerLoss
  BY <1>10, <1>t DEF PowerLoss, Idle
<1>11. CASE UNCHANGED vars
  BY <1>11 DEF vars
<1> QED
  BY <1>1, <1>2, <1>3, <1>4, <1>5, <1>6, <1>7, <1>8, <1>9, <1>10, <1>11 DEF Next, Step

\* Half a line is met only by a plain read after some process has failed: never by
\* an operation that repairs first, nor because another process is in the middle of
\* its append (_locked and _repair_incomplete_tail_locked, event_store.py:72-115).
THEOREM OnlyReadsMeetTornTailsTheorem == Spec => []OnlyReadsMeetTornTails
<1>1. Init => TornInv
  BY DEF Init, TornInv, OnlyReadsMeetTornTails, At, Idle
<1>2. TornInv => OnlyReadsMeetTornTails
  BY DEF TornInv
<1> QED
  BY <1>1, <1>2, StoreInit, StoreStep, TornStep, PTL DEF Spec
=============================================================================
