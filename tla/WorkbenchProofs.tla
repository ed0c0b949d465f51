-------------------------- MODULE WorkbenchProofs --------------------------
(***************************************************************************)
(* The worktree of an experiment is safe under its lease, for any set of   *)
(* diffs and any number of faults, reviews, repairs and runs.              *)
(*                                                                         *)
(* The controller lets one component work at a time (Turns), each holds    *)
(* exactly the locks its place in the code says (LocksFollow), and what    *)
(* could still write without a lease is gone or has made the call fail for *)
(* good (BoxIsClosed, PodIsClosed).  So what was staged, reviewed, sealed  *)
(* or restored several steps ago is what is there now.                     *)
(***************************************************************************)
EXTENDS Workbench, SequenceTheorems, TLAPS

Contents == Diffs \cup {NoDiff}

\* Where each component holds the whole lease.
CoderInLease == {"restore", "verify", "isolate", "edit", "close", "capture", "review",
                 "commit", "seal", "discard"}
RunnerInLease == {"preseal", "prepare", "launch", "watch", "probe", "extract", "release",
                  "stop", "finish", "postseal", "capture", "seal", "outcome"}

Trees == [branch : BOOLEAN, there : BOOLEAN, head : Nat, index : Contents,
          files : Contents]
Commits == [base : Nat, diff : Contents]
Locks == [thread : {"free", "coder", "runner"},
          file : {"free", "coder", "runner", "other"}]
Calls == [pc : CoderInLease \cup {"idle", "prepare", "thread", "file"}, attempt : Nat,
          base : Nat, round : Nat, seen : Contents, reviewed : Contents,
          err : {"none", "transient", "fatal"}]
Kinds == {"initial", "repair", "restart"}
Answers == {"none", "pending", "sealed", "accepted", "rejected", "running", "done",
            "transient", "fatal"}
Stories == [kind : Kinds \cup {"none"}, answer : Answers, latest : Nat, retries : Nat,
            repairs : Nat]
Terms == Stops \cup {"timeout", "contract_error"}
Execs == [pc : RunnerInLease \cup {"idle", "thread", "file"}, commit : Nat,
          late : BOOLEAN, extracted : BOOLEAN, copied : {"none", "whole", "part"},
          term : Terms \cup {"none"}, exit : {"none", "zero", "nonzero", "lost"},
          sealed : BOOLEAN]
\* A local process exits with zero only if its candidate has ended.
Pods == {p \in [up : BOOLEAN, client : BOOLEAN, done : {"no", "ok", "empty", "failed"},
                released : BOOLEAN, exit : {"none", "zero", "nonzero", "lost"},
                there : BOOLEAN, local : BOOLEAN] :
            p.local /\ p.exit = "zero" => p.done # "no"}
Runs == [made : Nat, last : Terms \cup {"none", "success"}]

WorkbenchTypeOK ==
    /\ tree \in Trees /\ commits \in Seq(Commits) /\ lock \in Locks
    /\ code \in Calls /\ box \in {"none", "created", "running"} /\ story \in Stories
    /\ exec \in Execs /\ pod \in Pods /\ runs \in Runs

Turns ==
    /\ story.answer # "none" => story.kind \in Kinds
    /\ code.pc # "idle" => story.answer = "pending"
    /\ exec.pc # "idle" => story.answer = "running"

LocksFollow ==
    /\ lock.thread = "coder" <=> code.pc \in CoderInLease \cup {"file"}
    /\ lock.file = "coder" <=> code.pc \in CoderInLease
    /\ lock.thread = "runner" <=> exec.pc \in RunnerInLease \cup {"file"}
    /\ lock.file = "runner" <=> exec.pc \in RunnerInLease

\* A container of Trae outlives its pass only in a call that fails for good.
BoxIsClosed ==
    box # "none" =>
        \/ code.pc \in {"edit", "close"}
        \/ code.pc = "discard" /\ code.err = "fatal"
        \/ story.answer = "fatal"

\* From its verification to its commit a call works on its base; an error that is
\* owner-retryable finds it there.
BaseIsHead ==
    /\ code.pc # "idle" /\ story.kind # "restart" => code.base = Expected
    /\ code.pc \in {"isolate", "edit", "close", "capture", "review", "commit"}
         => AtHead(code.base)
    /\ code.pc = "discard" /\ code.err = "transient" => AtHead(code.base)
    /\ story.answer = "transient" /\ story.kind # "restart" => Attaches(Expected)

\* What the review accepted is in the index until it is the last commit.
ReviewedIsStaged ==
    /\ code.pc = "commit" => code.reviewed = tree.index
    /\ code.pc = "seal" =>
         /\ tree.there /\ Clean /\ tree.head = Len(commits) /\ Len(commits) > 0
         /\ commits[Len(commits)] = [base |-> code.base, diff |-> code.reviewed]

\* The candidate's processes end with the loop that watches them.
PodIsClosed ==
    /\ pod.client => exec.pc \in {"watch", "probe", "extract", "release", "stop", "finish"}
    /\ exec.pc \in {"postseal", "capture", "seal", "outcome"} /\ exec.term = "none"
         => ~pod.up /\ ~pod.client /\ ~pod.there

\* A run that is not yet refused or terminated has what its success needs.
OutcomeIsEarned ==
    /\ exec.pc = "extract" => pod.done # "no"
    /\ exec.copied = "part" =>
         /\ exec.exit # "zero"
         /\ exec.pc \in {"postseal", "capture", "seal", "outcome"}
    /\ exec.pc = "stop" => exec.term # "none"
    /\ exec.pc \in {"capture", "seal", "outcome"} /\ exec.term = "none"
         => SealHolds(exec.commit)
    /\ exec.pc = "outcome" /\ exec.term = "none" /\ exec.exit = "zero" /\ OutputsPresent
         => exec.sealed

WorkbenchInv ==
    /\ WorkbenchTypeOK /\ Turns /\ LocksFollow /\ BoxIsClosed /\ BaseIsHead
    /\ ReviewedIsStaged /\ PodIsClosed /\ OutcomeIsEarned

-----------------------------------------------------------------------------
(***************************************************************************)
(* What the operators make of a tree, a call and the story.                *)
(***************************************************************************)
CoderPcs == CoderInLease \cup {"idle", "prepare", "thread", "file"}
Errs == {"none", "transient", "fatal"}

\* git moves HEAD, the index and the files, and never loses the branch.
LEMMA TreesAre ==
    ASSUME tree \in Trees, commits \in Seq(Commits)
    PROVE  /\ Created \in Trees /\ Staged \in Trees /\ Committed \in Trees
           /\ \A c \in Nat : /\ ResetTo(c) \in Trees
                             /\ ResetTo(c).there = tree.there /\ ResetTo(c).head = c
                             /\ ResetTo(c).index = NoDiff /\ ResetTo(c).files = NoDiff
           /\ Committed.there = tree.there /\ Committed.head = Len(commits) + 1
           /\ Committed.index = NoDiff
           /\ tree.files = tree.index => Committed.files = NoDiff
           /\ RolledBack \subseteq Trees
           /\ \A c \in Nat : ResetStops(c) \subseteq Trees
           /\ Staged.there = tree.there /\ Staged.head = tree.head
           /\ Staged.index = tree.files
<1> USE DEF Contents
<1>1. Created \in Trees /\ Staged \in Trees
  BY DEF Trees, Created, Staged
<1>2. Staged.there = tree.there /\ Staged.head = tree.head /\ Staged.index = tree.files
  BY DEF Trees, Staged
<1>3. ASSUME NEW t \in Trees, NEW h \in Nat, NEW f \in Contents
      PROVE  /\ [t EXCEPT !.head = h] \in Trees /\ [t EXCEPT !.index = NoDiff] \in Trees
             /\ [t EXCEPT !.files = f] \in Trees
  BY DEF Trees
<1>5. Len(commits) + 1 \in Nat /\ tree.files \in Contents /\ NoDiff \in Contents
  BY LenProperties DEF Trees
<1>6. ASSUME NEW c \in Nat
      PROVE  /\ ResetTo(c) \in Trees /\ ResetTo(c).there = tree.there
             /\ ResetTo(c).head = c /\ ResetTo(c).index = NoDiff
             /\ ResetTo(c).files = NoDiff
  <2> DEFINE x == [tree EXCEPT !.head = c]
             y == [x EXCEPT !.index = NoDiff]
             z == [y EXCEPT !.files = NoDiff]
  <2>1. z \in Trees
    <3>1. x \in Trees
      BY <1>3
    <3> HIDE DEF x
    <3>2. y \in Trees
      BY <1>3, <3>1
    <3> HIDE DEF y
    <3> QED
      BY <1>3, <1>5, <3>2
  <2>2. ResetTo(c) = z
    BY DEF ResetTo, Trees
  <2> QED
    BY <2>1, <2>2 DEF ResetTo, Trees
<1>7. /\ Committed \in Trees /\ Committed.there = tree.there
      /\ Committed.head = Len(commits) + 1 /\ Committed.index = NoDiff
      /\ tree.files = tree.index => Committed.files = NoDiff
  <2> DEFINE f == IF tree.files = tree.index THEN NoDiff ELSE tree.files
             x == [tree EXCEPT !.head = Len(commits) + 1]
             y == [x EXCEPT !.index = NoDiff]
             z == [y EXCEPT !.files = f]
  <2>0. f \in Contents
    BY <1>5
  <2>1. z \in Trees
    <3>1. x \in Trees
      BY <1>3, <1>5
    <3> HIDE DEF x
    <3>2. y \in Trees
      BY <1>3, <3>1
    <3> HIDE DEF y, f
    <3> QED
      BY <1>3, <2>0, <3>2
  <2>2. Committed = z
    BY DEF Committed, Trees
  <2> QED
    BY <2>1, <2>2 DEF Committed, Trees
<1>8. RolledBack \subseteq Trees
  BY <1>1 DEF RolledBack, Trees
<1>9. ASSUME NEW c \in Nat PROVE ResetStops(c) \subseteq Trees
  BY <1>6, <1>9 DEF ResetStops, ResetTracked, Trees
<1> QED
  BY <1>1, <1>2, <1>6, <1>7, <1>8, <1>9

\* A step of a call moves it or gives it an error; its base stays.
Moved(pc, err) ==
    /\ code' \in Calls /\ code'.pc = pc /\ code'.err = err /\ code'.base = code.base

\* What the step helpers of a call do to it: place, error and review.
LEMMA CallsMove ==
    ASSUME WorkbenchTypeOK
    PROVE  /\ \A p \in CoderPcs : To(p) => /\ Moved(p, code.err)
                                           /\ code'.reviewed = code.reviewed
           /\ \A e \in Errs : /\ Raises(e) => Moved("discard", e)
                              /\ ClosesAndRaises(e) => Moved("close", e)
           /\ ReviewRejects => Moved("isolate", code.err) \/ Moved("discard", "fatal")
           /\ code' = [code EXCEPT !.pc = "review", !.seen = tree.files]
                => Moved("review", code.err)
           /\ code' = [code EXCEPT !.pc = "commit", !.reviewed = tree.index]
                => Moved("commit", code.err) /\ code'.reviewed = tree.index
           /\ code' = Idle => code' \in Calls /\ code'.pc = "idle"
<1>t. code \in Calls /\ tree.files \in Contents /\ tree.index \in Contents
  BY DEF WorkbenchTypeOK, Trees
<1> USE DEF CoderInLease
<1>p. \A c \in Calls, p \in CoderPcs : [c EXCEPT !.pc = p] \in Calls
  BY DEF Calls, CoderPcs
<1>1. ASSUME NEW p \in CoderPcs, To(p)
      PROVE  Moved(p, code.err) /\ code'.reviewed = code.reviewed
  BY <1>1, <1>p, <1>t DEF To, Calls, Moved
<1>2. ASSUME NEW p \in CoderPcs, NEW e \in Errs, code' = [code EXCEPT !.pc = p, !.err = e]
      PROVE  Moved(p, e)
  <2> DEFINE c == [code EXCEPT !.pc = p]
  <2>1. c \in Calls
    BY <1>p, <1>t
  <2> HIDE DEF c
  <2>2. [c EXCEPT !.err = e] \in Calls
    BY <2>1 DEF Calls, Errs
  <2> QED
    BY <1>2, <1>t, <2>2 DEF c, Moved, Calls
<1>3. ASSUME ReviewRejects
      PROVE  Moved("isolate", code.err) \/ Moved("discard", "fatal")
  <2>1. CASE Raises("fatal")
    BY <1>2, <2>1 DEF Raises, Errs, CoderPcs
  <2>2. CASE code' = [code EXCEPT !.pc = "isolate", !.round = @ + 1]
    <3> DEFINE c == [code EXCEPT !.pc = "isolate"]
    <3>1. c \in Calls
      BY <1>p, <1>t DEF CoderPcs
    <3> HIDE DEF c
    <3>2. [c EXCEPT !.round = @ + 1] \in Calls
      BY <3>1 DEF Calls
    <3> QED
      BY <1>t, <2>2, <3>2 DEF c, Moved, Calls
  <2> QED
    BY <1>3, <2>1, <2>2 DEF ReviewRejects
<1>4. ASSUME NEW d \in Contents, code' = [code EXCEPT !.pc = "review", !.seen = d]
      PROVE  Moved("review", code.err)
  <2> DEFINE c == [code EXCEPT !.pc = "review"]
  <2>1. c \in Calls
    BY <1>p, <1>t DEF CoderPcs
  <2> HIDE DEF c
  <2>2. [c EXCEPT !.seen = d] \in Calls
    BY <2>1 DEF Calls
  <2> QED
    BY <1>4, <1>t, <2>2 DEF c, Moved, Calls
<1>5. ASSUME NEW d \in Contents, code' = [code EXCEPT !.pc = "commit", !.reviewed = d]
      PROVE  Moved("commit", code.err) /\ code'.reviewed = d
  <2> DEFINE c == [code EXCEPT !.pc = "commit"]
  <2>1. c \in Calls
    BY <1>p, <1>t DEF CoderPcs
  <2> HIDE DEF c
  <2>2. [c EXCEPT !.reviewed = d] \in Calls
    BY <2>1 DEF Calls
  <2> QED
    BY <1>5, <1>t, <2>2 DEF c, Moved, Calls
<1>6. Idle \in Calls /\ Idle.pc = "idle"
  BY DEF Idle, Calls, Contents
<1> QED
  BY <1>1, <1>2, <1>3, <1>4, <1>5, <1>6, <1>t DEF Raises, ClosesAndRaises, CoderPcs, Errs

\* What the ledger tells the next call changes one answer at a time.
LEMMA StoriesAre ==
    ASSUME story \in Stories
    PROVE  /\ \A a \in Answers : /\ [story EXCEPT !.answer = a] \in Stories
                                 /\ [story EXCEPT !.answer = a].answer = a
                                 /\ [story EXCEPT !.answer = a].kind = story.kind
                                 /\ [story EXCEPT !.answer = a].latest = story.latest
           /\ \A k \in Kinds : [story EXCEPT !.kind = k] \in Stories
           /\ \A n \in Nat : /\ [story EXCEPT !.latest = n] \in Stories
                             /\ [story EXCEPT !.retries = n] \in Stories
                             /\ [story EXCEPT !.repairs = n] \in Stories
BY DEF Stories

\* A call that ends tells the ledger so.
LEMMA EndsTell ==
    ASSUME WorkbenchTypeOK, NEW a \in Answers, Ends(a)
    PROVE  /\ code' \in Calls /\ code'.pc = "idle" /\ story' \in Stories
           /\ story'.answer = a /\ story'.kind = story.kind
           /\ story'.latest = story.latest
BY CallsMove, StoriesAre DEF Ends, WorkbenchTypeOK

-----------------------------------------------------------------------------
(***************************************************************************)
(* The invariant is inductive.                                             *)
(***************************************************************************)
THEOREM WorkbenchInit == Init => WorkbenchInv
<1> SUFFICES ASSUME Init PROVE WorkbenchInv
  OBVIOUS
<1>1. WorkbenchTypeOK
  BY DEF Init, WorktreeInit, CoderInit, RunnerInit, Idle, NoRun, NoPod, WorkbenchTypeOK, Trees,
         Locks, Calls, Stories, Execs, Pods, Runs, Contents, Answers
<1> QED
  BY <1>1
     DEF Init, WorktreeInit, CoderInit, RunnerInit, Idle, NoRun, NoPod, WorkbenchInv, Turns,
         LocksFollow, BoxIsClosed, BaseIsHead, ReviewedIsStaged, PodIsClosed, OutcomeIsEarned,
         CoderInLease, RunnerInLease

\* Every step of a coding call keeps the invariant, one step per action.
LEMMA CoderKeeps ==
    ASSUME WorkbenchInv, StartCall \/ CoderStep \/ Edit, UNCHANGED rvars
    PROVE  WorkbenchInv'
<1> USE DEF CoderInLease, RunnerInLease, Contents, Kinds, Answers, CoderPcs, Errs, Moved
<1>t. /\ WorkbenchTypeOK /\ Turns /\ LocksFollow /\ BoxIsClosed /\ BaseIsHead
      /\ ReviewedIsStaged /\ PodIsClosed /\ OutcomeIsEarned
  BY DEF WorkbenchInv
<1>u. UNCHANGED <<exec, pod, runs>>
  BY DEF rvars
<1>i. exec.pc = "idle" /\ ~pod.client
  BY <1>t
     DEF Turns, BoxIsClosed, PodIsClosed, StartCall, StartInitial, RetryCoding, Replace,
         CoderStep, Edit, Prepare, CoderLocksThread, CoderLocksFile, Restore, Verify, Isolate,
         PassEnds, Close, Capture, Review, Commit, Seal, Discard
<1>r. PodIsClosed' /\ OutcomeIsEarned'
  BY <1>t, <1>u, <1>i DEF PodIsClosed, OutcomeIsEarned
<1>c. /\ tree \in Trees /\ lock \in Locks /\ code \in Calls /\ story \in Stories
      /\ commits \in Seq(Commits) /\ box \in {"none", "created", "running"}
  BY <1>t DEF WorkbenchTypeOK
<1> DEFINE Parts == /\ Turns /\ LocksFollow /\ BoxIsClosed /\ BaseIsHead /\ ReviewedIsStaged
<1>T. ASSUME tree' \in Trees, lock' \in Locks, code' \in Calls, story' \in Stories,
             commits' \in Seq(Commits), box' \in {"none", "created", "running"}
      PROVE  WorkbenchTypeOK'
  BY <1>T, <1>t, <1>u DEF WorkbenchTypeOK
<1>1. ASSUME StartCall PROVE WorkbenchTypeOK' /\ Parts'
  <2>1. UNCHANGED <<tree, commits, lock, box>> /\ code.pc = "idle"
    BY <1>1 DEF StartCall, StartInitial, RetryCoding, Replace, wvars
  <2>2. ASSUME NEW kind, NEW n \in Nat, NEW base \in Nat, Begin(kind, n, base)
        PROVE  code' \in Calls /\ code'.pc = "prepare" /\ code'.base = base
    <3>1. code' = [pc |-> "prepare", attempt |-> n, base |-> base, round |-> 1,
                   seen |-> NoDiff, reviewed |-> NoDiff, err |-> "none"]
      BY <2>2 DEF Begin, Idle
    <3> QED
      BY <3>1 DEF Calls
  <2>3. story.latest \in Nat /\ story.repairs \in Nat /\ story.repairs + 1 \in Nat
    BY <1>c DEF Stories
  <2>s. /\ story' \in Stories /\ story'.answer = "pending" /\ story'.kind \in Kinds
        /\ code' \in Calls /\ code'.pc = "prepare"
        /\ story'.kind # "restart" => code'.base = Expected'
    <3>1. CASE StartInitial
      <4> DEFINE s1 == [story EXCEPT !.kind = "initial"]
                 s2 == [s1 EXCEPT !.answer = "pending"]
      <4>1. s1 \in Stories
        BY <1>c, StoriesAre
      <4>2. s2 \in Stories
        <5> HIDE DEF s1
        <5> QED
          BY <4>1 DEF Stories
      <4>3. story' = s2
        BY <3>1, <1>c DEF StartInitial, Stories
      <4>4. story'.kind = "initial" /\ story'.answer = "pending"
        BY <3>1, <1>c DEF StartInitial, Stories
      <4> HIDE DEF s2
      <4> QED
        BY <3>1, <2>2, <4>2, <4>3, <4>4 DEF StartInitial, InitialAttempt, Expected
    <3>2. CASE RetryCoding
      <4> DEFINE s1 == [story EXCEPT !.answer = "pending"]
                 s2 == [s1 EXCEPT !.retries = 1]
      <4>1. s1 \in Stories
        BY <1>c, StoriesAre
      <4>2. s2 \in Stories
        <5> HIDE DEF s1
        <5> QED
          BY <4>1 DEF Stories
      <4>3. story' = s2
        BY <3>2, <1>c DEF RetryCoding, Stories
      <4>4. /\ story'.kind = story.kind /\ story'.answer = "pending"
            /\ story'.latest = story.latest
        BY <3>2, <1>c DEF RetryCoding, Stories
      <4>5. story.kind \in Kinds
        BY <3>2, <1>t DEF RetryCoding, Turns
      <4> HIDE DEF s2
      <4> QED
        BY <3>2, <2>2, <2>3, <4>2, <4>3, <4>5
           DEF RetryCoding, InitialAttempt, RepairAttempt, Expected
    <3>3. ASSUME NEW k \in {"repair", "restart"}, Replace(k)
          PROVE  /\ story' \in Stories /\ story'.answer = "pending" /\ story'.kind = k
                 /\ code' \in Calls /\ code'.pc = "prepare"
                 /\ k # "restart" => code'.base = Expected'
      <4> DEFINE s1 == [story EXCEPT !.kind = k]
                 s2 == [s1 EXCEPT !.answer = "pending"]
                 s3 == [s2 EXCEPT !.repairs = @ + 1]
      <4>1. s1 \in Stories
        BY <1>c, StoriesAre
      <4>2. s2 \in Stories
        <5> HIDE DEF s1
        <5> QED
          BY <4>1 DEF Stories
      <4>3. s3 \in Stories
        <5> HIDE DEF s2
        <5> QED
          BY <4>2 DEF Stories
      <4>4. story' = s3
        BY <3>3, <1>c DEF Replace, Stories
      <4>5. /\ story'.kind = k /\ story'.answer = "pending"
            /\ story'.latest = story.latest
        BY <3>3, <1>c DEF Replace, Stories
      <4> HIDE DEF s3
      <4> QED
        BY <3>3, <2>2, <2>3, <4>3, <4>4 DEF Replace, RepairAttempt, Expected
    <3> QED
      BY <1>1, <3>1, <3>2, <3>3 DEF StartCall
  <2>b. box = "none"
    BY <1>1, <1>t, <2>1 DEF StartCall, StartInitial, RetryCoding, Replace, BoxIsClosed
  <2>4. Turns' /\ LocksFollow' /\ BoxIsClosed'
    BY <2>1, <2>s, <2>b, <1>t, <1>u, <1>i DEF Turns, LocksFollow, BoxIsClosed
  <2>5. BaseIsHead' /\ ReviewedIsStaged'
    BY <2>1, <2>s DEF BaseIsHead, ReviewedIsStaged
  <2> QED
    BY <2>1, <2>s, <2>4, <2>5, <1>c, <1>T
<1>2. ASSUME Prepare PROVE WorkbenchTypeOK' /\ Parts'
  <2>1. WorkbenchTypeOK'
    BY <1>2, <1>t, <1>c, <1>T, CallsMove, EndsTell, TreesAre DEF Prepare, Locks
  <2>2. Turns' /\ LocksFollow' /\ BoxIsClosed'
    BY <1>2, <1>t, <1>u, CallsMove, EndsTell DEF Prepare, Turns, LocksFollow, BoxIsClosed
  <2>3. BaseIsHead'
    BY <1>2, <1>t, CallsMove, EndsTell
       DEF Prepare, CanCreate, BaseIsHead, Expected, AtHead, Attaches, Clean
  <2>4. ReviewedIsStaged'
    BY <1>2, <1>t, CallsMove, EndsTell DEF Prepare, ReviewedIsStaged
  <2> QED
    BY <2>1, <2>2, <2>3, <2>4
<1>3. ASSUME CoderLocksThread PROVE WorkbenchTypeOK' /\ Parts'
  <2>1. WorkbenchTypeOK'
    BY <1>3, <1>t, <1>c, <1>T, CallsMove, EndsTell DEF CoderLocksThread, TakeThread, Locks
  <2>2. Turns' /\ LocksFollow' /\ BoxIsClosed'
    BY <1>3, <1>t, <1>c, <1>u, CallsMove
       DEF CoderLocksThread, TakeThread, Locks, Turns, LocksFollow, BoxIsClosed
  <2>3. BaseIsHead'
    BY <1>3, <1>t, CallsMove, EndsTell
       DEF CoderLocksThread, BaseIsHead, Expected, AtHead, Attaches, Clean
  <2>4. ReviewedIsStaged'
    BY <1>3, <1>t, CallsMove, EndsTell DEF CoderLocksThread, ReviewedIsStaged
  <2> QED
    BY <2>1, <2>2, <2>3, <2>4
<1>4. ASSUME CoderLocksFile PROVE WorkbenchTypeOK' /\ Parts'
  <2>1. WorkbenchTypeOK'
    BY <1>4, <1>t, <1>c, <1>T, CallsMove, EndsTell
       DEF CoderLocksFile, TakeFile, ReleaseThread, Locks
  <2>2. Turns' /\ LocksFollow' /\ BoxIsClosed'
    BY <1>4, <1>t, <1>c, <1>u, CallsMove, EndsTell
       DEF CoderLocksFile, TakeFile, ReleaseThread, Locks, Turns, LocksFollow, BoxIsClosed
  <2>3. BaseIsHead'
    BY <1>4, <1>t, CallsMove, EndsTell DEF CoderLocksFile, Turns, BaseIsHead, Expected
  <2>4. ReviewedIsStaged'
    BY <1>4, <1>t, CallsMove, EndsTell DEF CoderLocksFile, ReviewedIsStaged
  <2> QED
    BY <2>1, <2>2, <2>3, <2>4
<1>5. ASSUME Restore PROVE WorkbenchTypeOK' /\ Parts'
  <2>1. WorkbenchTypeOK'
    <3>1. /\ tree' \in ResetStops(0) /\ UNCHANGED <<commits, box, kept>>
          /\ UNCHANGED lock \/ lock' = [thread |-> "free", file |-> "free"]
          /\ (UNCHANGED story /\ To("verify")) \/ Ends("fatal")
      BY <1>5 DEF Restore, ReleaseLease, ResetStops
    <3>2. tree' \in Trees /\ lock' \in Locks
      BY <1>c, <3>1, TreesAre DEF Locks
    <3>3. code' \in Calls /\ story' \in Stories
      BY <1>t, <1>c, <3>1, CallsMove, EndsTell
    <3> QED
      BY <1>c, <1>T, <3>1, <3>2, <3>3
  <2>2. Turns' /\ LocksFollow' /\ BoxIsClosed'
    BY <1>5, <1>t, <1>u, CallsMove, EndsTell
       DEF Restore, ReleaseLease, Turns, LocksFollow, BoxIsClosed
  <2>3. BaseIsHead'
    BY <1>5, <1>t, CallsMove, EndsTell DEF Restore, Turns, BaseIsHead, Expected
  <2>4. ReviewedIsStaged'
    BY <1>5, <1>t, CallsMove, EndsTell DEF Restore, ReviewedIsStaged
  <2> QED
    BY <2>1, <2>2, <2>3, <2>4
<1>6. ASSUME Verify PROVE WorkbenchTypeOK' /\ Parts'
  <2>1. WorkbenchTypeOK'
    BY <1>6, <1>t, <1>c, <1>T, CallsMove DEF Verify, wvars
  <2>2. Turns' /\ LocksFollow' /\ BoxIsClosed'
    BY <1>6, <1>t, <1>u, CallsMove DEF Verify, Turns, LocksFollow, BoxIsClosed, wvars
  <2>3. BaseIsHead'
    BY <1>6, <1>t, CallsMove DEF Verify, Turns, BaseIsHead, Expected, AtHead, Attaches, wvars
  <2>4. ReviewedIsStaged'
    BY <1>6, <1>t, CallsMove DEF Verify, ReviewedIsStaged
  <2> QED
    BY <2>1, <2>2, <2>3, <2>4
<1>7. ASSUME Isolate PROVE WorkbenchTypeOK' /\ Parts'
  <2>1. WorkbenchTypeOK'
    BY <1>7, <1>t, <1>c, <1>T, CallsMove DEF Isolate
  <2>2. Turns' /\ LocksFollow' /\ BoxIsClosed'
    BY <1>7, <1>t, <1>u, CallsMove DEF Isolate, Turns, LocksFollow, BoxIsClosed
  <2>3. BaseIsHead'
    BY <1>7, <1>t, CallsMove DEF Isolate, BaseIsHead, Expected, AtHead, Attaches, Clean
  <2>4. ReviewedIsStaged'
    BY <1>7, <1>t, CallsMove DEF Isolate, ReviewedIsStaged
  <2> QED
    BY <2>1, <2>2, <2>3, <2>4
<1>8. ASSUME Edit PROVE WorkbenchTypeOK' /\ Parts'
  <2>1. WorkbenchTypeOK'
    <3>1. tree' \in Trees
      BY <1>8, <1>c DEF Edit, Trees
    <3> QED
      BY <1>8, <1>c, <1>T, <3>1 DEF Edit, cvars
  <2>2. Turns' /\ LocksFollow' /\ BoxIsClosed'
    BY <1>8, <1>t, <1>u DEF Edit, Turns, LocksFollow, BoxIsClosed, cvars
  <2>3. BaseIsHead'
    BY <1>8, <1>t DEF Edit, Turns, BoxIsClosed, BaseIsHead, Expected, AtHead, cvars
  <2>4. ReviewedIsStaged'
    BY <1>8, <1>t DEF Edit, Turns, BoxIsClosed, ReviewedIsStaged, cvars
  <2> QED
    BY <2>1, <2>2, <2>3, <2>4
<1>9. ASSUME PassEnds PROVE WorkbenchTypeOK' /\ Parts'
  <2>1. WorkbenchTypeOK'
    BY <1>9, <1>t, <1>c, <1>T, CallsMove DEF PassEnds
  <2>2. Turns' /\ LocksFollow' /\ BoxIsClosed'
    BY <1>9, <1>t, <1>u, CallsMove DEF PassEnds, Turns, LocksFollow, BoxIsClosed
  <2>3. BaseIsHead'
    BY <1>9, <1>t, CallsMove DEF PassEnds, Turns, BaseIsHead, Expected, AtHead
  <2>4. ReviewedIsStaged'
    BY <1>9, <1>t, CallsMove DEF PassEnds, ReviewedIsStaged
  <2> QED
    BY <2>1, <2>2, <2>3, <2>4
<1>10. ASSUME Close PROVE WorkbenchTypeOK' /\ Parts'
  <2>0. /\ code.pc = "close" /\ UNCHANGED <<tree, commits, lock, story>>
        /\ box' \in {"none", "created", "running"}
        /\ \/ box' = "none" /\ code.err = "none" /\ Moved("capture", "none")
           \/ box' = "none" /\ code.err # "none" /\ Moved("discard", code.err)
           \/ Moved("discard", "fatal")
    <3>1. code.err \in Errs
      BY <1>c DEF Calls
    <3> HIDE DEF Moved
    <3> QED
      BY <1>10, <1>t, <1>c, <3>1, CallsMove DEF Close
  <2>1. WorkbenchTypeOK'
    BY <2>0, <1>c, <1>T
  <2>2. Turns' /\ LocksFollow' /\ BoxIsClosed'
    BY <2>0, <1>t, <1>u, <1>i DEF Turns, LocksFollow, BoxIsClosed
  <2>3. BaseIsHead'
    BY <2>0, <1>t DEF Turns, BaseIsHead, Expected, AtHead
  <2>4. ReviewedIsStaged'
    BY <2>0, <1>t DEF ReviewedIsStaged
  <2> QED
    BY <2>1, <2>2, <2>3, <2>4
<1>11. ASSUME Capture PROVE WorkbenchTypeOK' /\ Parts'
  <2>1. WorkbenchTypeOK'
    BY <1>11, <1>t, <1>c, <1>T, CallsMove, TreesAre DEF Capture
  <2>2. Turns' /\ LocksFollow' /\ BoxIsClosed'
    BY <1>11, <1>t, <1>u, CallsMove DEF Capture, Turns, LocksFollow, BoxIsClosed
  <2>3. BaseIsHead'
    BY <1>11, <1>t, <1>c, CallsMove, TreesAre DEF Capture, Turns, BaseIsHead, Expected, AtHead
  <2>4. ReviewedIsStaged'
    BY <1>11, <1>t, CallsMove DEF Capture, ReviewedIsStaged
  <2> QED
    BY <2>1, <2>2, <2>3, <2>4
<1>12. ASSUME Review PROVE WorkbenchTypeOK' /\ Parts'
  <2>1. WorkbenchTypeOK'
    BY <1>12, <1>t, <1>c, <1>T, CallsMove DEF Review
  <2>2. Turns' /\ LocksFollow' /\ BoxIsClosed'
    BY <1>12, <1>t, <1>u, CallsMove DEF Review, Turns, LocksFollow, BoxIsClosed
  <2>3. BaseIsHead'
    BY <1>12, <1>t, CallsMove DEF Review, Turns, BaseIsHead, Expected, AtHead
  <2>4. ReviewedIsStaged'
    BY <1>12, <1>t, CallsMove DEF Review, ReviewedIsStaged
  <2> QED
    BY <2>1, <2>2, <2>3, <2>4
<1>13. ASSUME Commit PROVE WorkbenchTypeOK' /\ Parts'
  <2>1. WorkbenchTypeOK'
    <3>1. code.base \in Nat /\ tree.index \in Contents
      BY <1>c DEF Calls, Trees
    <3>2. commits' \in Seq(Commits)
      <4> DEFINE new == [base |-> code.base, diff |-> tree.index]
      <4>1. new \in Commits
        BY <3>1 DEF Commits
      <4>2. commits' \in {commits, Append(commits, new)}
        BY <1>13 DEF Commit
      <4> HIDE DEF new
      <4> QED
        BY <1>c, <4>1, <4>2, AppendProperties
    <3>3. tree' \in {tree, Committed} /\ UNCHANGED <<lock, box, kept, story>>
      BY <1>13 DEF Commit
    <3>4. code' \in Calls
      BY <1>13, <1>t, CallsMove DEF Commit
    <3> QED
      BY <1>c, <1>T, <3>2, <3>3, <3>4, TreesAre
  <2>2. Turns' /\ LocksFollow' /\ BoxIsClosed'
    BY <1>13, <1>t, <1>u, CallsMove DEF Commit, Turns, LocksFollow, BoxIsClosed
  <2>3. BaseIsHead'
    BY <1>13, <1>t, CallsMove DEF Commit, Turns, BaseIsHead, Expected
  <2>4. ReviewedIsStaged'
    BY <1>13, <1>t, <1>c, CallsMove, TreesAre DEF Commit, ReviewedIsStaged, AtHead, Clean
  <2> QED
    BY <2>1, <2>2, <2>3, <2>4
<1>14. ASSUME Seal PROVE WorkbenchTypeOK' /\ Parts'
  <2>0. /\ code.pc = "seal" /\ UNCHANGED <<tree, commits, box>> /\ box = "none"
        /\ story' \in Stories /\ lock' \in Locks /\ code' \in Calls
        /\ \/ /\ code'.pc = "idle" /\ story'.answer = "sealed" /\ story'.kind = story.kind
              /\ lock' = [thread |-> "free", file |-> "free"]
           \/ Moved("discard", "fatal") /\ UNCHANGED <<lock, story>>
    <3>1. CASE Raises("fatal") /\ UNCHANGED <<lock, story>>
      BY <1>14, <1>t, <1>c, <3>1, CallsMove DEF Seal, BoxIsClosed, Turns
    <3>2. CASE /\ ReleaseLease /\ code' = Idle
               /\ story' = [story EXCEPT !.answer = "sealed", !.latest = tree.head,
                                         !.retries = 0]
      <4> DEFINE s1 == [story EXCEPT !.answer = "sealed"]
                 s2 == [s1 EXCEPT !.latest = tree.head]
                 s3 == [s2 EXCEPT !.retries = 0]
      <4>1. s1 \in Stories /\ tree.head \in Nat
        BY <1>c, StoriesAre DEF Trees
      <4>2. s2 \in Stories
        <5> HIDE DEF s1
        <5> QED
          BY <4>1 DEF Stories
      <4>3. s3 \in Stories
        <5> HIDE DEF s2
        <5> QED
          BY <4>2 DEF Stories
      <4>4. story' = s3 /\ story'.answer = "sealed" /\ story'.kind = story.kind
        BY <3>2, <1>c DEF Stories
      <4>5. /\ lock' = [thread |-> "free", file |-> "free"] /\ lock' \in Locks
            /\ code' \in Calls /\ code'.pc = "idle"
        BY <3>2, <1>t, CallsMove DEF ReleaseLease, Locks
      <4>6. code.pc = "seal" /\ UNCHANGED <<tree, commits, box>> /\ box = "none"
        BY <1>14, <1>t DEF Seal, BoxIsClosed, Turns
      <4> HIDE DEF s3
      <4> QED
        BY <4>3, <4>4, <4>5, <4>6
    <3> QED
      BY <1>14, <3>1, <3>2 DEF Seal
  <2>1. WorkbenchTypeOK'
    BY <2>0, <1>c, <1>T
  <2>2. Turns' /\ LocksFollow' /\ BoxIsClosed'
    BY <2>0, <1>t, <1>u, <1>i DEF Turns, LocksFollow, BoxIsClosed
  <2>3. BaseIsHead'
    BY <2>0, <1>t DEF Turns, BaseIsHead, Expected
  <2>4. ReviewedIsStaged'
    BY <2>0, <1>t DEF ReviewedIsStaged
  <2> QED
    BY <2>1, <2>2, <2>3, <2>4
<1>15. ASSUME Discard PROVE WorkbenchTypeOK' /\ Parts'
  <2>0. /\ code.pc = "discard" /\ UNCHANGED <<commits, box>>
        /\ lock' = [thread |-> "free", file |-> "free"] /\ lock' \in Locks
        /\ code' \in Calls /\ code'.pc = "idle" /\ tree' \in Trees
        /\ story' \in Stories /\ story'.answer \in {"fatal", code.err}
        /\ story'.kind = story.kind /\ story'.latest = story.latest
        /\ story'.answer = "transient" =>
              \/ AtHead(code.base) /\ tree' = ResetTo(code.base)
              \/ ~AtHead(code.base) /\ story.kind # "restart" /\ code.err = "transient"
    <3>1. code.err \in Errs /\ code.base \in Nat
      BY <1>c DEF Calls
    <3>2. \E a \in {"fatal", code.err} :
            /\ Ends(a)
            /\ a = "transient" =>
                 \/ AtHead(code.base) /\ tree' = ResetTo(code.base)
                 \/ ~AtHead(code.base) /\ story.kind # "restart" /\ code.err = "transient"
      BY <1>15 DEF Discard
    <3>3. /\ code.pc = "discard" /\ UNCHANGED <<commits, box>>
          /\ lock' = [thread |-> "free", file |-> "free"] /\ lock' \in Locks
          /\ tree' \in ResetStops(code.base)
      BY <1>15 DEF Discard, ReleaseLease, Locks, ResetStops
    <3>4. tree' \in Trees
      BY <1>c, <3>1, <3>3, TreesAre
    <3> QED
      BY <1>t, <3>1, <3>2, <3>3, <3>4, EndsTell
  <2>1. WorkbenchTypeOK'
    BY <2>0, <1>c, <1>T
  <2>2. Turns' /\ LocksFollow' /\ BoxIsClosed'
    BY <2>0, <1>t, <1>u, <1>i DEF Turns, LocksFollow, BoxIsClosed
  <2>3. BaseIsHead'
    BY <2>0, <1>t, <1>c, TreesAre DEF BaseIsHead, Expected, AtHead, Attaches, Clean, Calls
  <2>4. ReviewedIsStaged'
    BY <2>0, <1>t DEF ReviewedIsStaged
  <2> QED
    BY <2>1, <2>2, <2>3, <2>4
<1> QED
  BY <1>r, <1>1, <1>2, <1>3, <1>4, <1>5, <1>6, <1>7, <1>8, <1>9, <1>10, <1>11, <1>12, <1>13,
     <1>14, <1>15
     DEF CoderStep, WorkbenchInv

-----------------------------------------------------------------------------
(***************************************************************************)
(* The runner.                                                             *)
(***************************************************************************)
RunnerPcs == RunnerInLease \cup {"idle", "thread", "file"}

\* A step of a run moves it or terminates it; what it has established stays.
RunMoved(pc, term) ==
    /\ exec' \in Execs /\ exec'.pc = pc /\ exec'.term = term
    /\ exec'.commit = exec.commit /\ exec'.copied = exec.copied
    /\ exec'.exit = exec.exit /\ exec'.sealed = exec.sealed

\* What the step helpers of a run do to it: place, termination and outcome.
LEMMA RunsMove ==
    ASSUME WorkbenchTypeOK
    PROVE  /\ \A p \in RunnerPcs : Goto(p) => RunMoved(p, exec.term)
           /\ \A p \in RunnerPcs, o \in Terms : Terminates(p, o) => RunMoved(p, o)
           /\ \A o \in Terms \cup {"success"} : Returns(o) =>
                 /\ exec' \in Execs /\ exec'.pc = "idle" /\ exec'.copied = "none"
                 /\ runs' \in Runs
<1>t. exec \in Execs /\ runs \in Runs
  BY DEF WorkbenchTypeOK
<1> USE DEF RunnerInLease
<1>1. \A e \in Execs, p \in RunnerPcs : [e EXCEPT !.pc = p] \in Execs
  BY DEF Execs, RunnerPcs
<1>2. ASSUME NEW p \in RunnerPcs, Goto(p) PROVE RunMoved(p, exec.term)
  BY <1>1, <1>2, <1>t DEF Goto, RunMoved, Execs
<1>3. ASSUME NEW p \in RunnerPcs, NEW o \in Terms, Terminates(p, o) PROVE RunMoved(p, o)
  <2> DEFINE e == [exec EXCEPT !.pc = p]
  <2>1. e \in Execs
    BY <1>1, <1>t
  <2> HIDE DEF e
  <2>2. [e EXCEPT !.term = o] \in Execs
    BY <2>1 DEF Execs
  <2> QED
    BY <1>3, <1>t, <2>2 DEF e, Terminates, RunMoved, Execs
<1>4. ASSUME NEW o \in Terms \cup {"success"}, Returns(o)
      PROVE  /\ exec' \in Execs /\ exec'.pc = "idle" /\ exec'.copied = "none"
             /\ runs' \in Runs
  <2>1. NoRun \in Execs /\ NoRun.pc = "idle" /\ NoRun.copied = "none"
    BY DEF NoRun, Execs
  <2>2. runs.made + 1 \in Nat
    BY <1>t DEF Runs
  <2> QED
    BY <1>4, <2>1, <2>2 DEF Returns, Runs
<1> QED
  BY <1>2, <1>3, <1>4

\* The container is started, marked, released, killed or removed.
LEMMA PodsAre ==
    ASSUME pod \in Pods
    PROVE  /\ NoPod \in Pods /\ ~NoPod.up /\ ~NoPod.client /\ ~NoPod.there
           /\ \A d \in {"ok", "empty", "failed"} :
                 /\ [pod EXCEPT !.done = d] \in Pods
                 /\ [pod EXCEPT !.done = d].done = d
                 /\ [pod EXCEPT !.done = d].client = pod.client
           /\ [pod EXCEPT !.released = TRUE] \in Pods
           /\ [pod EXCEPT !.released = TRUE].client = pod.client
           /\ [pod EXCEPT !.released = TRUE].done = pod.done
           /\ [pod EXCEPT !.client = FALSE] \in Pods
           /\ ~[pod EXCEPT !.client = FALSE].client
           /\ \A x \in {"none", "zero", "nonzero", "lost"} :
                 (x = "zero" /\ pod.local => pod.done # "no") =>
                 LET p == [pod EXCEPT !.up = FALSE, !.client = FALSE, !.exit = x]
                 IN p \in Pods /\ ~p.up /\ ~p.client /\ p.done = pod.done
           /\ LET p == [pod EXCEPT !.client = FALSE, !.exit = "lost"]
              IN p \in Pods /\ ~p.client /\ p.done = pod.done
<1>1. NoPod \in Pods /\ ~NoPod.up /\ ~NoPod.client /\ ~NoPod.there
  BY DEF NoPod, Pods
<1>2. ASSUME NEW d \in {"ok", "empty", "failed"}
      PROVE  /\ [pod EXCEPT !.done = d] \in Pods
             /\ [pod EXCEPT !.done = d].done = d
             /\ [pod EXCEPT !.done = d].client = pod.client
  BY DEF Pods
<1>3. /\ [pod EXCEPT !.released = TRUE] \in Pods
      /\ [pod EXCEPT !.released = TRUE].client = pod.client
      /\ [pod EXCEPT !.released = TRUE].done = pod.done
      /\ [pod EXCEPT !.client = FALSE] \in Pods
      /\ ~[pod EXCEPT !.client = FALSE].client
  BY DEF Pods
<1>4. ASSUME NEW x \in {"none", "zero", "nonzero", "lost"},
             x = "zero" /\ pod.local => pod.done # "no"
      PROVE  LET p == [pod EXCEPT !.up = FALSE, !.client = FALSE, !.exit = x]
             IN p \in Pods /\ ~p.up /\ ~p.client /\ p.done = pod.done
  BY <1>4 DEF Pods
<1>5. LET p == [pod EXCEPT !.client = FALSE, !.exit = "lost"]
      IN p \in Pods /\ ~p.client /\ p.done = pod.done
  BY DEF Pods
<1> QED
  BY <1>1, <1>2, <1>3, <1>4, <1>5

\* Every step of a run keeps the invariant, one step per action.
LEMMA RunnerKeeps ==
    ASSUME WorkbenchInv, RunnerStep \/ ContainerStep \/ WallTimePasses, UNCHANGED cvars
    PROVE  WorkbenchInv'
<1> USE DEF CoderInLease, RunnerInLease, RunnerPcs, Terms, Stops, RunMoved
<1>t. /\ WorkbenchTypeOK /\ Turns /\ LocksFollow /\ BoxIsClosed /\ BaseIsHead
      /\ ReviewedIsStaged /\ PodIsClosed /\ OutcomeIsEarned
  BY DEF WorkbenchInv
<1>u. UNCHANGED <<code, box, story>>
  BY DEF cvars
<1>c. exec \in Execs /\ pod \in Pods /\ runs \in Runs /\ lock \in Locks /\ tree \in Trees
  BY <1>t DEF WorkbenchTypeOK
<1>i. exec.pc # "idle" => code.pc = "idle" /\ story.answer = "running"
  BY <1>t DEF Turns
<1>f. ASSUME UNCHANGED <<tree, commits>>
      PROVE  BoxIsClosed' /\ BaseIsHead' /\ ReviewedIsStaged'
  BY <1>f, <1>t, <1>u
     DEF BoxIsClosed, BaseIsHead, ReviewedIsStaged, Expected, AtHead, Attaches, Clean
<1> DEFINE Parts == Turns /\ LocksFollow /\ PodIsClosed /\ OutcomeIsEarned
<1>T. ASSUME tree' \in Trees, lock' \in Locks, UNCHANGED commits,
             exec' \in Execs, pod' \in Pods, runs' \in Runs
      PROVE  WorkbenchTypeOK'
  BY <1>T, <1>t, <1>u DEF WorkbenchTypeOK
<1>1. ASSUME RunnerLocksThread PROVE WorkbenchTypeOK' /\ Parts' /\ UNCHANGED <<tree, commits>>
  <2>0. UNCHANGED <<tree, commits>>
    BY <1>1 DEF RunnerLocksThread, wvars
  <2>1. WorkbenchTypeOK'
    BY <1>1, <1>t, <1>c, <1>T, RunsMove DEF RunnerLocksThread, TakeThread, Locks
  <2>2. Turns' /\ LocksFollow'
    BY <1>1, <1>t, <1>c, <1>u, RunsMove
       DEF RunnerLocksThread, TakeThread, Locks, Turns, LocksFollow
  <2>3. PodIsClosed'
    BY <1>1, <1>t, RunsMove DEF RunnerLocksThread, PodIsClosed
  <2>4. OutcomeIsEarned'
    BY <1>1, <1>t, RunsMove DEF RunnerLocksThread, OutcomeIsEarned
  <2> QED
    BY <2>0, <2>1, <2>2, <2>3, <2>4
<1>2. ASSUME RunnerLocksFile PROVE WorkbenchTypeOK' /\ Parts' /\ UNCHANGED <<tree, commits>>
  <2>0. UNCHANGED <<tree, commits>>
    BY <1>2 DEF RunnerLocksFile, wvars
  <2>1. WorkbenchTypeOK'
    BY <1>2, <1>t, <1>c, <1>T, RunsMove DEF RunnerLocksFile, TakeFile, ReleaseThread, Locks
  <2>2. Turns' /\ LocksFollow'
    BY <1>2, <1>t, <1>c, <1>u, RunsMove
       DEF RunnerLocksFile, TakeFile, ReleaseThread, Locks, Turns, LocksFollow
  <2>3. PodIsClosed'
    BY <1>2, <1>t, RunsMove DEF RunnerLocksFile, PodIsClosed
  <2>4. OutcomeIsEarned'
    BY <1>2, <1>t, RunsMove DEF RunnerLocksFile, OutcomeIsEarned
  <2> QED
    BY <2>0, <2>1, <2>2, <2>3, <2>4
<1>3. ASSUME PreSeal PROVE WorkbenchTypeOK' /\ Parts' /\ UNCHANGED <<tree, commits>>
  <2>0. UNCHANGED <<tree, commits>>
    BY <1>3 DEF PreSeal, wvars
  <2>1. WorkbenchTypeOK'
    BY <1>3, <1>t, <1>c, <1>T, RunsMove DEF PreSeal, ReleaseLease, Locks
  <2>2. Turns' /\ LocksFollow'
    BY <1>3, <1>t, <1>u, RunsMove DEF PreSeal, ReleaseLease, Turns, LocksFollow
  <2>3. PodIsClosed'
    BY <1>3, <1>t, RunsMove DEF PreSeal, PodIsClosed
  <2>4. OutcomeIsEarned'
    BY <1>3, <1>t, RunsMove DEF PreSeal, OutcomeIsEarned
  <2> QED
    BY <2>0, <2>1, <2>2, <2>3, <2>4
<1>4. ASSUME PrepareRun PROVE WorkbenchTypeOK' /\ Parts' /\ UNCHANGED <<tree, commits>>
  <2>0. UNCHANGED <<tree, commits>>
    BY <1>4 DEF PrepareRun, wvars
  <2>1. WorkbenchTypeOK'
    BY <1>4, <1>t, <1>c, <1>T, RunsMove DEF PrepareRun, ReleaseLease, Locks
  <2>2. Turns' /\ LocksFollow'
    BY <1>4, <1>t, <1>u, RunsMove DEF PrepareRun, ReleaseLease, Turns, LocksFollow
  <2>3. PodIsClosed'
    BY <1>4, <1>t, RunsMove DEF PrepareRun, PodIsClosed
  <2>4. OutcomeIsEarned'
    BY <1>4, <1>t, RunsMove DEF PrepareRun, OutcomeIsEarned
  <2> QED
    BY <2>0, <2>1, <2>2, <2>3, <2>4
<1>5. ASSUME Launch PROVE WorkbenchTypeOK' /\ Parts' /\ UNCHANGED <<tree, commits>>
  <2>0. UNCHANGED <<tree, commits>>
    BY <1>5 DEF Launch, wvars
  <2>p. /\ pod' \in Pods /\ runs' \in Runs /\ exec' \in Execs /\ lock' \in Locks
        /\ exec'.pc \in {"watch", "idle"} /\ (pod'.client => exec'.pc = "watch")
    <3> DEFINE left == [Started(FALSE) EXCEPT !.client = FALSE]
    <3>1. {Started(TRUE), Started(FALSE), left} \subseteq Pods /\ ~left.client
      BY DEF Started, NoPod, Pods
    <3>2. CASE /\ pod' \in {Started(TRUE), Started(FALSE)}
               /\ Goto("watch") /\ UNCHANGED <<lock, runs>>
      BY <1>t, <1>c, <3>1, <3>2, RunsMove
    <3>3. CASE pod' \in {NoPod, left} /\ Returns("infrastructure_error") /\ ReleaseLease
      <4> HIDE DEF left
      <4> QED
        BY <1>t, <1>c, <3>1, <3>3, RunsMove, PodsAre DEF ReleaseLease, Locks
    <3> QED
      <4>1. \/ /\ pod' \in {Started(TRUE), Started(FALSE)} /\ Goto("watch")
               /\ UNCHANGED <<lock, runs>>
            \/ pod' \in {NoPod, left} /\ Returns("infrastructure_error") /\ ReleaseLease
        BY <1>5 DEF Launch, Backends
      <4> HIDE DEF left
      <4> QED
        BY <3>2, <3>3, <4>1
  <2>1. WorkbenchTypeOK'
    BY <1>c, <1>T, <2>0, <2>p
  <2>2. Turns' /\ LocksFollow'
    <3>1. /\ exec.pc = "launch"
          /\ \/ Goto("watch") /\ UNCHANGED lock
             \/ Returns("infrastructure_error") /\ ReleaseLease
      BY <1>5 DEF Launch
    <3> QED
      BY <1>t, <1>u, <3>1, RunsMove DEF ReleaseLease, Turns, LocksFollow
  <2>3. PodIsClosed'
    BY <2>p DEF PodIsClosed
  <2>4. OutcomeIsEarned'
    <3>1. exec'.copied = exec.copied \/ exec'.copied = "none"
      BY <1>5, <1>t, RunsMove DEF Launch
    <3> QED
      BY <1>5, <1>t, <2>p, <3>1 DEF Launch, OutcomeIsEarned
  <2> QED
    BY <2>0, <2>1, <2>2, <2>3, <2>4
<1>6. ASSUME Watch PROVE WorkbenchTypeOK' /\ Parts' /\ UNCHANGED <<tree, commits>>
  <2>0. UNCHANGED <<tree, commits>>
    BY <1>6 DEF Watch, wvars
  <2>1. WorkbenchTypeOK'
    BY <1>6, <1>t, <1>c, <1>T, RunsMove DEF Watch
  <2>2. Turns' /\ LocksFollow'
    BY <1>6, <1>t, <1>u, RunsMove DEF Watch, Turns, LocksFollow
  <2>3. PodIsClosed'
    BY <1>6, <1>t, RunsMove DEF Watch, PodIsClosed
  <2>4. OutcomeIsEarned'
    BY <1>6, <1>t, RunsMove DEF Watch, OutcomeIsEarned
  <2> QED
    BY <2>0, <2>1, <2>2, <2>3, <2>4
<1>7. ASSUME Probe PROVE WorkbenchTypeOK' /\ Parts' /\ UNCHANGED <<tree, commits>>
  <2>0. UNCHANGED <<tree, commits>>
    BY <1>7 DEF Probe, wvars
  <2>1. WorkbenchTypeOK'
    BY <1>7, <1>t, <1>c, <1>T, RunsMove DEF Probe
  <2>2. Turns' /\ LocksFollow'
    BY <1>7, <1>t, <1>u, RunsMove DEF Probe, Turns, LocksFollow
  <2>3. PodIsClosed'
    BY <1>7, <1>t, RunsMove DEF Probe, PodIsClosed
  <2>4. OutcomeIsEarned'
    BY <1>7, <1>t, RunsMove DEF Probe, Ready, OutcomeIsEarned
  <2> QED
    BY <2>0, <2>1, <2>2, <2>3, <2>4
<1>8. ASSUME Extract PROVE WorkbenchTypeOK' /\ Parts' /\ UNCHANGED <<tree, commits>>
  <2>0. UNCHANGED <<tree, commits>>
    BY <1>8 DEF Extract, wvars
  <2>1. WorkbenchTypeOK'
    BY <1>8, <1>t, <1>c, <1>T, <2>0, RunsMove, PodsAre
       DEF Extract, Outputs, Locks, Execs, wvars, rvars
  <2>2. Turns' /\ LocksFollow'
    BY <1>8, <1>t, <1>c, <1>u, <1>i, RunsMove
       DEF Extract, Outputs, Locks, Execs, Turns, LocksFollow, wvars, rvars
  <2>3. PodIsClosed'
    <3>1. pod' = pod /\ exec'.pc \in {"release", "stop"}
      BY <1>8, <1>t, <1>c, RunsMove DEF Extract, Execs
    <3> QED
      BY <3>1 DEF PodIsClosed
  <2>4. OutcomeIsEarned'
    BY <1>8, <1>t, <1>c, <2>0, RunsMove, PodsAre
       DEF Extract, Outputs, Execs, OutcomeIsEarned, OutputsPresent, SealHolds, AtHead,
           Attaches, Clean, wvars, rvars
  <2> QED
    BY <2>0, <2>1, <2>2, <2>3, <2>4
<1>9. ASSUME Release PROVE WorkbenchTypeOK' /\ Parts' /\ UNCHANGED <<tree, commits>>
  <2>0. UNCHANGED <<tree, commits>>
    BY <1>9 DEF Release, wvars
  <2>1. WorkbenchTypeOK'
    BY <1>9, <1>t, <1>c, <1>T, <2>0, RunsMove, PodsAre DEF Release, Locks, Execs, wvars, rvars
  <2>2. Turns' /\ LocksFollow'
    BY <1>9, <1>t, <1>u, RunsMove DEF Release, Turns, LocksFollow
  <2>3. PodIsClosed'
    BY <1>9, <1>t, RunsMove DEF Release, PodIsClosed
  <2>4. OutcomeIsEarned'
    BY <1>9, <1>t, RunsMove DEF Release, OutcomeIsEarned
  <2> QED
    BY <2>0, <2>1, <2>2, <2>3, <2>4
<1>10. ASSUME Stop PROVE WorkbenchTypeOK' /\ Parts' /\ UNCHANGED <<tree, commits>>
  <2>0. UNCHANGED <<tree, commits>>
    BY <1>10 DEF Stop, wvars
  <2>1. WorkbenchTypeOK'
    BY <1>10, <1>t, <1>c, <1>T, <2>0, RunsMove, PodsAre DEF Stop, Locks, Execs, wvars, rvars
  <2>2. Turns' /\ LocksFollow'
    BY <1>10, <1>t, <1>u, RunsMove DEF Stop, Turns, LocksFollow
  <2>3. PodIsClosed'
    <3>1. /\ exec'.pc = "postseal" /\ exec'.term # "none"
          /\ pod' \in {NoPod, [pod EXCEPT !.client = FALSE]}
      BY <1>10, <1>t, <1>c, RunsMove DEF Stop, OutcomeIsEarned
    <3> QED
      BY <1>c, <3>1, PodsAre DEF PodIsClosed
  <2>4. OutcomeIsEarned'
    BY <1>10, <1>t, RunsMove DEF Stop, OutcomeIsEarned
  <2> QED
    BY <2>0, <2>1, <2>2, <2>3, <2>4
<1>11. ASSUME Finish PROVE WorkbenchTypeOK' /\ Parts' /\ UNCHANGED <<tree, commits>>
  <2>0. UNCHANGED <<tree, commits>>
    BY <1>11 DEF Finish, wvars
  <2>p. /\ exec' \in Execs /\ exec'.pc = "postseal"
        /\ exec'.copied = "part" => exec'.exit # "zero"
        /\ pod' \in Pods /\ ~pod'.client /\ UNCHANGED <<lock, runs>>
        /\ exec'.term = "none" => ~pod'.up /\ ~pod'.there
    <3>0. UNCHANGED <<lock, runs>>
      BY <1>11 DEF Finish
    <3>1. CASE /\ pod' \in {NoPod, [pod EXCEPT !.client = FALSE]}
               /\ Terminates("postseal", "infrastructure_error")
      <4>1. /\ exec' \in Execs /\ exec'.pc = "postseal" /\ exec'.copied = exec.copied
            /\ exec'.exit = exec.exit /\ exec'.term # "none"
        BY <1>t, <3>1, RunsMove
      <4>2. pod' \in Pods /\ ~pod'.client
        BY <1>c, <3>1, PodsAre
      <4> QED
        BY <1>t, <3>0, <4>1, <4>2 DEF OutcomeIsEarned
    <3>2. CASE /\ pod' = NoPod
               /\ exec' = [exec EXCEPT !.pc = "postseal", !.exit = pod.exit,
                     !.copied = IF pod.local THEN Outputs ELSE @,
                     !.term = IF OutputsWereCopied /\ ExitAgrees THEN @
                              ELSE "infrastructure_error"]
      <4> DEFINE o == IF OutputsWereCopied /\ ExitAgrees THEN exec.term
                      ELSE "infrastructure_error"
                 c == IF pod.local THEN Outputs ELSE exec.copied
                 e1 == [exec EXCEPT !.pc = "postseal"]
                 e2 == [e1 EXCEPT !.exit = pod.exit]
                 e3 == [e2 EXCEPT !.copied = c]
                 e4 == [e3 EXCEPT !.term = o]
      <4>0. c \in {"none", "whole", "part"} /\ (c = "part" => pod.exit # "zero")
        BY <1>11, <1>t, <1>c DEF Outputs, Execs, Pods, Finish, OutcomeIsEarned
      <4>1. o \in Terms \cup {"none"} /\ pod.exit \in {"none", "zero", "nonzero", "lost"}
        BY <1>c DEF Execs, Pods
      <4>2. e1 \in Execs
        BY <1>c DEF Execs
      <4>3. e2 \in Execs
        <5> HIDE DEF e1
        <5> QED
          BY <4>1, <4>2 DEF Execs
      <4>4. e3 \in Execs
        <5> HIDE DEF e2, c
        <5> QED
          BY <4>0, <4>3 DEF Execs
      <4>5. e4 \in Execs
        <5> HIDE DEF e3, o
        <5> QED
          BY <4>1, <4>4 DEF Execs
      <4>6. exec' = e4 /\ exec'.pc = "postseal" /\ exec'.copied = c /\ exec'.exit = pod.exit
        BY <3>2, <1>c DEF Execs
      <4> HIDE DEF e4, c
      <4> QED
        BY <1>c, <3>0, <3>2, <4>0, <4>5, <4>6, PodsAre
    <3> QED
      BY <1>11, <3>1, <3>2 DEF Finish
  <2>1. WorkbenchTypeOK'
    BY <1>c, <1>T, <2>0, <2>p
  <2>2. Turns' /\ LocksFollow'
    BY <1>11, <1>t, <1>c, <1>u, <1>i, RunsMove
       DEF Finish, OutputsWereCopied, ExitAgrees, Locks, Execs, Turns, LocksFollow, wvars, rvars
  <2>3. PodIsClosed'
    BY <2>p DEF PodIsClosed
  <2>4. OutcomeIsEarned'
    BY <2>p DEF OutcomeIsEarned
  <2> QED
    BY <2>0, <2>1, <2>2, <2>3, <2>4
<1>12. ASSUME PostSeal PROVE WorkbenchTypeOK' /\ Parts' /\ UNCHANGED <<tree, commits>>
  <2>0. UNCHANGED <<tree, commits>>
    BY <1>12 DEF PostSeal, wvars
  <2>1. WorkbenchTypeOK'
    BY <1>12, <1>t, <1>c, <1>T, RunsMove DEF PostSeal, wvars
  <2>2. Turns' /\ LocksFollow'
    BY <1>12, <1>t, <1>u, RunsMove DEF PostSeal, Turns, LocksFollow, wvars
  <2>3. PodIsClosed'
    BY <1>12, <1>t, RunsMove DEF PostSeal, PodIsClosed
  <2>4. OutcomeIsEarned'
    BY <1>12, <1>t, <2>0, RunsMove
       DEF PostSeal, OutcomeIsEarned, SealHolds, AtHead, Attaches, Clean
  <2> QED
    BY <2>0, <2>1, <2>2, <2>3, <2>4
<1>13. ASSUME CaptureOutputs PROVE WorkbenchTypeOK' /\ Parts' /\ UNCHANGED <<tree, commits>>
  <2>0. UNCHANGED <<tree, commits>>
    BY <1>13 DEF CaptureOutputs, wvars
  <2>1. WorkbenchTypeOK'
    BY <1>13, <1>t, <1>c, <1>T, <2>0, RunsMove, PodsAre
       DEF CaptureOutputs, Keep, Locks, Execs, wvars, rvars
  <2>2. Turns' /\ LocksFollow'
    BY <1>13, <1>t, <1>c, <1>u, <1>i, RunsMove
       DEF CaptureOutputs, Keep, Locks, Execs, Turns, LocksFollow, wvars, rvars
  <2>3. PodIsClosed'
    BY <1>13, <1>t, <1>c, RunsMove, PodsAre
       DEF CaptureOutputs, Keep, Execs, PodIsClosed, OutcomeIsEarned, wvars, rvars
  <2>4. OutcomeIsEarned'
    <3>1. CASE Goto("seal")
      BY <1>13, <1>t, <3>1, RunsMove
         DEF CaptureOutputs, OutcomeIsEarned, SealHolds, AtHead, Attaches, Clean
    <3>2. CASE exec' = [exec EXCEPT !.pc = "seal", !.copied = "none",
                                    !.term = Keep("infrastructure_error")]
      <4>1. exec'.pc = "seal" /\ exec'.copied = "none" /\ exec'.term # "none"
        BY <1>c, <3>2 DEF Execs, Keep
      <4> QED
        BY <4>1 DEF OutcomeIsEarned
    <3> QED
      BY <1>13, <3>1, <3>2 DEF CaptureOutputs
  <2> QED
    BY <2>0, <2>1, <2>2, <2>3, <2>4
<1>14. ASSUME WriteSeal PROVE WorkbenchTypeOK' /\ Parts' /\ UNCHANGED <<tree, commits>>
  <2>0. UNCHANGED <<tree, commits>>
    BY <1>14 DEF WriteSeal, wvars
  <2>1. WorkbenchTypeOK'
    BY <1>14, <1>t, <1>c, <1>T, <2>0, RunsMove, PodsAre
       DEF WriteSeal, Locks, Execs, wvars, rvars
  <2>2. Turns' /\ LocksFollow'
    BY <1>14, <1>t, <1>c, <1>u, <1>i, RunsMove
       DEF WriteSeal, Locks, Execs, Turns, LocksFollow, wvars, rvars
  <2>3. PodIsClosed'
    BY <1>14, <1>t, <1>c, RunsMove, PodsAre
       DEF WriteSeal, Execs, PodIsClosed, OutcomeIsEarned, wvars, rvars
  <2>4. OutcomeIsEarned'
    <3> DEFINE seals == exec.term = "none" /\ exec.exit = "zero" /\ OutputsPresent
    <3>1. CASE exec' = [exec EXCEPT !.pc = "outcome", !.sealed = seals]
      <4>1. /\ exec'.pc = "outcome" /\ exec'.sealed = seals /\ exec'.term = exec.term
            /\ exec'.commit = exec.commit /\ exec'.copied = exec.copied
            /\ exec'.exit = exec.exit /\ exec.pc = "seal"
        BY <1>14, <1>c, <3>1 DEF WriteSeal, Execs
      <4> QED
        BY <1>t, <2>0, <4>1
           DEF OutcomeIsEarned, OutputsPresent, SealHolds, AtHead, Attaches, Clean
    <3>2. CASE Terminates("outcome", "infrastructure_error")
      BY <1>t, <3>2, RunsMove DEF OutcomeIsEarned
    <3> QED
      BY <1>14, <3>1, <3>2 DEF WriteSeal
  <2> QED
    BY <2>0, <2>1, <2>2, <2>3, <2>4
<1>15. ASSUME DecideOutcome PROVE WorkbenchTypeOK' /\ Parts' /\ UNCHANGED <<tree, commits>>
  <2>0. UNCHANGED <<tree, commits>>
    BY <1>15 DEF DecideOutcome, wvars
  <2>1. WorkbenchTypeOK'
    BY <1>15, <1>t, <1>c, <1>T, RunsMove
       DEF DecideOutcome, ReleaseLease, ExitOutcome, Locks, Execs
  <2>2. Turns' /\ LocksFollow'
    BY <1>15, <1>t, <1>c, <1>u, RunsMove
       DEF DecideOutcome, ReleaseLease, ExitOutcome, Execs, Turns, LocksFollow
  <2>3. PodIsClosed'
    BY <1>15, <1>t, <1>c, RunsMove DEF DecideOutcome, Execs, PodIsClosed
  <2>4. OutcomeIsEarned'
    BY <1>15, <1>t, <1>c, RunsMove DEF DecideOutcome, ExitOutcome, Execs, OutcomeIsEarned
  <2> QED
    BY <2>0, <2>1, <2>2, <2>3, <2>4
<1>16. ASSUME CandidateEnds PROVE WorkbenchTypeOK' /\ Parts' /\ UNCHANGED <<tree, commits>>
  <2>0. UNCHANGED <<tree, commits>>
    BY <1>16 DEF CandidateEnds, wvars
  <2>1. WorkbenchTypeOK'
    BY <1>16, <1>c, <1>T, PodsAre DEF CandidateEnds, wvars
  <2>2. Turns' /\ LocksFollow'
    BY <1>16, <1>t, <1>u DEF CandidateEnds, Turns, LocksFollow, wvars
  <2>3. PodIsClosed'
    BY <1>16, <1>t DEF CandidateEnds, PodIsClosed
  <2>4. OutcomeIsEarned'
    BY <1>16, <1>t, <2>0
       DEF CandidateEnds, OutcomeIsEarned, OutputsPresent, SealHolds, AtHead, Attaches, Clean
  <2> QED
    BY <2>0, <2>1, <2>2, <2>3, <2>4
<1>17. ASSUME ContainerExits PROVE WorkbenchTypeOK' /\ Parts' /\ UNCHANGED <<tree, commits>>
  <2>0. UNCHANGED <<tree, commits>>
    BY <1>17 DEF ContainerExits, wvars
  <2>1. WorkbenchTypeOK'
    <3> DEFINE x == IF ~pod.client THEN pod.exit
                    ELSE IF pod.done = "failed" THEN "nonzero" ELSE "zero"
    <3>1. x \in {"none", "zero", "nonzero", "lost"}
      BY <1>c DEF Pods
    <3>2. pod' = [pod EXCEPT !.up = FALSE, !.client = FALSE, !.exit = x]
      BY <1>17, <1>c DEF ContainerExits, Pods
    <3>3. x = "zero" /\ pod.local => pod.done # "no"
      BY <1>17, <1>c DEF ContainerExits, Pods
    <3> HIDE DEF x
    <3>4. pod' \in Pods
      BY <1>c, <3>1, <3>2, <3>3, PodsAre
    <3> QED
      BY <1>17, <1>c, <1>T, <3>4 DEF ContainerExits, wvars
  <2>2. Turns' /\ LocksFollow'
    BY <1>17, <1>t, <1>u DEF ContainerExits, Turns, LocksFollow, wvars
  <2>3. PodIsClosed'
    BY <1>17, <1>t, <1>c, RunsMove, PodsAre DEF ContainerExits, PodIsClosed, OutcomeIsEarned
  <2>4. OutcomeIsEarned'
    BY <1>17, <1>t, <2>0
       DEF ContainerExits, OutcomeIsEarned, OutputsPresent, SealHolds, AtHead, Attaches, Clean
  <2> QED
    BY <2>0, <2>1, <2>2, <2>3, <2>4
<1>18. ASSUME ContainerDies PROVE WorkbenchTypeOK' /\ Parts' /\ UNCHANGED <<tree, commits>>
  <2>0. UNCHANGED <<tree, commits>>
    BY <1>18 DEF ContainerDies, wvars
  <2>1. WorkbenchTypeOK'
    BY <1>18, <1>t, <1>c, <1>T, PodsAre DEF ContainerDies, Locks, Execs
  <2>2. Turns' /\ LocksFollow'
    BY <1>18, <1>t, <1>u DEF ContainerDies, Turns, LocksFollow
  <2>3. PodIsClosed'
    BY <1>18, <1>t DEF ContainerDies, PodIsClosed
  <2>4. OutcomeIsEarned'
    <3>1. pod'.done = pod.done /\ exec' = exec
      BY <1>18, <1>c, PodsAre DEF ContainerDies
    <3> QED
      BY <1>t, <2>0, <3>1
         DEF OutcomeIsEarned, OutputsPresent, SealHolds, AtHead, Attaches, Clean
  <2> QED
    BY <2>0, <2>1, <2>2, <2>3, <2>4
<1>19. ASSUME WallTimePasses PROVE WorkbenchTypeOK' /\ Parts' /\ UNCHANGED <<tree, commits>>
  <2>0. UNCHANGED <<tree, commits>>
    BY <1>19 DEF WallTimePasses, wvars
  <2>1. WorkbenchTypeOK'
    BY <1>19, <1>t, <1>c, <1>T, <2>0, RunsMove, PodsAre
       DEF WallTimePasses, Watched, Locks, Execs, wvars, rvars
  <2>2. Turns' /\ LocksFollow'
    BY <1>19, <1>t, <1>u DEF WallTimePasses, Turns, LocksFollow, wvars
  <2>3. PodIsClosed'
    BY <1>19, PodsAre DEF WallTimePasses, Watched, Execs, PodIsClosed, OutcomeIsEarned, rvars
  <2>4. OutcomeIsEarned'
    BY <1>19, <1>t DEF WallTimePasses, Watched, OutcomeIsEarned
  <2> QED
    BY <2>0, <2>1, <2>2, <2>3, <2>4
<1>20. ASSUME CandidateWrites PROVE WorkbenchInv'
  <2>1. tree' \in Trees
    BY <1>20, <1>c DEF CandidateWrites, Trees, Contents
  <2>2. UNCHANGED <<commits, lock, exec, pod, runs>> /\ pod.client
    BY <1>20 DEF CandidateWrites, rvars
  <2>3. WorkbenchTypeOK'
    BY <1>T, <1>c, <2>1, <2>2
  <2>4. exec.pc \notin {"idle", "postseal", "capture", "seal", "outcome"}
    BY <1>t, <2>2 DEF PodIsClosed
  <2>5. /\ Turns' /\ LocksFollow' /\ PodIsClosed' /\ OutcomeIsEarned' /\ BoxIsClosed'
        /\ BaseIsHead' /\ ReviewedIsStaged'
    BY <1>t, <1>u, <2>2
       DEF Turns, LocksFollow, PodIsClosed, OutcomeIsEarned, BoxIsClosed, BaseIsHead,
           ReviewedIsStaged
  <2> QED
    BY <2>3, <2>5 DEF WorkbenchInv
<1> QED
  BY <1>f, <1>1, <1>2, <1>3, <1>4, <1>5, <1>6, <1>7, <1>8, <1>9, <1>10, <1>11, <1>12, <1>13,
     <1>14, <1>15, <1>16, <1>17, <1>18, <1>19, <1>20
     DEF RunnerStep, ContainerStep, WorkbenchInv

-----------------------------------------------------------------------------
(***************************************************************************)
(* The controller and other processes.                                     *)
(***************************************************************************)
LEMMA ControllerKeeps ==
    ASSUME WorkbenchInv, CheckPatch \/ Execute \/ RouteResult
    PROVE  WorkbenchInv'
<1> USE DEF CoderInLease, RunnerInLease, Answers
<1>t. /\ WorkbenchTypeOK /\ Turns /\ LocksFollow /\ BoxIsClosed /\ BaseIsHead
      /\ ReviewedIsStaged /\ PodIsClosed /\ OutcomeIsEarned
  BY DEF WorkbenchInv
<1>c. exec \in Execs /\ runs \in Runs /\ story \in Stories
  BY <1>t DEF WorkbenchTypeOK
<1>1. /\ UNCHANGED <<tree, commits, lock, code, box, pod>> /\ code.pc = "idle"
      /\ story.answer \in {"sealed", "accepted", "running"}
  BY <1>t DEF CheckPatch, Execute, RouteResult, StartRun, wvars, rvars, Turns
<1>2. exec.pc = "idle"
  BY <1>t DEF CheckPatch, Execute, RouteResult, StartRun, Turns
<1>a. ASSUME NEW a \in Answers \ {"none", "transient"}, Now(a)
      PROVE  /\ story' \in Stories /\ story'.answer = a /\ story'.kind = story.kind
             /\ story'.latest = story.latest
  BY <1>a, <1>c, StoriesAre DEF Now
<1>b. box = "none"
  BY <1>t, <1>1 DEF BoxIsClosed
<1>f. ASSUME story'.answer # "transient"
      PROVE  BoxIsClosed' /\ BaseIsHead' /\ ReviewedIsStaged'
  BY <1>b, <1>1, <1>f DEF BoxIsClosed, BaseIsHead, ReviewedIsStaged
<1>3. CASE CheckPatch \/ RouteResult
  <2>1. /\ UNCHANGED exec
        /\ story' \in Stories /\ story'.answer \notin {"none", "transient"}
        /\ story'.kind = story.kind /\ runs' \in Runs
    <3>1. CASE CheckPatch
      BY <1>a, <1>c, <3>1 DEF CheckPatch, rvars
    <3>2. CASE RouteResult
      <4>1. runs' \in Runs /\ UNCHANGED exec
        BY <1>c, <3>2 DEF RouteResult, Runs
      <4>2. CASE Again
        <5> DEFINE s1 == [story EXCEPT !.answer = "accepted"]
                   s2 == [s1 EXCEPT !.retries = @ + 1]
        <5>1. s1 \in Stories
          BY <1>c, StoriesAre
        <5>2. s2 \in Stories
          <6> HIDE DEF s1
          <6> QED
            BY <5>1 DEF Stories
        <5>3. story' = s2 /\ story'.answer = "accepted" /\ story'.kind = story.kind
          BY <1>c, <4>2 DEF Again, Stories
        <5> QED
          BY <4>1, <5>2, <5>3
      <4>3. CASE \E a \in {"accepted", "rejected", "done", "fatal"} : Now(a)
        BY <1>a, <4>1, <4>3
      <4> QED
        BY <3>2, <4>2, <4>3 DEF RouteResult
    <3> QED
      BY <1>3, <3>1, <3>2
  <2>2. WorkbenchTypeOK'
    BY <1>t, <1>1, <2>1 DEF WorkbenchTypeOK
  <2>3. Turns' /\ LocksFollow' /\ PodIsClosed' /\ OutcomeIsEarned'
    BY <1>t, <1>1, <1>2, <2>1 DEF Turns, LocksFollow, PodIsClosed, OutcomeIsEarned
  <2> QED
    BY <1>f, <2>1, <2>2, <2>3 DEF WorkbenchInv
<1>4. CASE Execute
  <2>1. /\ exec' = [NoRun EXCEPT !.pc = "thread", !.commit = story.latest]
        /\ UNCHANGED runs /\ Now("running")
    BY <1>4 DEF Execute, StartRun
  <2>2. exec' \in Execs /\ exec'.pc = "thread" /\ exec'.copied = "none"
    <3>1. exec' = [pc |-> "thread", commit |-> story.latest, late |-> FALSE,
                   extracted |-> FALSE, copied |-> "none", term |-> "none",
                   exit |-> "none", sealed |-> FALSE]
      BY <2>1 DEF NoRun
    <3> QED
      BY <1>c, <3>1 DEF Execs, Stories
  <2>3. /\ story' \in Stories /\ story'.answer = "running" /\ story'.kind = story.kind
    BY <1>a, <2>1
  <2>4. WorkbenchTypeOK'
    BY <1>t, <1>1, <2>1, <2>2, <2>3 DEF WorkbenchTypeOK
  <2>5. Turns' /\ LocksFollow' /\ PodIsClosed' /\ OutcomeIsEarned'
    BY <1>t, <1>1, <1>2, <2>2, <2>3 DEF Turns, LocksFollow, PodIsClosed, OutcomeIsEarned
  <2> QED
    BY <1>f, <2>3, <2>4, <2>5 DEF WorkbenchInv
<1> QED
  BY <1>3, <1>4

\* Another process takes and returns the machine's lock only.
LEMMA OthersKeep ==
    ASSUME WorkbenchInv, OtherProcess, UNCHANGED <<cvars, rvars>>
    PROVE  WorkbenchInv'
<1>1. /\ UNCHANGED <<tree, commits, code, box, story, exec, pod, runs>>
      /\ lock' \in Locks /\ lock'.thread = lock.thread
      /\ lock.file \in {"free", "other"} /\ lock'.file \in {"free", "other"}
  BY DEF OtherProcess, cvars, rvars, WorkbenchInv, WorkbenchTypeOK, Locks
<1> QED
  BY <1>1
     DEF WorkbenchInv, WorkbenchTypeOK, Turns, LocksFollow, BoxIsClosed, BaseIsHead,
         ReviewedIsStaged, PodIsClosed, OutcomeIsEarned, Expected, AtHead, Attaches, Clean,
         SealHolds, OutputsPresent

\* Every step of a coding call, a run, the controller or another process keeps it.
THEOREM WorkbenchStep == WorkbenchInv /\ [Next]_vars => WorkbenchInv'
<1> SUFFICES ASSUME WorkbenchInv, [Next]_vars PROVE WorkbenchInv'
  OBVIOUS
<1>1. CASE UNCHANGED vars
  <2>1. UNCHANGED <<tree, commits, lock, code, box, story, exec, pod, runs>>
    BY <1>1 DEF vars, wvars, cvars, rvars
  <2> QED
    BY <2>1
       DEF WorkbenchInv, WorkbenchTypeOK, Turns, LocksFollow, BoxIsClosed, BaseIsHead,
           ReviewedIsStaged, PodIsClosed, OutcomeIsEarned, Expected, AtHead, Attaches, Clean,
           SealHolds, OutputsPresent
<1> QED
  BY <1>1, CoderKeeps, RunnerKeeps, ControllerKeeps, OthersKeep DEF Next

\* What fairness adds is not needed for safety.
LEMMA SafeBehaviour == Spec => []WorkbenchInv /\ [][Next]_vars
BY WorkbenchInit, WorkbenchStep, PTL DEF Spec

-----------------------------------------------------------------------------
(***************************************************************************)
(* What follows.                                                           *)
(***************************************************************************)
\* Between calls neither component keeps a lock, whichever lock was refused and
\* whatever the call ended with (worktrees.acquire_lease).
THEOREM LocksAreReturnedTheorem == Spec => []LocksAreReturned
<1>1. WorkbenchInv => LocksAreReturned
  BY DEF WorkbenchInv, WorkbenchTypeOK, Locks, LocksFollow, LocksAreReturned, CoderInLease,
         RunnerInLease
<1> QED
  BY <1>1, SafeBehaviour, PTL

\* What the coding worker returns is one commit on the base of the call, its diff
\* the last one a review accepted, at HEAD of a clean worktree in which no container
\* of Trae is left to write (_produce_candidate_with_lease).
THEOREM SealsWhatWasReviewedTheorem == Spec => SealsWhatWasReviewed
<1>1. ASSUME WorkbenchInv, [Next]_vars, story.answer = "pending", story'.answer = "sealed"
      PROVE  /\ commits[story'.latest] = [base |-> code.base, diff |-> code.reviewed]
             /\ AtHead(story'.latest) /\ Clean /\ box # "running"
  <2>t. /\ WorkbenchTypeOK /\ BoxIsClosed /\ ReviewedIsStaged /\ code.err \in Errs
    BY <1>1 DEF WorkbenchInv, WorkbenchTypeOK, Calls, Errs
  <2>1. ASSUME Seal
        PROVE  /\ commits[story'.latest] = [base |-> code.base, diff |-> code.reviewed]
               /\ AtHead(story'.latest) /\ Clean /\ box # "running"
    <3>1. story'.latest = tree.head /\ code.pc = "seal"
      BY <1>1, <2>t, <2>1 DEF Seal, WorkbenchTypeOK, Stories
    <3> QED
      BY <1>1, <2>t, <3>1 DEF ReviewedIsStaged, BoxIsClosed, AtHead
  <2>2. ASSUME StartCall PROVE FALSE
    BY <1>1, <2>2, <2>t DEF StartCall, StartInitial, RetryCoding, Replace
  <2>3. ASSUME CoderStep, ~Seal PROVE FALSE
    <3>1. story' = story \/ Ends("fatal") \/ Ends(code.err)
      BY <2>3
         DEF CoderStep, Prepare, CoderLocksThread, CoderLocksFile, Restore, Verify, Isolate,
             PassEnds, Close, Capture, Review, Commit, Discard
    <3> QED
      BY <1>1, <2>t, <3>1, EndsTell DEF Errs, Answers
  <2>4. ASSUME Edit \/ UNCHANGED cvars PROVE FALSE
    BY <1>1, <2>4 DEF Edit, cvars
  <2>5. ASSUME CheckPatch \/ Execute \/ RouteResult PROVE FALSE
    BY <1>1, <2>5 DEF CheckPatch, Execute, RouteResult
  <2> QED
    BY <1>1, <2>1, <2>2, <2>3, <2>4, <2>5 DEF Next, vars
<1> QED
  BY <1>1, SafeBehaviour, PTL DEF SealsWhatWasReviewed

\* Files, index and HEAD change under the lease alone: but for the container of a call
\* that failed because it could not be removed, nothing writes once the lease is free
\* (acquire_lease, _close_isolation, terminate_group).
THEOREM LeaseGuardsTheTreeTheorem == Spec => LeaseGuardsTheTree
<1>1. ASSUME WorkbenchInv, [Next]_vars,
             [tree EXCEPT !.there = TRUE, !.branch = TRUE]
               # [tree' EXCEPT !.there = TRUE, !.branch = TRUE]
      PROVE  \/ Holds("coder") /\ code.pc # "idle"
             \/ Holds("runner") /\ exec.pc # "idle"
             \/ story.answer = "fatal"
  <2> USE DEF CoderInLease, RunnerInLease
  <2>t. /\ WorkbenchTypeOK /\ LocksFollow /\ BoxIsClosed /\ PodIsClosed
        /\ tree \in Trees /\ lock \in Locks
    BY <1>1 DEF WorkbenchInv, WorkbenchTypeOK
  <2>1. tree' # tree /\ tree' # Created /\ tree' \notin RolledBack
    BY <1>1, <2>t DEF Created, RolledBack, Trees
  <2>2. code.pc \in CoderInLease => Holds("coder") /\ code.pc # "idle"
    BY <2>t DEF LocksFollow, Locks, Holds
  <2>3. exec.pc \in RunnerInLease => Holds("runner") /\ exec.pc # "idle"
    BY <2>t DEF LocksFollow, Locks, Holds
  <2>4. \/ code.pc \in {"restore", "capture", "commit", "discard"}
        \/ box = "running" \/ pod.client
    <3>1. CASE StartCall \/ OtherProcess \/ UNCHANGED vars
      BY <2>1, <3>1 DEF StartCall, OtherProcess, vars, wvars
    <3>2. CASE CoderStep \/ Edit
      BY <2>1, <3>2
         DEF CoderStep, Prepare, CoderLocksThread, CoderLocksFile, Restore, Verify, Isolate,
             Edit, PassEnds, Close, Capture, Review, Commit, Seal, Discard, wvars
    <3>3. CASE CheckPatch \/ Execute \/ RouteResult
      BY <2>1, <3>3 DEF CheckPatch, Execute, RouteResult, StartRun, wvars
    <3>4. CASE RunnerStep
      BY <2>1, <3>4
         DEF RunnerStep, RunnerLocksThread, RunnerLocksFile, PreSeal, PrepareRun, Launch, Watch,
             Probe, Extract, Release, Stop, Finish, PostSeal, CaptureOutputs, WriteSeal,
             DecideOutcome, wvars
    <3>5. CASE ContainerStep \/ WallTimePasses
      BY <2>1, <3>5
         DEF ContainerStep, CandidateEnds, ContainerExits, ContainerDies, CandidateWrites,
             WallTimePasses, wvars
    <3> QED
      BY <1>1, <3>1, <3>2, <3>3, <3>4, <3>5 DEF Next
  <2> QED
    BY <2>t, <2>2, <2>3, <2>4 DEF BoxIsClosed, PodIsClosed
<1> QED
  BY <1>1, SafeBehaviour, PTL DEF LeaseGuardsTheTree

\* A run is a success only if the candidate completed with exit code zero, its whole
\* outputs were copied while its container was held or, of a local one, were there when
\* it ended, the container is gone, an execution seal binds them, and the worktree is
\* the sealed one (_run_locked).
THEOREM SuccessIsWholeTheorem == Spec => SuccessIsWhole
<1>1. ASSUME WorkbenchInv, [Next]_vars, runs'.made > runs.made, runs'.last = "success"
      PROVE  /\ exec.copied = "whole" /\ exec.sealed
             /\ ~pod.there /\ SealHolds(exec.commit)
  <2>t. /\ exec \in Execs /\ runs \in Runs /\ PodIsClosed /\ OutcomeIsEarned
    BY <1>1 DEF WorkbenchInv, WorkbenchTypeOK
  <2>1. DecideOutcome
    <3>1. runs'.made # runs.made
      BY <1>1, <2>t DEF Runs
    <3>2. ASSUME UNCHANGED runs PROVE FALSE
      BY <3>1, <3>2
    <3>3. ASSUME Returns("contract_error") \/ Returns("infrastructure_error") PROVE FALSE
      BY <1>1, <3>3 DEF Returns
    <3>4. ASSUME RouteResult PROVE FALSE
      BY <1>1, <3>4, <2>t DEF RouteResult, Runs
    <3>5. CASE RunnerStep
      BY <3>2, <3>3, <3>5
         DEF RunnerStep, RunnerLocksThread, RunnerLocksFile, PreSeal, PrepareRun, Launch, Watch,
             Probe, Extract, Release, Stop, Finish, PostSeal, CaptureOutputs, WriteSeal
    <3> QED
      BY <1>1, <3>2, <3>4, <3>5
         DEF Next, vars, rvars, ContainerStep, CandidateEnds, ContainerExits, ContainerDies,
             CandidateWrites, WallTimePasses, CheckPatch, Execute, StartRun
  <2>2. /\ exec.pc = "outcome" /\ exec.term = "none" /\ exec.exit = "zero" /\ OutputsPresent
    BY <1>1, <2>t, <2>1 DEF DecideOutcome, Returns, ExitOutcome, Execs, Terms, Stops
  <2> QED
    BY <2>t, <2>2 DEF PodIsClosed, OutcomeIsEarned, OutputsPresent
<1> QED
  BY <1>1, SafeBehaviour, PTL DEF SuccessIsWhole

\* The one retry of a failed initial attempt or repair finds the worktree it needs:
\* clean, at the commit its context names (discard_uncommitted_changes).
THEOREM RetriesFindTheirCommitTheorem == Spec => RetriesFindTheirCommit
<1>1. ASSUME WorkbenchInv, [Next]_vars, story.answer = "transient",
             story'.answer = "pending", story.kind # "restart"
      PROVE  Attaches(Expected)
  BY <1>1 DEF WorkbenchInv, BaseIsHead
<1> QED
  BY <1>1, SafeBehaviour, PTL DEF RetriesFindTheirCommit
=============================================================================
