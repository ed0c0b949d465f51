---------------------------- MODULE RoundProofs -----------------------------
(***************************************************************************)
(* Proofs about Round: what its plans and sessions are charged, and what   *)
(* its runs are judged by, for any number of directions, lanes, attempts,  *)
(* reviews and samples, and any window that takes a stall's samples.       *)
(***************************************************************************)
EXTENDS Round, TLAPS, FiniteSetTheorems, SequenceTheorems

----------------------------------------------------------------------------
(* What is charged.                                                        *)

Tasks ==
    [at : {"start", "wait", "planned", "failed", "blocked", "broken", "recorded"},
     attempt : Nat, call : Nat, repairing : BOOLEAN, own : Nat, charge : Nat]
Stages == {"none", "pass", "capture", "review", "commit", "coded", "failed",
           "ended"}
Outcomes == {"none", "pass", "unread", "capture", "verifier", "rejected",
         "evidence", "commit", "candidate"}
Sessions ==
    [at : Stages, round : Nat, tokens : Nat, call : Nat, answered : Nat, spent : Nat,
     charge : Nat, end : Outcomes]

ChargesTypeOK ==
    /\ plan \in [Directions -> Tasks]
    /\ usage \in [Directions \cup {Router} -> Nat \cup {NoUsage}]
    /\ session \in [Directions -> Sessions]

\* While a direction waits for an answer its counter holds what it was answered.
SoundTask(d) ==
    /\ plan[d].at = "wait" => usage[d] = plan[d].own
    /\ plan[d].at = "planned" => plan[d].charge = plan[d].own

\* What a session spent is in the delta it carries, or still in the review.
SoundSession(s) ==
    /\ s.at \in {"pass", "capture", "commit"} => s.spent = s.tokens
    /\ s.at = "review" => s.spent = s.tokens + s.answered
    /\ s.at \in {"pass", "capture", "review", "commit"} => s.charge = 0
    /\ s.at \in {"coded", "failed"} =>
           s.charge = s.spent - (IF s.end = "unread" THEN 1 ELSE 0)

ChargesInv ==
    /\ ChargesTypeOK
    /\ \A d \in Directions : SoundTask(d) /\ SoundSession(session[d])

----------------------------------------------------------------------------
\* A session stays one when one of its fields is set.
LEMMA SessionUpdates ==
  ASSUME NEW s \in Sessions
  PROVE  /\ \A v \in Stages : [s EXCEPT !.at = v] \in Sessions
         /\ \A v \in Nat : [s EXCEPT !.round = v] \in Sessions
         /\ \A v \in Nat : [s EXCEPT !.tokens = v] \in Sessions
         /\ \A v \in Nat : [s EXCEPT !.call = v] \in Sessions
         /\ \A v \in Nat : [s EXCEPT !.answered = v] \in Sessions
         /\ \A v \in Nat : [s EXCEPT !.spent = v] \in Sessions
         /\ \A v \in Nat : [s EXCEPT !.charge = v] \in Sessions
         /\ \A v \in Outcomes : [s EXCEPT !.end = v] \in Sessions
  BY DEF Sessions

\* What the fields of a session are.
LEMMA SessionFields ==
  ASSUME NEW s \in Sessions
  PROVE  /\ s.at \in Stages /\ s.end \in Outcomes
         /\ s.round \in Nat /\ s.tokens \in Nat /\ s.call \in Nat
         /\ s.answered \in Nat /\ s.spent \in Nat /\ s.charge \in Nat
  BY DEF Sessions

\* What a failed session is: the delta of its failure is its charge.
LEMMA FailsIs ==
  ASSUME NEW s \in Sessions, NEW n \in Nat, NEW why \in Outcomes
  PROVE  /\ Fails(s, n, why) \in Sessions
         /\ Fails(s, n, why).at = "failed" /\ Fails(s, n, why).end = why
         /\ Fails(s, n, why).spent = s.spent
         /\ Fails(s, n, why).charge = s.tokens + n
<1>1. "failed" \in Stages /\ s.tokens + n \in Nat
  BY SessionFields DEF Stages
<1>2. [s EXCEPT !.at = "failed"] \in Sessions
  BY <1>1, SessionUpdates
<1>3. [[s EXCEPT !.at = "failed"] EXCEPT !.charge = s.tokens + n] \in Sessions
  BY <1>1, <1>2, SessionUpdates
<1>4. Fails(s, n, why) \in Sessions
  BY <1>3, SessionUpdates DEF Fails, FailedDelta
<1> QED
  BY <1>4 DEF Sessions, Fails, FailedDelta

\* What a paid answer leaves as it was.
LEMMA PaysIs ==
  ASSUME NEW s \in Sessions
  PROVE  /\ Pays(s) \in Sessions
         /\ Pays(s).at = s.at /\ Pays(s).tokens = s.tokens
         /\ Pays(s).answered = s.answered /\ Pays(s).charge = s.charge
         /\ Pays(s).spent = s.spent + 1
  BY SessionFields DEF Pays, Sessions

\* A review's answers become tokens of the session.
LEMMA ReviewedIs ==
  ASSUME NEW s \in Sessions
  PROVE  /\ Reviewed(s) \in Sessions
         /\ Reviewed(s).at = s.at /\ Reviewed(s).spent = s.spent
         /\ Reviewed(s).charge = s.charge
         /\ Reviewed(s).tokens = s.tokens + s.answered + 1
  BY SessionFields DEF Reviewed, Sessions

\* A failure is sound when what it adds makes the delta what was spent.
LEMMA FailsSoundly ==
  ASSUME NEW s \in Sessions, NEW n \in Nat, NEW why \in Outcomes,
         s.spent = s.tokens + n + (IF why = "unread" THEN 1 ELSE 0)
  PROVE  Fails(s, n, why) \in Sessions /\ SoundSession(Fails(s, n, why))
<1> DEFINE f == Fails(s, n, why)
<1>1. /\ f \in Sessions /\ f.at = "failed" /\ f.end = why
      /\ f.spent = s.spent /\ f.charge = s.tokens + n
  BY FailsIs
<1>2. s.tokens \in Nat /\ s.spent \in Nat
  BY SessionFields
<1> HIDE DEF f
<1>3. f.charge = f.spent - (IF f.end = "unread" THEN 1 ELSE 0)
  <2>1. CASE why = "unread"
    BY <1>1, <1>2, <2>1
  <2>2. CASE why # "unread"
    BY <1>1, <1>2, <2>2
  <2> QED
    BY <2>1, <2>2
<1>4. SoundSession(f)
  BY <1>1, <1>3 DEF SoundSession
<1> QED
  BY <1>1, <1>4 DEF f

\* Before a round nothing is charged.
LEMMA ChargesInitially == ChargesInit => ChargesInv
<1> SUFFICES ASSUME ChargesInit PROVE ChargesInv
  OBVIOUS
<1>1. ChargesTypeOK
  BY DEF ChargesInit, ChargesTypeOK, Task, Session, Tasks, Sessions, Stages, Outcomes
<1>2. \A d \in Directions : plan[d].at = "start" /\ session[d].at = "none"
  BY DEF ChargesInit, Task, Session
<1> QED
  BY <1>1, <1>2 DEF ChargesInv, SoundTask, SoundSession

\* A step of planning changes one direction and its counter.
LEMMA PlanningKeeps ==
  ASSUME ChargesInv, NEW d \in Directions, Planning(d)
  PROVE  ChargesInv'
<1> USE DEF ChargesInv
<1>1. ASSUME NEW r \in Tasks, Plans(d, r), UNCHANGED session,
             usage' \in [Directions \cup {Router} -> Nat \cup {NoUsage}],
             \A e \in Directions : e # d => usage'[e] = usage[e],
             r.at = "wait" => usage'[d] = r.own,
             r.at = "planned" => r.charge = r.own
      PROVE  ChargesInv'
  <2>1. ChargesTypeOK'
    BY <1>1 DEF ChargesTypeOK, Plans
  <2>2. ASSUME NEW e \in Directions PROVE SoundTask(e)'
    <3>1. CASE e = d
      BY <1>1, <3>1 DEF SoundTask, Plans, ChargesTypeOK
    <3>2. CASE e # d
      BY <1>1, <3>2 DEF SoundTask, Plans, ChargesTypeOK
    <3> QED
      BY <3>1, <3>2
  <2> QED
    BY <1>1, <2>1, <2>2
<1>t. plan[d] \in Tasks /\ usage[d] \in Nat \cup {NoUsage}
  BY DEF ChargesTypeOK
<1>2. CASE Generate(d)
  <2> DEFINE r == [plan[d] EXCEPT !.at = "wait", !.call = 0, !.repairing = FALSE,
                                  !.own = 0]
  <2>1. r \in Tasks /\ r.at = "wait" /\ r.own = 0
    BY <1>t DEF Tasks
  <2>2. Plans(d, r) /\ usage' = [usage EXCEPT ![d] = 0] /\ UNCHANGED session
    BY <1>2 DEF Generate, Generates, Zeroed, Unbilled
  <2> HIDE DEF r
  <2>3. /\ usage'[d] = 0 /\ \A e \in Directions : e # d => usage'[e] = usage[e]
        /\ usage' \in [Directions \cup {Router} -> Nat \cup {NoUsage}]
    BY <2>2 DEF ChargesTypeOK
  <2> QED
    BY <2>1, <2>2, <2>3, <1>1
<1>a. ASSUME NEW r \in Tasks, plan[d].at = "wait", Counts(d), Plans(d, r),
             UNCHANGED session, r.own = plan[d].own + 1,
             r.at = "planned" => r.charge = usage'[d]
      PROVE  ChargesInv'
  <2>1. usage[d] = plan[d].own /\ plan[d].own \in Nat
    BY <1>a, <1>t DEF SoundTask, Tasks
  <2>2. usage' = [usage EXCEPT ![d] = plan[d].own + 1]
    BY <1>a, <2>1 DEF Counts
  <2>3. usage'[d] = r.own
    BY <1>a, <2>2 DEF ChargesTypeOK
  <2>4. /\ \A e \in Directions : e # d => usage'[e] = usage[e]
        /\ usage' \in [Directions \cup {Router} -> Nat \cup {NoUsage}]
    BY <2>1, <2>2 DEF ChargesTypeOK
  <2> QED
    BY <1>a, <1>1, <2>3, <2>4
<1>b. Answered(d) \in Tasks /\ Answered(d).own = plan[d].own + 1
      /\ Answered(d).at = plan[d].at
  BY <1>t DEF Answered, Tasks
<1>3. CASE AsksCompactly(d)
  <2> DEFINE r == [Answered(d) EXCEPT !.call = 1]
  <2>1. r \in Tasks /\ r.own = plan[d].own + 1 /\ r.at = plan[d].at
    BY <1>b DEF Tasks
  <2>2. plan[d].at = "wait" /\ Counts(d) /\ Plans(d, r) /\ UNCHANGED session
    BY <1>3 DEF AsksCompactly, Unbilled
  <2> HIDE DEF r
  <2> QED
    BY <2>1, <2>2, <1>a
<1>4. CASE AnswersUselessly(d)
  <2> DEFINE r == [Answered(d) EXCEPT !.at = "failed"]
  <2>1. r \in Tasks /\ r.own = plan[d].own + 1 /\ r.at = "failed"
    BY <1>b DEF Tasks
  <2>2. plan[d].at = "wait" /\ Counts(d) /\ Plans(d, r) /\ UNCHANGED session
    BY <1>4 DEF AnswersUselessly, Unbilled
  <2> HIDE DEF r
  <2> QED
    BY <2>1, <2>2, <1>a
<1>5. ASSUME NEW transient \in BOOLEAN, TransportFails(d, transient)
      PROVE  ChargesInv'
  <2>1. PICK r \in Tasks : Plans(d, r) /\ r.at \in {"start", "failed"}
    <3> DEFINE failed == [plan[d] EXCEPT !.at = "failed"]
               p == [plan[d] EXCEPT !.at = "start"]
               again == [p EXCEPT !.attempt = plan[d].attempt + 1]
    <3>1. Plans(d, failed) \/ Plans(d, again)
      BY <1>5 DEF TransportFails
    <3>2. failed \in Tasks /\ failed.at = "failed"
      BY <1>t DEF Tasks
    <3>3. p \in Tasks /\ p.at = "start" /\ plan[d].attempt + 1 \in Nat
      BY <1>t DEF Tasks
    <3> HIDE DEF p
    <3>4. again \in Tasks /\ again.at = "start"
      BY <3>3 DEF Tasks
    <3> HIDE DEF failed, again
    <3> QED
      BY <3>1, <3>2, <3>4
  <2>2. /\ usage' \in [Directions \cup {Router} -> Nat \cup {NoUsage}]
        /\ \A e \in Directions : e # d => usage'[e] = usage[e]
        /\ UNCHANGED session
    BY <1>5 DEF TransportFails, ChargesTypeOK
  <2> QED
    BY <1>1, <2>1, <2>2
<1>6. CASE AnswersBadly(d)
  <2>1. PICK r \in Tasks : /\ Plans(d, r) /\ r.own = plan[d].own + 1
                           /\ r.at \in {"blocked", "wait"}
    <3>1. /\ [Answered(d) EXCEPT !.at = "blocked"] \in Tasks
          /\ [Answered(d) EXCEPT !.at = "blocked"].at = "blocked"
          /\ [Answered(d) EXCEPT !.at = "blocked"].own = plan[d].own + 1
      BY <1>b DEF Tasks
    <3> DEFINE p == [Answered(d) EXCEPT !.repairing = TRUE]
               r == [p EXCEPT !.call = 0]
    <3>2. p \in Tasks /\ p.at = plan[d].at /\ p.own = plan[d].own + 1
      BY <1>b DEF Tasks
    <3> HIDE DEF p
    <3>3. r \in Tasks /\ r.at = plan[d].at /\ r.own = plan[d].own + 1
      BY <3>2 DEF Tasks
    <3>4. [Answered(d) EXCEPT !.repairing = TRUE, !.call = 0] = r
      BY DEF p
    <3> HIDE DEF r
    <3> QED
      BY <1>6, <1>t, <3>1, <3>3, <3>4 DEF AnswersBadly, Tasks
  <2>2. plan[d].at = "wait" /\ Counts(d) /\ UNCHANGED session
    BY <1>6 DEF AnswersBadly
  <2> QED
    BY <2>1, <2>2, <1>a
<1>7. CASE AnswersWell(d)
  <2>1. plan[d].at = "wait" /\ Counts(d) /\ UNCHANGED session
    BY <1>7 DEF AnswersWell
  <2>2. usage'[d] \in Nat
    BY <2>1, <1>t DEF SoundTask, Counts, ChargesTypeOK, Tasks
  <2> DEFINE r == [Answered(d) EXCEPT !.at = "planned", !.charge = usage'[d]]
  <2>3. r \in Tasks /\ r.own = plan[d].own + 1 /\ r.charge = usage'[d]
    BY <1>b, <2>2 DEF Tasks
  <2>4. Plans(d, r)
    BY <1>7 DEF AnswersWell
  <2> HIDE DEF r
  <2> QED
    BY <2>1, <2>3, <2>4, <1>a
<1> QED
  BY <1>2, <1>3, <1>4, <1>5, <1>6, <1>7 DEF Planning

\* A step of coding replaces one sound session by another.
LEMMA CodingKeeps ==
  ASSUME ChargesInv, NEW d \in Directions, Coding(d)
  PROVE  ChargesInv'
<1> DEFINE s == session[d]
<1>t. s \in Sessions /\ SoundSession(s)
  BY DEF ChargesInv, ChargesTypeOK
<1>1. ASSUME NEW r \in Sessions, Works(d, r), SoundSession(r)
      PROVE  ChargesInv'
  <2>1. ChargesTypeOK'
    BY <1>1 DEF ChargesInv, ChargesTypeOK, Works
  <2>2. \A e \in Directions : SoundTask(e)'
    BY <1>1 DEF ChargesInv, SoundTask, Works
  <2>3. \A e \in Directions : session'[e] = IF e = d THEN r ELSE session[e]
    BY <1>1 DEF ChargesInv, ChargesTypeOK, Works
  <2> QED
    BY <1>1, <2>1, <2>2, <2>3 DEF ChargesInv, SoundSession
<1> HIDE DEF s
<1>f. /\ s.round \in Nat /\ s.tokens \in Nat /\ s.answered \in Nat /\ s.spent \in Nat
      /\ {"pass", "unread", "capture", "verifier", "rejected", "evidence", "commit"}
             \subseteq Outcomes
  BY <1>t, SessionFields DEF Outcomes
<1>p. s.at = "pass" => s.spent = s.tokens /\ s.charge = 0
  BY <1>t DEF SoundSession
<1>q. s.at = "capture" => s.spent = s.tokens /\ s.charge = 0
  BY <1>t DEF SoundSession
<1>r. s.at = "review" => s.spent = s.tokens + s.answered /\ s.charge = 0
  BY <1>t DEF SoundSession
<1>c. s.at = "commit" => s.spent = s.tokens /\ s.charge = 0
  BY <1>t DEF SoundSession
<1>2. CASE PassSucceeds(d)
  <2> DEFINE p == Pays(s)
             q == [p EXCEPT !.at = "capture"]
             r == [q EXCEPT !.tokens = p.tokens + 1]
  <2>1. s.at = "pass" /\ Works(d, r)
    BY <1>2 DEF PassSucceeds, s
  <2>2. p \in Sessions /\ p.spent = s.spent + 1 /\ p.tokens = s.tokens /\ p.charge = s.charge
    BY <1>t, PaysIs
  <2> HIDE DEF p
  <2>3. q \in Sessions /\ q.spent = p.spent /\ q.tokens = p.tokens /\ q.charge = p.charge
        /\ q.at = "capture"
    BY <2>2 DEF Sessions, Stages
  <2> HIDE DEF q
  <2>4. r \in Sessions /\ r.spent = q.spent /\ r.tokens = p.tokens + 1
        /\ r.charge = q.charge /\ r.at = "capture"
    BY <1>f, <2>2, <2>3 DEF Sessions
  <2> HIDE DEF r
  <2>5. SoundSession(r)
    BY <1>f, <1>p, <2>1, <2>2, <2>3, <2>4 DEF SoundSession
  <2> QED
    BY <1>1, <2>1, <2>4, <2>5
<1>3. ASSUME NEW readable \in BOOLEAN, PassFails(d, readable) PROVE ChargesInv'
  <2>1. s.at = "pass" /\ (\/ Works(d, Fails(Pays(s), 1, "pass"))
                          \/ Works(d, Fails(Pays(s), 0, "unread")))
    BY <1>3 DEF PassFails, s
  <2>2. /\ Pays(s) \in Sessions
        /\ Pays(s).spent = Pays(s).tokens + 1
    BY <1>t, <1>f, <1>p, <2>1, PaysIs
  <2>3. /\ Fails(Pays(s), 1, "pass") \in Sessions
        /\ SoundSession(Fails(Pays(s), 1, "pass"))
    BY <1>f, <2>2, FailsSoundly, SessionFields
  <2>4. /\ Fails(Pays(s), 0, "unread") \in Sessions
        /\ SoundSession(Fails(Pays(s), 0, "unread"))
    BY <1>f, <2>2, FailsSoundly, SessionFields
  <2> QED
    BY <1>1, <2>1, <2>3, <2>4
<1>4. CASE CleanupFails(d)
  <2>1. s.at = "pass" /\ Works(d, Fails(Pays(s), 0, "unread"))
    BY <1>4 DEF CleanupFails, s
  <2>2. Pays(s) \in Sessions /\ Pays(s).spent = Pays(s).tokens + 1
    BY <1>t, <1>f, <1>p, <2>1, PaysIs
  <2>3. /\ Fails(Pays(s), 0, "unread") \in Sessions
        /\ SoundSession(Fails(Pays(s), 0, "unread"))
    BY <1>f, <2>2, FailsSoundly, SessionFields
  <2> QED
    BY <1>1, <2>1, <2>3
<1>5. CASE CaptureFails(d)
  <2>1. s.at \in {"pass", "capture"} /\ Works(d, Fails(s, 0, "capture"))
    BY <1>5 DEF CaptureFails, s
  <2>2. Fails(s, 0, "capture") \in Sessions /\ SoundSession(Fails(s, 0, "capture"))
    BY <1>t, <1>f, <1>p, <1>q, <2>1, FailsSoundly
  <2> QED
    BY <1>1, <2>1, <2>2
<1>6. CASE CaptureSucceeds(d)
  <2> DEFINE r == [s EXCEPT !.at = "review", !.call = 0, !.answered = 0]
  <2>1. s.at = "capture" /\ Works(d, r)
    BY <1>6 DEF CaptureSucceeds, s
  <2>2. r \in Sessions
    BY <1>t DEF Sessions, Stages
  <2>3. r.at = "review" /\ r.answered = 0 /\ r.tokens = s.tokens /\ r.spent = s.spent
        /\ r.charge = s.charge
    BY <1>t DEF Sessions
  <2> HIDE DEF r
  <2>4. SoundSession(r)
    BY <1>f, <1>q, <2>1, <2>3 DEF SoundSession
  <2> QED
    BY <1>1, <2>1, <2>2, <2>4
<1>a. ASSUME NEW r \in Sessions, r.at = "review", SoundSession(r)
      PROVE  /\ Fails(r, r.answered, "verifier") \in Sessions
             /\ SoundSession(Fails(r, r.answered, "verifier"))
             /\ [r EXCEPT !.call = 1] \in Sessions
             /\ SoundSession([r EXCEPT !.call = 1])
  <2>1. r.spent = r.tokens + r.answered /\ r.answered \in Nat /\ r.tokens \in Nat
        /\ r.charge = 0 /\ "verifier" # "unread"
    BY <1>a, SessionFields DEF SoundSession
  <2>2. /\ Fails(r, r.answered, "verifier") \in Sessions
        /\ SoundSession(Fails(r, r.answered, "verifier"))
    BY <1>f, <2>1, FailsSoundly
  <2>3. [r EXCEPT !.call = 1] \in Sessions
    BY SessionUpdates
  <2>4. SoundSession([r EXCEPT !.call = 1])
    BY <1>a, <2>1 DEF SoundSession, Sessions
  <2> QED
    BY <2>2, <2>3, <2>4
\* A verifier's answer is spent, and waits in the review to be charged.
<1>b. ASSUME s.at = "review", NEW answered \in BOOLEAN
      PROVE  LET r == IF answered THEN [Pays(s) EXCEPT !.answered = @ + 1] ELSE s
             IN  r \in Sessions /\ r.at = "review" /\ SoundSession(r)
  <2> DEFINE p == Pays(s)
             r == [p EXCEPT !.answered = p.answered + 1]
  <2>1. /\ p \in Sessions /\ p.at = "review" /\ p.answered = s.answered
        /\ p.spent = s.spent + 1 /\ p.tokens = s.tokens /\ p.charge = 0
    BY <1>b, <1>t, <1>r, PaysIs
  <2> HIDE DEF p
  <2>2. /\ r \in Sessions /\ r.at = "review" /\ r.answered = p.answered + 1
        /\ r.spent = p.spent /\ r.tokens = p.tokens /\ r.charge = 0
    BY <1>f, <2>1 DEF Sessions
  <2> HIDE DEF r
  <2>3. SoundSession(r)
    BY <1>b, <1>f, <1>r, <2>1, <2>2 DEF SoundSession
  <2>4. [Pays(s) EXCEPT !.answered = @ + 1] = r
    BY DEF p, r
  <2> QED
    BY <1>b, <1>t, <2>2, <2>3, <2>4
<1>7. ASSUME NEW answered \in BOOLEAN, ReviewStalls(d, answered) PROVE ChargesInv'
  <2>1. PICK r \in Sessions : /\ r.at = "review" /\ SoundSession(r)
                              /\ \/ Works(d, [r EXCEPT !.call = 1])
                                 \/ Works(d, Fails(r, r.answered, "verifier"))
    BY <1>7, <1>b DEF ReviewStalls, s
  <2> QED
    BY <2>1, <1>a, <1>1
<1>8. ASSUME NEW answered \in BOOLEAN, ReviewIsLate(d, answered) PROVE ChargesInv'
  <2>1. PICK r \in Sessions : /\ r.at = "review" /\ SoundSession(r)
                              /\ Works(d, Fails(r, r.answered, "verifier"))
    BY <1>8, <1>b DEF ReviewIsLate, s
  <2> QED
    BY <2>1, <1>a, <1>1
<1> DEFINE paid == Pays(Reviewed(s))
<1>d. ASSUME s.at = "review"
      PROVE  /\ paid \in Sessions /\ paid.spent = paid.tokens /\ paid.charge = 0
  BY <1>d, <1>t, <1>f, <1>r, PaysIs, ReviewedIs
<1> HIDE DEF paid
<1>e. ASSUME s.at = "review", NEW why \in {"rejected", "evidence"}
      PROVE  Fails(paid, 0, why) \in Sessions /\ SoundSession(Fails(paid, 0, why))
  <2>1. why \in Outcomes /\ why # "unread" /\ paid.tokens \in Nat
    BY <1>f, <1>d, <1>e, SessionFields
  <2> QED
    BY <1>d, <1>e, <2>1, FailsSoundly
<1>9. ASSUME NEW accepted \in BOOLEAN, ReviewEnds(d, accepted) PROVE ChargesInv'
  <2> DEFINE commit == [paid EXCEPT !.at = "commit"]
             again == [paid EXCEPT !.at = "pass"]
             revise == [again EXCEPT !.round = paid.round + 1]
  <2>1. s.at = "review" /\ (\/ Works(d, commit)
                            \/ Works(d, Fails(paid, 0, "rejected"))
                            \/ Works(d, revise))
    BY <1>9 DEF ReviewEnds, s, paid
  <2>2. commit \in Sessions /\ SoundSession(commit)
    BY <1>d, <2>1 DEF Sessions, Stages, SoundSession
  <2>3. /\ again \in Sessions /\ again.at = "pass" /\ again.spent = again.tokens
        /\ again.charge = 0
    BY <1>d, <2>1 DEF Sessions, Stages
  <2>4. paid.round \in Nat
    BY <1>d, <2>1, SessionFields
  <2> HIDE DEF again
  <2>5. /\ revise \in Sessions /\ revise.at = "pass" /\ revise.spent = revise.tokens
        /\ revise.charge = 0
    BY <2>3, <2>4 DEF Sessions
  <2> HIDE DEF revise, commit
  <2>6. SoundSession(revise)
    BY <2>5 DEF SoundSession
  <2> QED
    BY <1>1, <1>e, <2>1, <2>2, <2>5, <2>6
<1>10. CASE ReviewEvidenceFails(d)
  <2>1. s.at = "review" /\ Works(d, Fails(paid, 0, "evidence"))
    BY <1>10 DEF ReviewEvidenceFails, s, paid
  <2> QED
    BY <1>1, <1>e, <2>1
<1>11. CASE CommitFails(d)
  <2>1. s.at = "commit" /\ Works(d, Fails(s, 0, "commit"))
    BY <1>11 DEF CommitFails, s
  <2>2. Fails(s, 0, "commit") \in Sessions /\ SoundSession(Fails(s, 0, "commit"))
    BY <1>t, <1>f, <1>c, <2>1, FailsSoundly
  <2> QED
    BY <1>1, <2>1, <2>2
<1>12. CASE Commits(d)
  <2> DEFINE p == [s EXCEPT !.at = "coded"]
             q == [p EXCEPT !.charge = s.charge + s.tokens]
             r == [q EXCEPT !.end = "candidate"]
  <2>1. s.at = "commit" /\ Works(d, r)
    BY <1>12 DEF Commits, s
  <2>2. p \in Sessions /\ p.at = "coded" /\ p.spent = s.spent
    BY <1>t DEF Sessions, Stages
  <2> HIDE DEF p
  <2>3. s.charge + s.tokens = s.spent /\ s.charge + s.tokens \in Nat
    BY <1>c, <1>f, <2>1
  <2>4. q \in Sessions /\ q.at = "coded" /\ q.spent = s.spent /\ q.charge = s.spent
    BY <2>2, <2>3 DEF Sessions
  <2> HIDE DEF q
  <2>5. r \in Sessions /\ r.at = "coded" /\ r.spent = s.spent /\ r.charge = s.spent
        /\ r.end = "candidate"
    BY <2>4 DEF Sessions, Outcomes
  <2> HIDE DEF r
  <2>6. SoundSession(r)
    BY <2>5, <1>f DEF SoundSession
  <2> QED
    BY <1>1, <2>1, <2>5, <2>6
<1> QED
  BY <1>2, <1>3, <1>4, <1>5, <1>6, <1>7, <1>8, <1>9, <1>10, <1>11, <1>12 DEF Coding

\* A broken round fails all its directions, a sealed one starts their sessions.
LEMMA RoundKeeps ==
  ASSUME ChargesInv, RoundBreaks \/ RoundIsSealed
  PROVE  ChargesInv'
<1>1. CASE RoundBreaks
  <2>1. \A d \in Directions : [plan[d] EXCEPT !.at = "broken"] \in Tasks
    BY DEF ChargesInv, ChargesTypeOK, Tasks
  <2>2. ChargesTypeOK'
    BY <1>1, <2>1 DEF ChargesInv, ChargesTypeOK, RoundBreaks
  <2>3. \A d \in Directions : plan'[d].at = "broken"
    BY <1>1 DEF ChargesInv, ChargesTypeOK, Tasks, RoundBreaks
  <2> QED
    BY <1>1, <2>2, <2>3 DEF ChargesInv, RoundBreaks, SoundTask, SoundSession
<1>2. CASE RoundIsSealed
  <2>1. ChargesTypeOK'
    BY <1>2 DEF ChargesInv, ChargesTypeOK, RoundIsSealed, Task, Session, Tasks, Sessions,
                Stages, Outcomes
  <2>2. \A d \in Directions : plan'[d].at = "recorded"
    BY <1>2 DEF RoundIsSealed, Task
  <2>3. \A d \in Directions : session'[d] = Session("pass")
    BY <1>2 DEF RoundIsSealed
  <2>4. SoundSession(Session("pass"))
    BY DEF SoundSession, Session
  <2> QED
    BY <2>1, <2>2, <2>3, <2>4 DEF ChargesInv, SoundTask, SoundSession
<1> QED
  BY <1>1, <1>2

\* What is charged is what was used, at every step of every plan and session:
\* the invariant behind the usage of planner and coder (_record_usage,
\* _combined_resource_delta).
THEOREM ChargesInvariance == ChargesSpec => []ChargesInv
<1>1. ChargesInv /\ [ChargesNext]_chargesVars => ChargesInv'
  <2> SUFFICES ASSUME ChargesInv, [ChargesNext]_chargesVars PROVE ChargesInv'
    OBVIOUS
  <2>1. CASE ChargesNext
    BY <2>1, PlanningKeeps, CodingKeeps, RoundKeeps DEF ChargesNext
  <2>2. CASE UNCHANGED chargesVars
    BY <2>2 DEF chargesVars, ChargesInv, ChargesTypeOK, SoundTask, SoundSession
  <2> QED
    BY <2>1, <2>2
<1> QED
  BY <1>1, ChargesInitially, PTL DEF ChargesSpec

----------------------------------------------------------------------------
(* What is watched.                                                        *)

Detected == {"hang", "numerical", "oom", "nonfinite", "policy"}
Reasons == {"none", "finished", "timeout", "telemetry", "pressure"} \cup Detected
Runs ==
    [at : {"idle", "loop", "identify", "add", "judge"}, attempt : Nat, elapsed : Nat,
     misses : Nat, seen : Seq(Signals \cup {Miss}), own : Seq(Signals),
     lone : BOOLEAN, reason : Reasons]

HealthTypeOK ==
    /\ window \in Seq(Signals)
    /\ watched \in {Nobody} \cup (Lanes \X Nat)
    /\ lane \in [Lanes -> Runs]

\* w holds the newest samples of s, as many as the window takes.
Holds(w, s) ==
    /\ Len(w) = IF Len(s) < Capacity THEN Len(s) ELSE Capacity
    /\ \A a \in 0 .. Len(w) - 1 : Aged(w, a) = Aged(s, a)

\* What the observer has been given of a run's samples.
Given(r) == IF r.at \in {"identify", "add"} THEN SubSeq(r.own, 1, Len(r.own) - 1) ELSE r.own

SoundMisses(r) ==
    /\ r.misses <= Len(r.seen)
    /\ \A a \in 0 .. r.misses - 1 : Aged(r.seen, a).fault = "miss"
    /\ r.reason = "telemetry" => r.misses >= MaxMisses

SoundWatch(l, r, id, w) ==
    /\ r.at \in {"identify", "add", "judge"} => r.own # <<>>
    /\ r.lone /\ r.at # "idle" =>
           IF id = <<l, r.attempt>> THEN Holds(w, Given(r))
           ELSE r.at \in {"loop", "identify"} /\ Given(r) = <<>>
    /\ r.lone /\ r.at = "loop" => ~LikelyHang(r.own)

SoundVerdict(r) ==
    /\ r.at # "idle" => r.reason = "none"
    /\ r.reason \in Detected /\ r.lone => r.reason = Directive(r.own)

\* The run that is watched is no later than the lane's last.
SoundIdentity(l) == \A n \in Nat : watched = <<l, n>> => n <= lane[l].attempt

HealthInv ==
    /\ HealthTypeOK
    /\ \A l \in Lanes :
           /\ SoundMisses(lane[l]) /\ SoundVerdict(lane[l]) /\ SoundIdentity(l)
           /\ SoundWatch(l, lane[l], watched, window)

\* Appending to a sequence makes every earlier sample one older.
LEMMA AgedAppend ==
  ASSUME NEW S, NEW s \in Seq(S), NEW x \in S
  PROVE  /\ Append(s, x) \in Seq(S) /\ Len(Append(s, x)) = Len(s) + 1
         /\ Aged(Append(s, x), 0) = x
         /\ \A a \in 1 .. Len(s) : Aged(Append(s, x), a) = Aged(s, a - 1)
<1>1. /\ Append(s, x) \in Seq(S) /\ Len(Append(s, x)) = Len(s) + 1
      /\ Append(s, x)[Len(s) + 1] = x
      /\ \A i \in 1 .. Len(s) : Append(s, x)[i] = s[i]
  BY AppendProperties
<1>2. Len(s) \in Nat
  OBVIOUS
<1> DEFINE t == Append(s, x)
<1> HIDE DEF t
<1>3. /\ Len(t) = Len(s) + 1 /\ t[Len(s) + 1] = x
      /\ \A i \in 1 .. Len(s) : t[i] = s[i]
  BY <1>1 DEF t
<1>4. Aged(t, 0) = x
  BY <1>2, <1>3 DEF Aged
<1>5. ASSUME NEW a \in 1 .. Len(s) PROVE Aged(t, a) = Aged(s, a - 1)
  <2>1. Len(s) + 1 - a \in 1 .. Len(s) /\ Len(s) - (a - 1) = Len(s) + 1 - a
    BY <1>2
  <2> QED
    BY <1>3, <2>1 DEF Aged
<1> QED
  BY <1>1, <1>4, <1>5 DEF t

\* The window keeps the newest samples, as deque(maxlen) does.
LEMMA KeptIs ==
  ASSUME NEW S, NEW s \in Seq(S)
  PROVE  Kept(s) \in Seq(S) /\ Holds(Kept(s), s)
<1> DEFINE n == IF Len(s) < Capacity THEN Len(s) ELSE Capacity
           m == Len(s) - n + 1
           w == SubSeq(s, m, Len(s))
<1>1. Len(s) \in Nat /\ Capacity \in Nat \ {0} /\ n \in Nat /\ n <= Len(s)
  BY HealthAssumption
<1>2. /\ w \in Seq(S) /\ Len(w) = n
      /\ \A i \in 1 .. n : w[i] = s[m + i - 1]
  <2>1. m \in Int /\ Len(s) \in Int /\ \A i \in m .. Len(s) : s[i] \in S
    BY <1>1
  <2>2. /\ w \in Seq(S) /\ Len(w) = (IF m <= Len(s) THEN Len(s) - m + 1 ELSE 0)
        /\ \A i \in 1 .. Len(s) - m + 1 : w[i] = s[m + i - 1]
    BY <2>1, SubSeqProperties
  <2>3. Len(s) - m + 1 = n /\ (m <= Len(s) <=> n >= 1)
    BY <1>1
  <2> HIDE DEF n, m, w
  <2> QED
    BY <1>1, <2>2, <2>3
<1>3. Kept(s) = w
  BY DEF Kept, Newest
<1> HIDE DEF w
<1>4. ASSUME NEW a \in 0 .. n - 1 PROVE w[n - a] = s[Len(s) - a]
  <2>1. n - a \in 1 .. n /\ m + (n - a) - 1 = Len(s) - a
    BY <1>1
  <2> QED
    BY <1>2, <2>1
<1>5. Holds(w, s)
  BY <1>1, <1>2, <1>4 DEF Holds, Aged
<1> QED
  BY <1>2, <1>3, <1>5

\* A window that holds a run's samples holds them with the next one added.
LEMMA AddHolds ==
  ASSUME NEW S, NEW w \in Seq(S), NEW s \in Seq(S), NEW x \in S, Holds(w, s)
  PROVE  /\ Kept(Append(w, x)) \in Seq(S)
         /\ Holds(Kept(Append(w, x)), Append(s, x))
<1> DEFINE v == Append(w, x)
           t == Append(s, x)
           k == Kept(v)
<1>1. /\ v \in Seq(S) /\ Len(v) = Len(w) + 1 /\ Aged(v, 0) = x
      /\ \A a \in 1 .. Len(w) : Aged(v, a) = Aged(w, a - 1)
  BY AgedAppend
<1>2. /\ t \in Seq(S) /\ Len(t) = Len(s) + 1 /\ Aged(t, 0) = x
      /\ \A a \in 1 .. Len(s) : Aged(t, a) = Aged(s, a - 1)
  BY AgedAppend
<1>3. k \in Seq(S) /\ Holds(k, v)
  BY <1>1, KeptIs
<1> HIDE DEF v, t, k
<1>4. Len(w) \in Nat /\ Len(s) \in Nat /\ Capacity \in Nat \ {0}
  BY HealthAssumption
<1>5. Len(w) = (IF Len(s) < Capacity THEN Len(s) ELSE Capacity)
  BY DEF Holds
<1>6. Len(k) = IF Len(t) < Capacity THEN Len(t) ELSE Capacity
  BY <1>1, <1>2, <1>3, <1>4, <1>5 DEF Holds
<1>7. ASSUME NEW a \in 0 .. Len(k) - 1 PROVE Aged(k, a) = Aged(t, a)
  <2>1. Aged(k, a) = Aged(v, a)
    BY <1>3 DEF Holds
  <2>2. CASE a = 0
    BY <1>1, <1>2, <2>1, <2>2
  <2>3. CASE a # 0
    <3>1. a \in 1 .. Len(w) /\ a - 1 \in 0 .. Len(w) - 1 /\ a \in 1 .. Len(s)
      BY <1>1, <1>2, <1>4, <1>5, <1>6, <2>3
    <3>2. Aged(w, a - 1) = Aged(s, a - 1)
      BY <3>1 DEF Holds
    <3> QED
      BY <1>1, <1>2, <2>1, <3>1, <3>2
  <2> QED
    BY <2>2, <2>3
<1>8. Holds(k, t)
  BY <1>6, <1>7 DEF Holds
<1> QED
  BY <1>3, <1>8 DEF k, v, t

\* A sequence is its front and its last sample.
LEMMA FrontAndLast ==
  ASSUME NEW S, NEW s \in Seq(S), s # <<>>
  PROVE  /\ SubSeq(s, 1, Len(s) - 1) \in Seq(S) /\ s[Len(s)] \in S
         /\ Append(SubSeq(s, 1, Len(s) - 1), s[Len(s)]) = s
  OBVIOUS

\* What was there before the last sample.
LEMMA FrontOfAppend ==
  ASSUME NEW S, NEW s \in Seq(S), NEW x \in S
  PROVE  SubSeq(Append(s, x), 1, Len(Append(s, x)) - 1) = s
  OBVIOUS

\* The window stalls exactly when the run does.
LEMMA HangAgrees ==
  ASSUME NEW S, NEW w \in Seq(S), NEW s \in Seq(S), Holds(w, s)
  PROVE  LikelyHang(w) <=> LikelyHang(s)
<1>1. /\ Len(w) \in Nat /\ Len(s) \in Nat /\ Capacity \in Nat
      /\ StaleSamples \in Nat /\ StaleSamples <= Capacity
  BY HealthAssumption
<1>2. Len(w) >= StaleSamples <=> Len(s) >= StaleSamples
  BY <1>1 DEF Holds
<1>3. Len(w) >= StaleSamples => \A a \in 0 .. StaleSamples - 1 : Aged(w, a) = Aged(s, a)
  BY <1>1 DEF Holds
<1> QED
  BY <1>2, <1>3 DEF LikelyHang

\* The losses a window holds are the run's latest, with the ages they have.
LEMMA LossesAgree ==
  ASSUME NEW S, NEW w \in Seq(S), NEW s \in Seq(S), Holds(w, s)
  PROVE  /\ DOMAIN Losses(w) = {a \in DOMAIN Losses(s) : a < Len(w)}
         /\ \A a \in DOMAIN Losses(w) : Losses(w)[a] = Losses(s)[a]
         /\ DOMAIN Losses(w) \subseteq 0 .. Len(w) /\ DOMAIN Losses(s) \subseteq 0 .. Len(s)
<1>1. /\ Len(w) \in Nat /\ Len(s) \in Nat /\ Len(w) <= Len(s) /\ Persistence \in Nat
      /\ \A a \in 0 .. Len(w) - 1 : Aged(w, a) = Aged(s, a)
  BY HealthAssumption DEF Holds
<1>2. /\ DOMAIN Losses(w) = {n \in Persistence .. Len(w) - 1 : Aged(w, n).loss # 0}
      /\ DOMAIN Losses(s) = {n \in Persistence .. Len(s) - 1 : Aged(s, n).loss # 0}
      /\ \A a \in DOMAIN Losses(w) : Losses(w)[a] = Aged(w, a).loss
      /\ \A a \in DOMAIN Losses(s) : Losses(s)[a] = Aged(s, a).loss
  BY DEF Losses
<1>3. DOMAIN Losses(w) = {a \in DOMAIN Losses(s) : a < Len(w)}
  <2>1. ASSUME NEW a \in DOMAIN Losses(w) PROVE a \in DOMAIN Losses(s) /\ a < Len(w)
    BY <1>1, <1>2
  <2>2. ASSUME NEW a \in DOMAIN Losses(s), a < Len(w) PROVE a \in DOMAIN Losses(w)
    BY <1>1, <1>2, <2>2
  <2> QED
    BY <2>1, <2>2
<1>4. \A a \in DOMAIN Losses(w) : Losses(w)[a] = Losses(s)[a]
  <2> TAKE a \in DOMAIN Losses(w)
  <2>1. a \in DOMAIN Losses(s) /\ a \in 0 .. Len(w) - 1
    BY <1>1, <1>2, <1>3
  <2> QED
    BY <1>1, <1>2, <2>1
<1> QED
  BY <1>1, <1>2, <1>3, <1>4

\* A window with losses enough has the baseline of the whole run.
LEMMA BaselinesAgree ==
  ASSUME NEW S, NEW w \in Seq(S), NEW s \in Seq(S), Holds(w, s),
         Cardinality(DOMAIN Losses(w)) >= BaselineSamples
  PROVE  /\ Cardinality(DOMAIN Losses(s)) >= BaselineSamples
         /\ Baseline(Losses(w)) = Baseline(Losses(s))
<1> DEFINE mine == DOMAIN Losses(w)
           all == DOMAIN Losses(s)
           before(ages, a) == {n \in ages : n < a}
<1>1. /\ mine = {a \in all : a < Len(w)}
      /\ mine \subseteq 0 .. Len(w) /\ all \subseteq 0 .. Len(s)
  BY LossesAgree
<1>2. Len(w) \in Nat /\ Len(s) \in Nat /\ BaselineSamples \in Nat
  BY HealthAssumption
<1>3. IsFiniteSet(mine) /\ IsFiniteSet(all)
  <2>1. IsFiniteSet(0 .. Len(w)) /\ IsFiniteSet(0 .. Len(s))
    BY <1>2, FS_Interval
  <2> QED
    BY <1>1, <2>1, FS_Subset
<1>e. /\ Baseline(Losses(w)) = {a \in mine : Cardinality(before(mine, a)) < BaselineSamples}
      /\ Baseline(Losses(s)) = {a \in all : Cardinality(before(all, a)) < BaselineSamples}
  BY DEF Baseline
<1> HIDE DEF mine, all
<1>4. Cardinality(mine) <= Cardinality(all)
  BY <1>1, <1>3, FS_Subset
<1>5. ASSUME NEW a \in mine PROVE before(mine, a) = before(all, a)
  <2>1. a \in Nat /\ a < Len(w) /\ all \subseteq Nat
    BY <1>1, <1>2
  <2>2. \A n \in all : n < a => n \in mine
    BY <1>1, <1>2, <2>1
  <2> QED
    BY <1>1, <2>2
<1>6. ASSUME NEW a \in all, a \notin mine
      PROVE  Cardinality(before(all, a)) >= BaselineSamples
  <2>1. a \in Nat /\ a >= Len(w) /\ all \subseteq Nat
    BY <1>1, <1>2, <1>6
  <2>2. mine \subseteq before(all, a)
    BY <1>1, <1>2, <2>1
  <2>3. IsFiniteSet(before(all, a))
    BY <1>3, FS_Subset
  <2> HIDE DEF before
  <2>4. /\ Cardinality(mine) <= Cardinality(before(all, a))
        /\ Cardinality(mine) \in Nat /\ Cardinality(before(all, a)) \in Nat
    BY <1>3, <2>2, <2>3, FS_Subset, FS_CardinalityType
  <2>5. Cardinality(mine) >= BaselineSamples
    BY DEF mine
  <2> QED
    BY <1>2, <2>4, <2>5
<1>7. /\ Cardinality(mine) \in Nat /\ Cardinality(all) \in Nat
      /\ \A a \in all : Cardinality(before(all, a)) \in Nat
  <2>1. ASSUME NEW a \in all PROVE Cardinality(before(all, a)) \in Nat
    <3>1. IsFiniteSet(before(all, a))
      BY <1>3, FS_Subset
    <3> QED
      BY <3>1, FS_CardinalityType
  <2> QED
    BY <1>3, <2>1, FS_CardinalityType
<1>8. Cardinality(all) >= BaselineSamples
  <2>1. Cardinality(mine) >= BaselineSamples
    BY DEF mine
  <2> QED
    BY <1>2, <1>4, <1>7, <2>1
<1> HIDE DEF before
<1>9. Baseline(Losses(w)) = Baseline(Losses(s))
  <2>1. ASSUME NEW a \in Baseline(Losses(w)) PROVE a \in Baseline(Losses(s))
    BY <1>1, <1>e, <1>5, <2>1
  <2>2. ASSUME NEW a \in Baseline(Losses(s)) PROVE a \in Baseline(Losses(w))
    <3>1. a \in all /\ Cardinality(before(all, a)) < BaselineSamples
      BY <1>e, <2>2
    <3>2. a \in mine
      BY <1>2, <1>6, <1>7, <3>1
    <3> QED
      BY <1>e, <1>5, <3>1, <3>2
  <2> QED
    BY <2>1, <2>2
<1> QED
  BY <1>8, <1>9 DEF all

\* An explosion the window shows is one among the run's own samples.
LEMMA ExplosionAgrees ==
  ASSUME NEW S, NEW w \in Seq(S), NEW s \in Seq(S), Holds(w, s), Explodes(w)
  PROVE  Explodes(s)
<1> DEFINE b == Baseline(Losses(w))
<1>1. /\ Len(w) \in Nat /\ Len(s) \in Nat /\ Len(w) <= Len(s)
      /\ Persistence \in Nat /\ BaselineSamples \in Nat
      /\ \A a \in 0 .. Len(w) - 1 : Aged(w, a) = Aged(s, a)
  BY HealthAssumption DEF Holds
<1>2. /\ Len(w) >= BaselineSamples + Persistence
      /\ Cardinality(DOMAIN Losses(w)) >= BaselineSamples
      /\ \A a \in 0 .. Persistence - 1 :
             Aged(w, a).loss > Multiplier * Median(Losses(w), b)
  BY DEF Explodes
<1>3. /\ Cardinality(DOMAIN Losses(s)) >= BaselineSamples /\ b = Baseline(Losses(s))
  BY <1>2, BaselinesAgree
<1>4. \A a \in b : Losses(w)[a] = Losses(s)[a]
  <2>1. b \subseteq DOMAIN Losses(w)
    BY DEF Baseline
  <2>2. /\ DOMAIN Losses(w) = {a \in DOMAIN Losses(s) : a < Len(w)}
        /\ \A a \in DOMAIN Losses(w) : Losses(w)[a] = Losses(s)[a]
        /\ DOMAIN Losses(w) \subseteq 0 .. Len(w) /\ DOMAIN Losses(s) \subseteq 0 .. Len(s)
    <3> HIDE DEF b
    <3> QED
      BY LossesAgree
  <2> HIDE DEF b
  <2> QED
    BY <2>1, <2>2
<1> HIDE DEF b
<1>5. Median(Losses(w), b) = Median(Losses(s), b)
  <2>1. \A x : /\ {a \in b : Losses(w)[a] < x} = {a \in b : Losses(s)[a] < x}
               /\ {a \in b : Losses(w)[a] > x} = {a \in b : Losses(s)[a] > x}
    BY <1>4
  <2>2. {Losses(w)[a] : a \in b} = {Losses(s)[a] : a \in b}
    BY <1>4
  <2> QED
    BY <2>1, <2>2 DEF Median
<1>6. ASSUME NEW a \in 0 .. Persistence - 1
      PROVE  Aged(s, a).loss > Multiplier * Median(Losses(s), Baseline(Losses(s)))
  <2>1. Aged(w, a) = Aged(s, a)
    BY <1>1, <1>2
  <2>2. Aged(w, a).loss > Multiplier * Median(Losses(w), b)
    BY <1>2
  <2> QED
    BY <1>3, <1>5, <2>1, <2>2
<1>7. Len(s) >= BaselineSamples + Persistence
  BY <1>1, <1>2
<1> QED
  BY <1>3, <1>6, <1>7 DEF Explodes

\* What the window is judged by, the run's own samples would be judged by.
LEMMA VerdictAgrees ==
  ASSUME NEW w \in Seq(Signals), NEW s \in Seq(Signals), Holds(w, s),
         Directive(w) # "continue"
  PROVE  Directive(s) = Directive(w)
<1>1. Len(w) \in Nat /\ Len(s) \in Nat /\ Capacity \in Nat \ {0}
  BY HealthAssumption
<1>2. w # <<>>
  BY DEF Directive
<1>3. s # <<>> /\ Last(s) = Last(w)
  <2>1. Len(w) > 0 /\ Len(s) > 0
    BY <1>1, <1>2 DEF Holds
  <2>2. Aged(w, 0) = Aged(s, 0)
    BY <1>1, <2>1 DEF Holds
  <2> QED
    BY <2>1, <2>2, <1>1 DEF Aged, Last
<1>4. CASE Last(w).fault # "none"
  BY <1>2, <1>3, <1>4 DEF Directive
<1>5. CASE Last(w).fault = "none"
  <2>1. Directive(w) = IF LikelyHang(w) THEN "hang"
                       ELSE IF Explodes(w) THEN "numerical" ELSE "continue"
    BY <1>2, <1>5 DEF Directive
  <2>2. Directive(s) = IF LikelyHang(s) THEN "hang"
                       ELSE IF Explodes(s) THEN "numerical" ELSE "continue"
    BY <1>3, <1>5 DEF Directive
  <2>3. LikelyHang(w) <=> LikelyHang(s)
    BY HangAgrees
  <2>4. Explodes(w) => Explodes(s)
    BY ExplosionAgrees
  <2> QED
    BY <2>1, <2>2, <2>3, <2>4
<1> QED
  BY <1>4, <1>5

\* A run that goes on has no stall in its window.
LEMMA GoingOnIsNoHang ==
  ASSUME NEW w \in Seq(Signals), w # <<>>, Directive(w) = "continue"
  PROVE  ~LikelyHang(w)
<1>1. Last(w).fault # "continue"
  <2>1. Last(w) \in Signals
    BY DEF Last
  <2> QED
    BY <2>1, HealthAssumption
<1> QED
  BY <1>1 DEF Directive

\* A step that leaves the observer alone keeps what is sound of other lanes.
LEMMA AloneKeeps ==
  ASSUME HealthInv, NEW l \in Lanes, NEW r \in Runs, Goes(l, r),
         UNCHANGED <<window, watched>>,
         SoundMisses(r), SoundVerdict(r), r.attempt >= lane[l].attempt,
         SoundWatch(l, r, watched, window)
  PROVE  HealthInv'
<1>1. /\ lane \in [Lanes -> Runs] /\ lane' = [lane EXCEPT ![l] = r]
      /\ window' = window /\ watched' = watched
  BY DEF HealthInv, HealthTypeOK, Goes
<1>2. lane' \in [Lanes -> Runs] /\ \A k \in Lanes : lane'[k] = IF k = l THEN r ELSE lane[k]
  BY <1>1
<1>3. HealthTypeOK'
  BY <1>1, <1>2 DEF HealthInv, HealthTypeOK
<1>4. ASSUME NEW k \in Lanes
      PROVE  /\ SoundMisses(lane'[k]) /\ SoundVerdict(lane'[k])
             /\ SoundWatch(k, lane'[k], watched', window')
  BY <1>1, <1>2 DEF HealthInv
<1>5. ASSUME NEW k \in Lanes, NEW n \in Nat, watched' = <<k, n>> PROVE n <= lane'[k].attempt
  <2>1. n <= lane[k].attempt
    BY <1>1, <1>5 DEF HealthInv, SoundIdentity
  <2>2. lane[l].attempt \in Nat /\ r.attempt \in Nat
    BY <1>1 DEF Runs
  <2> QED
    BY <1>2, <2>1, <2>2
<1> QED
  BY <1>3, <1>4, <1>5 DEF HealthInv, SoundIdentity

\* A step of the observer leaves no other lane alone.
LEMMA ObservedKeeps ==
  ASSUME HealthInv, NEW l \in Lanes, NEW r \in Runs,
         lane' = [Crowd(l) EXCEPT ![l] = r],
         window' \in Seq(Signals), watched' \in {watched, <<l, r.attempt>>},
         r.attempt = lane[l].attempt,
         SoundMisses(r), SoundVerdict(r), SoundWatch(l, r, watched', window')
  PROVE  HealthInv'
<1> DEFINE left(k) == [lane[k] EXCEPT !.lone = FALSE]
<1>1. lane \in [Lanes -> Runs]
  BY DEF HealthInv, HealthTypeOK
<1>2. \A k \in Lanes : lane'[k] = IF k = l THEN r ELSE left(k)
  BY DEF Crowd
<1>3. ASSUME NEW k \in Lanes
      PROVE  /\ left(k) \in Runs /\ left(k).lone = FALSE
             /\ left(k).at = lane[k].at /\ left(k).attempt = lane[k].attempt
             /\ left(k).misses = lane[k].misses /\ left(k).seen = lane[k].seen
             /\ left(k).own = lane[k].own /\ left(k).reason = lane[k].reason
  BY <1>1 DEF Runs
<1> HIDE DEF left
<1>4. lane' \in [Lanes -> Runs]
  <2>1. DOMAIN lane' = Lanes /\ lane' = [k \in Lanes |-> lane'[k]]
    BY DEF Crowd
  <2> QED
    BY <1>2, <1>3, <2>1
<1>5. HealthTypeOK'
  <2>1. r.attempt \in Nat
    BY DEF Runs
  <2>2. watched' \in {Nobody} \cup (Lanes \X Nat)
    BY <2>1 DEF HealthInv, HealthTypeOK
  <2> QED
    BY <1>4, <2>2 DEF HealthTypeOK
<1>6. ASSUME NEW k \in Lanes, k # l
      PROVE  /\ SoundMisses(left(k)) /\ SoundVerdict(left(k))
             /\ SoundWatch(k, left(k), watched', window')
  <2>1. /\ SoundMisses(lane[k]) /\ SoundVerdict(lane[k])
        /\ SoundWatch(k, lane[k], watched, window)
    BY DEF HealthInv
  <2>2. SoundMisses(left(k))
    BY <1>3, <2>1 DEF SoundMisses
  <2>3. SoundVerdict(left(k))
    BY <1>3, <2>1 DEF SoundVerdict
  <2>4. SoundWatch(k, left(k), watched', window')
    BY <1>3, <2>1 DEF SoundWatch
  <2> QED
    BY <2>2, <2>3, <2>4
<1>7. ASSUME NEW k \in Lanes, NEW n \in Nat, watched' = <<k, n>> PROVE n <= lane'[k].attempt
  <2>1. lane'[k].attempt = lane[k].attempt
    BY <1>2, <1>3
  <2>2. CASE watched' = watched
    BY <1>7, <2>1, <2>2 DEF HealthInv, SoundIdentity
  <2>3. CASE watched' = <<l, r.attempt>>
    <3>1. k = l /\ n = r.attempt
      BY <1>7, <2>3
    <3> QED
      BY <2>1, <3>1
  <2> QED
    BY <2>2, <2>3
<1> QED
  BY <1>2, <1>5, <1>6, <1>7 DEF HealthInv, SoundIdentity

\* A verdict of the runner is none of the observer's.
LEMMA EndsAre ==
  ASSUME NEW r \in Runs, NEW why \in Reasons
  PROVE  /\ Ends(r, why) \in Runs /\ Ends(r, why).at = "idle"
         /\ Ends(r, why).reason = why /\ Ends(r, why).attempt = r.attempt
         /\ Ends(r, why).misses = r.misses /\ Ends(r, why).seen = r.seen
         /\ Ends(r, why).own = r.own /\ Ends(r, why).lone = r.lone
  BY DEF Ends, Runs

\* A run that sleeps changes nothing but its clock.
LEMMA SleepsAre ==
  ASSUME NEW r \in Runs
  PROVE  /\ Sleeps(r) \in Runs /\ Sleeps(r).at = "loop"
         /\ Sleeps(r).reason = r.reason /\ Sleeps(r).attempt = r.attempt
         /\ Sleeps(r).misses = r.misses /\ Sleeps(r).seen = r.seen
         /\ Sleeps(r).own = r.own /\ Sleeps(r).lone = r.lone
<1> DEFINE p == [r EXCEPT !.at = "loop"]
           q == [p EXCEPT !.elapsed = r.elapsed + 1]
<1>1. r.elapsed + 1 \in Nat
  BY DEF Runs
<1>2. /\ p \in Runs /\ p.at = "loop" /\ p.reason = r.reason /\ p.attempt = r.attempt
      /\ p.misses = r.misses /\ p.seen = r.seen /\ p.own = r.own /\ p.lone = r.lone
  BY DEF Runs
<1>3. Sleeps(r) = q
  BY DEF Sleeps
<1> HIDE DEF p
<1>4. /\ q \in Runs /\ q.at = "loop" /\ q.reason = r.reason /\ q.attempt = r.attempt
      /\ q.misses = r.misses /\ q.seen = r.seen /\ q.own = r.own /\ q.lone = r.lone
  BY <1>1, <1>2 DEF Runs
<1> QED
  BY <1>3, <1>4

\* A lane's own step keeps what the observer and the lanes know.
LEMMA LaneKeeps ==
  ASSUME HealthInv, NEW l \in Lanes, LaneStep(l)
  PROVE  HealthInv'
<1> DEFINE r == lane[l]
<1>t. r \in Runs /\ window \in Seq(Signals)
  BY DEF HealthInv, HealthTypeOK
<1>s. /\ SoundMisses(r) /\ SoundVerdict(r) /\ SoundIdentity(l)
      /\ SoundWatch(l, r, watched, window)
  BY DEF HealthInv
<1>n. /\ r.attempt \in Nat /\ r.misses \in Nat /\ r.elapsed \in Nat
      /\ r.seen \in Seq(Signals \cup {Miss}) /\ r.own \in Seq(Signals)
  BY <1>t DEF Runs
<1>e. ASSUME NEW why \in {"finished", "timeout", "pressure"},
             Goes(l, Ends(r, why)), UNCHANGED <<window, watched>>, r.at # "idle"
      PROVE  HealthInv'
  <2> DEFINE e == Ends(r, why)
  <2>1. /\ e \in Runs /\ e.at = "idle" /\ e.reason = why /\ e.attempt = r.attempt
        /\ e.misses = r.misses /\ e.seen = r.seen
    <3>1. why \in Reasons
      BY DEF Reasons
    <3> QED
      BY <1>t, <3>1, EndsAre
  <2> HIDE DEF e
  <2>2. SoundMisses(e) /\ SoundVerdict(e) /\ SoundWatch(l, e, watched, window)
    BY <1>e, <1>s, <2>1 DEF SoundMisses, SoundVerdict, SoundWatch, Detected
  <2>3. Goes(l, e) /\ e.attempt >= r.attempt
    BY <1>e, <1>n, <2>1 DEF e
  <2> HIDE DEF r
  <2> QED
    BY <1>e, <2>1, <2>2, <2>3, AloneKeeps DEF r
<1>1. CASE Start(l)
  <2> DEFINE e == NewRun(r.attempt + 1)
  <2>1. Goes(l, e) /\ UNCHANGED <<window, watched>>
    BY <1>1 DEF Start
  <2>2. /\ e \in Runs /\ e.at = "loop" /\ e.attempt = r.attempt + 1 /\ e.misses = 0
        /\ e.seen = <<>> /\ e.own = <<>> /\ e.reason = "none"
    <3>1. r.attempt + 1 \in Nat /\ <<>> \in Seq(Signals) /\ <<>> \in Seq(Signals \cup {Miss})
      BY <1>n
    <3> QED
      BY <3>1 DEF NewRun, Runs, Reasons
  <2> HIDE DEF e
  <2>3. SoundMisses(e) /\ SoundVerdict(e)
    BY <2>2 DEF SoundMisses, SoundVerdict, Detected
  <2>4. watched # <<l, e.attempt>>
    BY <1>n, <1>s, <2>2 DEF SoundIdentity
  <2>5. Given(e) = <<>> /\ ~LikelyHang(e.own)
    BY <2>2, HealthAssumption DEF Given, LikelyHang
  <2>6. SoundWatch(l, e, watched, window)
    BY <2>2, <2>4, <2>5 DEF SoundWatch
  <2>7. e.attempt >= r.attempt
    BY <1>n, <2>2
  <2> QED
    BY <2>1, <2>2, <2>3, <2>6, <2>7, AloneKeeps
<1>2. CASE Exits(l)
  <2>1. Goes(l, Ends(r, "finished")) /\ UNCHANGED <<window, watched>> /\ r.at # "idle"
    BY <1>2 DEF Exits, Alive
  <2> HIDE DEF r
  <2> QED
    BY <1>e, <2>1
<1>3. CASE TimesOut(l)
  <2>1. Goes(l, Ends(r, "timeout")) /\ UNCHANGED <<window, watched>> /\ r.at # "idle"
    BY <1>3 DEF TimesOut
  <2> HIDE DEF r
  <2> QED
    BY <1>e, <2>1
<1>4. CASE PressureEnds(l)
  <2>1. Goes(l, Ends(r, "pressure")) /\ UNCHANGED <<window, watched>> /\ r.at # "idle"
    BY <1>4 DEF PressureEnds
  <2> HIDE DEF r
  <2> QED
    BY <1>e, <2>1
<1>5. CASE Sample(l)
  <2>1. PICK s \in Signals :
            Goes(l, [Forgets(lane[l]) EXCEPT !.at = "identify", !.seen = Append(@, s),
                                             !.own = Append(@, s)])
    BY <1>5 DEF Sample
  <2>2. r.at = "loop" /\ UNCHANGED <<window, watched>>
    BY <1>5 DEF Sample, Alive
  <2> DEFINE p == [r EXCEPT !.misses = 0]
             q == [p EXCEPT !.at = "identify"]
             t == [q EXCEPT !.seen = Append(q.seen, s)]
             e == [t EXCEPT !.own = Append(t.own, s)]
  <2>3. Goes(l, e)
    BY <2>1 DEF Forgets
  <2>4. /\ p \in Runs /\ p.misses = 0 /\ p.seen = r.seen /\ p.own = r.own
        /\ p.attempt = r.attempt /\ p.lone = r.lone /\ p.reason = r.reason
    BY <1>t DEF Runs
  <2> HIDE DEF p
  <2>5. /\ q \in Runs /\ q.misses = 0 /\ q.seen = r.seen /\ q.own = r.own
        /\ q.attempt = r.attempt /\ q.lone = r.lone /\ q.reason = r.reason
        /\ q.at = "identify"
    BY <2>4 DEF Runs
  <2> HIDE DEF q
  <2>6. Append(r.seen, s) \in Seq(Signals \cup {Miss}) /\ Append(r.own, s) \in Seq(Signals)
    BY <1>n
  <2>7. /\ t \in Runs /\ t.misses = 0 /\ t.seen = Append(r.seen, s) /\ t.own = r.own
        /\ t.attempt = r.attempt /\ t.lone = r.lone /\ t.reason = r.reason
        /\ t.at = "identify"
    BY <2>5, <2>6 DEF Runs
  <2> HIDE DEF t
  <2>8. /\ e \in Runs /\ e.misses = 0 /\ e.seen = Append(r.seen, s)
        /\ e.own = Append(r.own, s) /\ e.at = "identify"
        /\ e.attempt = r.attempt /\ e.lone = r.lone /\ e.reason = r.reason
    BY <2>6, <2>7 DEF Runs
  <2> HIDE DEF e
  <2>9. r.reason = "none"
    BY <1>s, <2>2 DEF SoundVerdict
  <2>10. SoundMisses(e)
    BY <2>8, <2>9 DEF SoundMisses
  <2>11. SoundVerdict(e)
    BY <2>8, <2>9 DEF SoundVerdict, Detected
  <2>12. Given(e) = Given(r)
    <3>1. SubSeq(Append(r.own, s), 1, Len(Append(r.own, s)) - 1) = r.own
      BY <1>n, FrontOfAppend
    <3> QED
      BY <2>2, <2>8, <3>1 DEF Given
  <2>13. SoundWatch(l, e, watched, window)
    BY <1>n, <1>s, <2>2, <2>8, <2>12 DEF SoundWatch
  <2>14. e.attempt >= lane[l].attempt
    BY <1>n, <2>8
  <2> HIDE DEF r
  <2> QED
    BY <2>2, <2>3, <2>8, <2>10, <2>11, <2>13, <2>14, AloneKeeps
<1>6. CASE SampleFails(l)
  <2> DEFINE p == [r EXCEPT !.misses = r.misses + 1]
             q == [p EXCEPT !.seen = Append(p.seen, Miss)]
  <2>1. r.at = "loop" /\ UNCHANGED <<window, watched>>
    BY <1>6 DEF SampleFails, Alive
  <2>2. Goes(l, IF q.misses >= MaxMisses THEN Ends(q, "telemetry") ELSE Sleeps(q))
    BY <1>6 DEF SampleFails
  <2>3. /\ p \in Runs /\ p.misses = r.misses + 1 /\ p.seen = r.seen /\ p.own = r.own
        /\ p.attempt = r.attempt /\ p.lone = r.lone /\ p.reason = r.reason
        /\ p.at = "loop"
    <3>1. r.misses + 1 \in Nat
      BY <1>n
    <3> QED
      BY <1>t, <2>1, <3>1 DEF Runs
  <2> HIDE DEF p
  <2>4. Miss \in Signals \cup {Miss} /\ Append(r.seen, Miss) \in Seq(Signals \cup {Miss})
    BY <1>n
  <2>5. /\ q \in Runs /\ q.misses = r.misses + 1 /\ q.seen = Append(r.seen, Miss)
        /\ q.own = r.own /\ q.attempt = r.attempt /\ q.lone = r.lone
        /\ q.reason = r.reason /\ q.at = "loop"
    BY <2>3, <2>4 DEF Runs
  <2> HIDE DEF q
  <2>6. r.reason = "none"
    BY <1>s, <2>1 DEF SoundVerdict
  <2>7. /\ q.misses <= Len(q.seen)
        /\ \A a \in 0 .. q.misses - 1 : Aged(q.seen, a).fault = "miss"
    <3>1. /\ Len(q.seen) = Len(r.seen) + 1 /\ Aged(q.seen, 0) = Miss
          /\ \A a \in 1 .. Len(r.seen) : Aged(q.seen, a) = Aged(r.seen, a - 1)
      BY <1>n, <2>4, <2>5, AgedAppend
    <3>2. /\ r.misses <= Len(r.seen) /\ Len(r.seen) \in Nat
          /\ \A a \in 0 .. r.misses - 1 : Aged(r.seen, a).fault = "miss"
      BY <1>n, <1>s DEF SoundMisses
    <3>3. ASSUME NEW a \in 0 .. q.misses - 1 PROVE Aged(q.seen, a).fault = "miss"
      <4>1. CASE a = 0
        BY <3>1, <4>1 DEF Miss
      <4>2. CASE a # 0
        <5>1. a \in 1 .. Len(r.seen) /\ a - 1 \in 0 .. r.misses - 1
          BY <1>n, <2>5, <3>2, <4>2
        <5> QED
          BY <3>1, <3>2, <5>1
      <4> QED
        BY <4>1, <4>2
    <3>4. q.misses <= Len(q.seen)
      BY <1>n, <2>5, <3>1, <3>2
    <3> QED
      BY <3>3, <3>4
  <2>8. CASE q.misses >= MaxMisses
    <3> DEFINE e == Ends(q, "telemetry")
    <3>1. /\ e \in Runs /\ e.at = "idle" /\ e.reason = "telemetry" /\ e.attempt = q.attempt
          /\ e.misses = q.misses /\ e.seen = q.seen /\ e.own = q.own /\ e.lone = q.lone
      <4>1. "telemetry" \in Reasons
        BY DEF Reasons
      <4> QED
        BY <2>5, <4>1, EndsAre
    <3>2. Goes(l, e)
      BY <2>2, <2>8
    <3> HIDE DEF e
    <3>3. SoundMisses(e) /\ SoundVerdict(e) /\ SoundWatch(l, e, watched, window)
      BY <2>7, <2>8, <3>1 DEF SoundMisses, SoundVerdict, Detected, SoundWatch
    <3>4. e.attempt >= lane[l].attempt
      BY <1>n, <2>5, <3>1
    <3> HIDE DEF r
    <3> QED
      BY <2>1, <3>1, <3>2, <3>3, <3>4, AloneKeeps
  <2>9. CASE ~(q.misses >= MaxMisses)
    <3> DEFINE e == Sleeps(q)
    <3>1. /\ e \in Runs /\ e.at = "loop" /\ e.reason = "none" /\ e.attempt = q.attempt
          /\ e.misses = q.misses /\ e.seen = q.seen /\ e.own = q.own /\ e.lone = q.lone
      BY <2>5, <2>6, SleepsAre
    <3>2. Goes(l, e)
      BY <2>2, <2>9
    <3> HIDE DEF e
    <3>3. SoundMisses(e) /\ SoundVerdict(e)
      BY <2>7, <3>1 DEF SoundMisses, SoundVerdict, Detected
    <3>4. SoundWatch(l, e, watched, window)
      BY <1>s, <2>1, <2>5, <3>1 DEF SoundWatch, Given
    <3>5. e.attempt >= lane[l].attempt
      BY <1>n, <2>5, <3>1
    <3> HIDE DEF r
    <3> QED
      BY <2>1, <3>1, <3>2, <3>3, <3>4, <3>5, AloneKeeps
  <2> QED
    BY <2>8, <2>9
<1>7. CASE Identify(l)
  <2> DEFINE e == [r EXCEPT !.at = "add"]
  <2>1. /\ r.at = "identify" /\ watched' = <<l, r.attempt>>
        /\ window' = IF watched = <<l, r.attempt>> THEN window ELSE <<>>
        /\ lane' = [Crowd(l) EXCEPT ![l] = e]
    BY <1>7 DEF Identify, Identity, Cleared, Crowd
  <2>2. /\ e \in Runs /\ e.at = "add" /\ e.misses = r.misses /\ e.seen = r.seen
        /\ e.own = r.own /\ e.attempt = r.attempt /\ e.lone = r.lone /\ e.reason = r.reason
    BY <1>t DEF Runs
  <2> HIDE DEF e
  <2>3. SoundMisses(e) /\ SoundVerdict(e)
    BY <1>s, <2>1, <2>2 DEF SoundMisses, SoundVerdict, Detected
  <2>4. Given(e) = Given(r)
    BY <2>1, <2>2 DEF Given
  <2>5. window' \in Seq(Signals)
    BY <1>t, <2>1
  <2>6. Holds(<<>>, <<>>)
    BY HealthAssumption DEF Holds
  <2>7. SoundWatch(l, e, watched', window')
    <3>1. e.own # <<>>
      BY <1>s, <2>1, <2>2 DEF SoundWatch
    <3>2. ASSUME r.lone PROVE Holds(window', Given(e))
      BY <1>s, <2>1, <2>2, <2>4, <2>6, <3>2 DEF SoundWatch
    <3> QED
      BY <2>1, <2>2, <3>1, <3>2 DEF SoundWatch
  <2> HIDE DEF r
  <2>8. watched' \in {watched, <<l, e.attempt>>} /\ e.attempt = lane[l].attempt
    BY <2>1, <2>2 DEF r
  <2> QED
    BY <2>1, <2>2, <2>3, <2>5, <2>7, <2>8, ObservedKeeps
<1>8. CASE Add(l)
  <2> DEFINE e == [r EXCEPT !.at = "judge"]
  <2>1. /\ r.at = "add" /\ watched' = watched
        /\ window' = Kept(Append(window, Last(r.own)))
        /\ lane' = [Crowd(l) EXCEPT ![l] = e]
    BY <1>8 DEF Add, Crowd
  <2>2. /\ e \in Runs /\ e.at = "judge" /\ e.misses = r.misses /\ e.seen = r.seen
        /\ e.own = r.own /\ e.attempt = r.attempt /\ e.lone = r.lone /\ e.reason = r.reason
    BY <1>t DEF Runs
  <2> HIDE DEF e
  <2>3. SoundMisses(e) /\ SoundVerdict(e)
    BY <1>s, <2>1, <2>2 DEF SoundMisses, SoundVerdict, Detected
  <2>4. r.own # <<>>
    BY <1>s, <2>1 DEF SoundWatch
  <2>5. /\ Given(r) \in Seq(Signals) /\ Last(r.own) \in Signals
        /\ Append(Given(r), Last(r.own)) = r.own
    BY <1>n, <2>1, <2>4, FrontAndLast DEF Given, Last
  <2>6. Given(e) = r.own
    BY <2>2 DEF Given
  <2>7. window' \in Seq(Signals)
    <3>1. Append(window, Last(r.own)) \in Seq(Signals)
      BY <1>t, <2>5
    <3> QED
      BY <2>1, <3>1, KeptIs
  <2>8. SoundWatch(l, e, watched', window')
    <3>1. ASSUME r.lone
          PROVE  watched = <<l, r.attempt>> /\ Holds(window', r.own)
      <4>1. watched = <<l, r.attempt>> /\ Holds(window, Given(r))
        BY <1>s, <2>1, <3>1 DEF SoundWatch
      <4> QED
        BY <1>t, <2>1, <2>5, <4>1, AddHolds
    <3> QED
      BY <2>1, <2>2, <2>4, <2>6, <3>1 DEF SoundWatch
  <2> HIDE DEF r
  <2>9. watched' \in {watched, <<l, e.attempt>>} /\ e.attempt = lane[l].attempt
    BY <2>1, <2>2 DEF r
  <2> QED
    BY <2>1, <2>2, <2>3, <2>7, <2>8, <2>9, ObservedKeeps
<1>9. CASE Evaluate(l)
  <2> DEFINE d == Directive(window)
             e == IF d = "continue" THEN Sleeps(r) ELSE Ends(r, d)
  <2>1. /\ r.at = "judge" /\ watched' = watched /\ window' = window
        /\ lane' = [Crowd(l) EXCEPT ![l] = e]
    BY <1>9 DEF Evaluate, Crowd
  <2>2. r.lone => watched = <<l, r.attempt>> /\ Holds(window, r.own)
    BY <1>s, <2>1 DEF SoundWatch, Given
  <2>3. r.own # <<>>
    BY <1>s, <2>1 DEF SoundWatch
  <2>4. CASE d = "continue"
    <3>1. /\ e \in Runs /\ e.at = "loop" /\ e.misses = r.misses /\ e.seen = r.seen
          /\ e.own = r.own /\ e.attempt = r.attempt /\ e.lone = r.lone
          /\ e.reason = r.reason
      BY <1>t, <2>4, SleepsAre
    <3>2. ASSUME r.lone PROVE ~LikelyHang(r.own)
      <4>1. window # <<>>
        <5>1. Len(window) = (IF Len(r.own) < Capacity THEN Len(r.own) ELSE Capacity)
          BY <2>2, <3>2 DEF Holds
        <5>2. Len(r.own) \in Nat /\ Len(r.own) > 0 /\ Capacity \in Nat \ {0}
          <6> DEFINE own == r.own
          <6>1. own \in Seq(Signals) /\ own # <<>>
            BY <1>n, <2>3
          <6> HIDE DEF own
          <6>2. Len(own) \in Nat /\ Len(own) > 0
            BY <6>1
          <6> QED
            BY <6>2, HealthAssumption DEF own
        <5> QED
          BY <5>1, <5>2
      <4>2. ~LikelyHang(window)
        BY <1>t, <2>4, <4>1, GoingOnIsNoHang
      <4> QED
        BY <1>t, <1>n, <2>2, <3>2, <4>2, HangAgrees
    <3> HIDE DEF e
    <3>3. SoundMisses(e) /\ SoundVerdict(e)
      BY <1>s, <2>1, <3>1 DEF SoundMisses, SoundVerdict, Detected
    <3>4. SoundWatch(l, e, watched', window')
      BY <2>1, <2>2, <3>1, <3>2 DEF SoundWatch, Given
    <3> HIDE DEF r
    <3>5. watched' \in {watched, <<l, e.attempt>>} /\ e.attempt = lane[l].attempt
      BY <2>1, <3>1 DEF r
    <3> QED
      BY <1>t, <2>1, <3>1, <3>3, <3>4, <3>5, ObservedKeeps
  <2>5. CASE d # "continue"
    <3>1. d \in Detected
      <4>1. window # <<>> => Last(window).fault \in {"none", "nonfinite", "oom", "policy"}
        <5>1. window # <<>> => Last(window) \in Signals
          BY <1>t DEF Last
        <5> QED
          BY <5>1, HealthAssumption
      <4> QED
        BY <2>5, <4>1 DEF Directive, Detected
    <3>2. /\ e \in Runs /\ e.at = "idle" /\ e.misses = r.misses /\ e.seen = r.seen
          /\ e.own = r.own /\ e.attempt = r.attempt /\ e.lone = r.lone /\ e.reason = d
      <4>1. d \in Reasons /\ e = Ends(r, d)
        BY <2>5, <3>1 DEF Reasons
      <4> HIDE DEF d, e, r
      <4> QED
        BY <1>t, <4>1, EndsAre
    <3>3. ASSUME r.lone PROVE d = Directive(r.own)
      <4>1. Holds(window, r.own)
        BY <2>2, <3>3
      <4> QED
        BY <1>t, <1>n, <2>5, <4>1, VerdictAgrees
    <3> HIDE DEF e, d
    <3>4. SoundMisses(e) /\ SoundVerdict(e) /\ SoundWatch(l, e, watched', window')
      BY <1>s, <3>1, <3>2, <3>3 DEF SoundMisses, SoundVerdict, SoundWatch, Detected
    <3> HIDE DEF r
    <3>5. watched' \in {watched, <<l, e.attempt>>} /\ e.attempt = lane[l].attempt
      BY <2>1, <3>2 DEF r
    <3> QED
      BY <1>t, <2>1, <3>2, <3>4, <3>5, ObservedKeeps
  <2> QED
    BY <2>4, <2>5
<1> QED
  BY <1>1, <1>2, <1>3, <1>4, <1>5, <1>6, <1>7, <1>8, <1>9 DEF LaneStep, Observed

\* Before anything runs nothing is watched.
LEMMA HealthInitially == HealthInit => HealthInv
<1> SUFFICES ASSUME HealthInit PROVE HealthInv
  OBVIOUS
<1> DEFINE e == [NewRun(0) EXCEPT !.at = "idle"]
<1>1. lane = [l \in Lanes |-> e] /\ window = <<>> /\ watched = <<>>
  BY DEF HealthInit, Nobody
<1>2. /\ e \in Runs /\ e.at = "idle" /\ e.misses = 0 /\ e.seen = <<>> /\ e.reason = "none"
  <2>1. <<>> \in Seq(Signals) /\ <<>> \in Seq(Signals \cup {Miss})
    OBVIOUS
  <2> QED
    BY <2>1 DEF NewRun, Runs, Reasons
<1> HIDE DEF e
<1>3. SoundMisses(e) /\ SoundVerdict(e)
  BY <1>2 DEF SoundMisses, SoundVerdict, Detected
<1>4. ASSUME NEW l \in Lanes PROVE SoundWatch(l, e, watched, window) /\ SoundIdentity(l)
  BY <1>1, <1>2 DEF SoundWatch, SoundIdentity
<1>5. HealthTypeOK
  BY <1>1, <1>2 DEF HealthTypeOK, Nobody
<1> QED
  BY <1>1, <1>3, <1>4, <1>5 DEF HealthInv

\* What is watched rests in a step that touches neither window nor lanes.
LEMMA HealthRests ==
  ASSUME HealthInv, UNCHANGED healthVars
  PROVE  HealthInv'
BY DEF HealthInv, HealthTypeOK, SoundMisses, SoundVerdict, SoundWatch, SoundIdentity, healthVars

\* The charges rest likewise.
LEMMA ChargesRest ==
  ASSUME ChargesInv, UNCHANGED chargesVars
  PROVE  ChargesInv'
BY DEF ChargesInv, ChargesTypeOK, SoundTask, SoundSession, chargesVars

\* A run that is observed alone is judged by its own samples, as many as the
\* window takes: the invariant behind SREObserver.observe, with every other
\* lane's steps between its own.
THEOREM HealthInvariance == HealthSpec => []HealthInv
<1>1. HealthInit => HealthInv
  BY HealthInitially
<1>2. HealthInv /\ [HealthNext]_healthVars => HealthInv'
  <2> SUFFICES ASSUME HealthInv, [HealthNext]_healthVars PROVE HealthInv'
    OBVIOUS
  <2>1. CASE HealthNext
    BY <2>1, LaneKeeps DEF HealthNext
  <2>2. CASE UNCHANGED healthVars
    BY <2>2, HealthRests
  <2> QED
    BY <2>1, <2>2
<1> QED
  BY <1>1, <1>2, PTL DEF HealthSpec

----------------------------------------------------------------------------
(* The round.                                                              *)

\* A direction is coded when it is planned and recorded, not before.
InOrder == \A d \in Directions : session[d].at # "none" => plan[d].at = "recorded"

RoundInv == ChargesInv /\ HealthInv /\ InOrder /\ runnable \subseteq Lanes

\* No step of planning or coding gets ahead of the round.
LEMMA OrderKeeps ==
  ASSUME ChargesInv, InOrder, ChargesNext
  PROVE  InOrder'
<1>t. /\ plan \in [Directions -> Tasks] /\ session \in [Directions -> Sessions]
      /\ \A d \in Directions : session[d].at # "none" => plan[d].at = "recorded"
  BY DEF ChargesInv, ChargesTypeOK, InOrder
<1>1. ASSUME NEW d \in Directions, Planning(d) PROVE InOrder'
  <2>1. session' = session /\ plan[d].at \in {"start", "wait"}
    BY <1>1 DEF Planning, Generate, AsksCompactly, AnswersUselessly, TransportFails,
                AnswersBadly, AnswersWell, Unbilled
  <2>2. \E r : plan' = [plan EXCEPT ![d] = r]
    BY <1>1 DEF Planning, Generate, AsksCompactly, AnswersUselessly, TransportFails,
                AnswersBadly, AnswersWell, Plans
  <2> QED
    BY <1>t, <2>1, <2>2 DEF InOrder
<1>2. ASSUME NEW d \in Directions, Coding(d) PROVE InOrder'
  <2>1. plan' = plan /\ session[d].at # "none"
    BY <1>2 DEF Coding, PassSucceeds, PassFails, CleanupFails, CaptureFails, CaptureSucceeds,
                ReviewStalls, ReviewIsLate, ReviewEnds, ReviewEvidenceFails, CommitFails,
                Commits, Works
  <2>2. \E r : session' = [session EXCEPT ![d] = r]
    BY <1>2 DEF Coding, PassSucceeds, PassFails, CleanupFails, CaptureFails, CaptureSucceeds,
                ReviewStalls, ReviewIsLate, ReviewEnds, ReviewEvidenceFails, CommitFails,
                Commits, Works
  <2> QED
    BY <1>t, <2>1, <2>2 DEF InOrder
<1>3. CASE RoundBreaks
  <2>1. \A d \in Directions : session[d].at = "none"
    BY <1>3, <1>t DEF RoundBreaks, Settled
  <2> QED
    BY <1>3, <2>1 DEF RoundBreaks, InOrder
<1>4. CASE RoundIsSealed
  BY <1>4 DEF RoundIsSealed, InOrder, Task
<1> QED
  BY <1>1, <1>2, <1>3, <1>4 DEF ChargesNext

\* The round comes to its runs when nothing waits for an answer any more.
LEMMA RunsBeginKeeps ==
  ASSUME RoundInv, RunsBegin
  PROVE  RoundInv'
<1>1. Lanes = Directions
  BY RoundAssumption
<1>2. \A d \in Directions : plan[d].at = "recorded"
  BY <1>1 DEF RunsBegin, RoundInv, InOrder
<1>3. /\ session' = [d \in Directions |-> Session("ended")] /\ plan' = plan
      /\ usage' = [c \in Directions \cup {Router} |-> NoUsage]
  BY <1>1 DEF RunsBegin
<1>4. ChargesInv'
  <2>1. Session("ended") \in Sessions /\ SoundSession(Session("ended"))
    BY DEF Session, Sessions, Stages, Outcomes, SoundSession
  <2>2. ChargesTypeOK'
    BY <1>3, <2>1 DEF RoundInv, ChargesInv, ChargesTypeOK
  <2>3. \A d \in Directions : SoundTask(d)'
    BY <1>2, <1>3 DEF SoundTask
  <2>4. \A d \in Directions : session'[d] = Session("ended")
    BY <1>3
  <2> QED
    BY <2>1, <2>2, <2>3, <2>4 DEF ChargesInv
<1>5. HealthInv'
  BY HealthRests DEF RunsBegin, RoundInv, healthVars
<1>6. InOrder'
  BY <1>2, <1>3 DEF InOrder
<1>7. runnable' \subseteq Lanes
  BY DEF RunsBegin, Coded
<1> QED
  BY <1>4, <1>5, <1>6, <1>7 DEF RoundInv

\* A round's charges and its runs are sound at once: neither the runs of the
\* lanes nor the reset of the counters before them disturbs what was charged.
THEOREM RoundInvariance == RoundSpec => []RoundInv
<1>1. RoundInit => RoundInv
  <2> SUFFICES ASSUME RoundInit PROVE RoundInv
    OBVIOUS
  <2>1. ChargesInv /\ HealthInv
    BY ChargesInitially, HealthInitially DEF RoundInit
  <2>2. InOrder
    BY DEF RoundInit, ChargesInit, InOrder, Session
  <2> QED
    BY <2>1, <2>2 DEF RoundInit, RoundInv
<1>2. RoundInv /\ [RoundNext]_roundVars => RoundInv'
  <2> SUFFICES ASSUME RoundInv, [RoundNext]_roundVars PROVE RoundInv'
    OBVIOUS
  <2>1. CASE ChargesNext /\ UNCHANGED <<window, watched, lane, runnable, running>>
    <3>1. ChargesInv' /\ InOrder'
      BY <2>1, PlanningKeeps, CodingKeeps, RoundKeeps, OrderKeeps DEF ChargesNext, RoundInv
    <3>2. HealthInv'
      BY <2>1, HealthRests DEF RoundInv, healthVars
    <3> QED
      BY <2>1, <3>1, <3>2 DEF RoundInv
  <2>2. CASE RunsBegin
    BY <2>2, RunsBeginKeeps
  <2>3. CASE /\ \E l \in runnable : LaneStep(l)
             /\ UNCHANGED <<plan, usage, last, bill, session, runnable, running>>
    <3>1. HealthInv'
      BY <2>3, LaneKeeps DEF RoundInv
    <3>2. ChargesInv' /\ InOrder'
      BY <2>3, ChargesRest DEF RoundInv, InOrder, chargesVars
    <3> QED
      BY <2>3, <3>1, <3>2 DEF RoundInv
  <2>4. CASE UNCHANGED roundVars
    <3>1. UNCHANGED chargesVars /\ UNCHANGED healthVars /\ UNCHANGED runnable
      BY <2>4 DEF roundVars, chargesVars, healthVars
    <3>2. ChargesInv' /\ HealthInv'
      BY <3>1, ChargesRest, HealthRests DEF RoundInv
    <3> QED
      BY <3>1, <3>2 DEF RoundInv, InOrder, chargesVars
  <2> QED
    BY <2>1, <2>2, <2>3, <2>4 DEF RoundNext
<1> QED
  BY <1>1, <1>2, PTL DEF RoundSpec

\* A proposal is charged what its own direction was answered, however many
\* directions are planned beside it (ContextVar counters of the provider).
THEOREM PlansAreChargedTheirOwnTheorem == RoundSpec => []PlansAreChargedTheirOwn
<1>1. RoundInv => PlansAreChargedTheirOwn
  BY DEF RoundInv, ChargesInv, SoundTask, PlansAreChargedTheirOwn
<1> QED
  BY <1>1, RoundInvariance, PTL

\* A session's usage is charged whole, however many passes and reviews it took
\* and wherever it failed (_combined_resource_delta, SolutionVerifierError).
THEOREM SessionsAreChargedTheorem == RoundSpec => []SessionsAreCharged
<1>1. RoundInv => SessionsAreCharged
  BY DEF RoundInv, ChargesInv, SoundSession, SessionsAreCharged
<1> QED
  BY <1>1, RoundInvariance, PTL

\* A run observed alone never outlives a stall, whatever was observed before
\* it and however many samples were missed between (likely_hang, observe).
THEOREM LoneStallsAreNoticedTheorem == RoundSpec => []LoneStallsAreNoticed
<1>1. RoundInv => LoneStallsAreNoticed
  BY DEF RoundInv, HealthInv, SoundWatch, LoneStallsAreNoticed, HasStalled
<1> QED
  BY <1>1, RoundInvariance, PTL

\* A run is ended for lost telemetry after as many misses in a row as the
\* limit, and by the observer, when that watches it alone, for what its own
\* samples show: the window agrees with them on stalls, and on explosions
\* because the baseline it still holds is the run's (persistent_explosion).
THEOREM VerdictsRestOnOwnSamplesTheorem == RoundSpec => []VerdictsRestOnOwnSamples
<1>1. RoundInv => VerdictsRestOnOwnSamples
  <2> SUFFICES ASSUME RoundInv, NEW l \in Lanes
               PROVE  /\ lane[l].reason = "telemetry" =>
                             \A a \in 0 .. MaxMisses - 1 : Aged(lane[l].seen, a).fault = "miss"
                      /\ lane[l].reason \in Detected /\ lane[l].lone =>
                             lane[l].reason = Directive(lane[l].own)
    BY DEF VerdictsRestOnOwnSamples, Detected
  <2>1. SoundMisses(lane[l]) /\ SoundVerdict(lane[l]) /\ lane[l] \in Runs
    BY DEF RoundInv, HealthInv, HealthTypeOK
  <2>2. ASSUME lane[l].reason = "telemetry", NEW a \in 0 .. MaxMisses - 1
        PROVE  Aged(lane[l].seen, a).fault = "miss"
    <3>1. lane[l].misses \in Nat /\ MaxMisses \in Nat /\ lane[l].misses >= MaxMisses
      BY <2>1, <2>2, HealthAssumption DEF SoundMisses, Runs
    <3>2. a \in 0 .. lane[l].misses - 1
      BY <3>1
    <3> QED
      BY <2>1, <3>2 DEF SoundMisses
  <2> QED
    BY <2>1, <2>2 DEF SoundVerdict
<1> QED
  BY <1>1, RoundInvariance, PTL
=============================================================================
