----------------------------- MODULE GatesProofs -----------------------------
(***************************************************************************)
(* The chain of custody from a candidate commit to its score, for any      *)
(* number of attempts, runs and changes by others.                         *)
(*                                                                         *)
(* Gate A's findings accumulate over five steps in which the files may     *)
(* change; what makes its acceptance sound is that no finding at a step    *)
(* means what that step looked for (Cleared), and what makes its rejection *)
(* just is that, undisturbed, a finding means a fault (Blamed).            *)
(***************************************************************************)
EXTENDS Gates, SequenceTheorems, TLAPS

Codes == {"DIFF_MISMATCH", "UNAPPROVED_TARGET_FILE", "PROTECTED_PATH_MODIFIED",
          "SYNTAX_IMPORT_FAILURE", "INTERFACE_MISMATCH", "UNAPPROVED_NETWORK",
          "SMOKE_FAILURE", "SECRET_DETECTED"}
Judging == {"diff", "policy", "sources", "smoke", "recheck"}
Running == {"resolve", "unseal", "checked"}
Receipted == Running \cup {"accepted", "sealed", "running", "ended", "captured", "scored"}
Stages == Judging \cup Receipted \cup {"code", "restart", "state", "issue", "stopped"}

CommitRecs == [base : Nat, tree : Trees]
OutputRecs == [run : Int, commit : Nat, is : Outputs \cup {"none"}]
SealRecs == [run : Nat, commit : Nat, attempt : Nat, bytes : OutputRecs]
Worlds == [head : Nat, clean : BOOLEAN, frozen : BOOLEAN,
           patch : {"none", "intact", "changed"}, receipt : {"intact", "changed"},
           output : OutputRecs, seal : SealRecs]
Cands == [attempt : Nat, commit : Nat, base : Nat]
GateRecs == [pc : Stages, found : SUBSET Codes, changes : SUBSET Paths]
Execs == [runs : Nat, ref : OutputRecs, scored : OutputRecs]

GatesTypeOK ==
    /\ commits \in Seq(CommitRecs) /\ world \in Worlds /\ cand \in Cands
    /\ gate \in GateRecs /\ exec \in Execs /\ meddled \in Nat

\* The candidate is a commit of the experiment on the base it claims, and every commit
\* descends from the approved parent.
Rooted == \A c \in 0..Len(commits) : RootedAt(0, c)
Candidate ==
    /\ Rooted
    /\ cand.attempt = 0 =>
          cand.commit = 0 /\ gate.pc \in {"code", "restart"}
    /\ cand.attempt > 0 =>
          /\ cand.commit \in 1..Len(commits) /\ cand.base \in 0..Len(commits)
          /\ BaseOf(cand.commit) = cand.base
          /\ cand.attempt = 1 => cand.base = 0

\* While nothing meddles the worktree is the candidate's.
Undisturbed ==
    meddled = 0 =>
        /\ world.clean /\ world.frozen /\ world.head = cand.commit
        /\ cand.attempt > 0 => world.patch = "intact"

\* A step of Gate A without a finding has seen what it looked for.
Cleared ==
    /\ gate.pc = "state" => gate.found = {}
    /\ gate.found = {} =>
          /\ gate.pc \in Judging \cup {"issue"} => gate.changes = Inspected
          /\ gate.pc \in {"sources", "smoke", "recheck", "issue"} =>
                gate.changes \subseteq Authorized
          /\ gate.pc \in {"smoke", "recheck", "issue"} =>
                \A x \in {"unparsable", "misfit", "forbidden", "secret"} : ~SourcesAre(x)
    /\ gate.pc = "issue" => gate.found = {}

\* Undisturbed, a finding is a fault of the candidate, and a secret is a finding.
Blamed ==
    meddled = 0 /\ gate.pc \in Judging =>
        /\ gate.changes = Inspected
        /\ gate.found \ {"SMOKE_FAILURE"} # {} => ~IsLegal(cand.commit)
        /\ gate.pc \in {"smoke", "recheck"} /\ "SECRET_DETECTED" \notin gate.found =>
              ~SourcesAre("secret")

\* Undisturbed, no attempt is based on a candidate with a secret, which its diff would
\* show again when it removes it.
Secret(c) == \E p \in Paths : TreeAt(c)[p] = "secret"
NoSecretIsRepaired ==
    meddled = 0 =>
        /\ gate.pc = "code" => ~Secret(cand.commit)
        /\ gate.pc \in Judging \cup {"state"} => ~Secret(cand.base)

\* A receipt is of a commit there is, and what Gate B judges is the output of the
\* latest run of a commit that has one.
Custody ==
    /\ \A r \in receipts : r.commit \in 1..Len(commits)
    /\ ReceiptsAreClean
    /\ gate.pc \in Receipted =>
          \E r \in receipts : r.commit = cand.commit /\ r.attempt = cand.attempt
    /\ gate.pc \in Running \cup {"captured"} =>
          /\ exec.ref.run = exec.runs /\ exec.ref.commit = cand.commit
          /\ exec.ref.is \in Outputs
    /\ gate.pc = "checked" => exec.ref.is = "sound"

GatesInv ==
    GatesTypeOK /\ Candidate /\ Undisturbed /\ Cleared /\ Blamed /\ NoSecretIsRepaired
    /\ Custody

-----------------------------------------------------------------------------
(***************************************************************************)
(* What the gate's steps make of its record.                               *)
(***************************************************************************)
\* A finding joins those there are, and the gate goes on.
LEMMA FindIs ==
    ASSUME gate \in GateRecs, NEW codes \in SUBSET Codes, NEW pc \in Stages, Find(codes, pc)
    PROVE  /\ gate' \in GateRecs /\ gate'.pc = pc /\ gate'.changes = gate.changes
           /\ gate'.found = gate.found \cup codes
<1> DEFINE g == [gate EXCEPT !.pc = pc]
           all == gate.found \cup codes
<1>1. g \in GateRecs /\ g.found = gate.found /\ all \in SUBSET Codes
  BY DEF GateRecs
<1> HIDE DEF g, all
<1>2. [g EXCEPT !.found = all] \in GateRecs
  BY <1>1 DEF GateRecs
<1>3. gate' = [g EXCEPT !.found = all]
  BY DEF Find, GateRecs, g, all
<1>4. gate'.pc = pc /\ gate'.changes = gate.changes /\ gate'.found = gate.found \cup codes
  BY DEF Find, GateRecs
<1> QED
  BY <1>2, <1>3, <1>4

\* Going on without one keeps them.
LEMMA GoIs ==
    ASSUME gate \in GateRecs, NEW pc \in Stages, Go(pc)
    PROVE  /\ gate' \in GateRecs /\ gate'.pc = pc /\ gate'.changes = gate.changes
           /\ gate'.found = gate.found
BY DEF Go, GateRecs

\* A route leads back to the coding worker or ends the run.
LEMMA RoutesLeave == \A codes : RouteOf(codes) \in {"restart", "stopped", "code"}
BY DEF RouteOf

\* What a gate looks at does not depend on what comes after it.
LEMMA SameCommits ==
    ASSUME UNCHANGED <<commits, cand>>, GatesTypeOK, Candidate, Custody
    PROVE  /\ Rooted' /\ Inspected' = Inspected
           /\ \A c \in Nat : /\ IsLegal(c)' = IsLegal(c) /\ Diff(0, c)' = Diff(0, c)
                              /\ Secret(c)' = Secret(c)
           /\ BaseOf(cand.commit)' = BaseOf(cand.commit) /\ Len(commits)' = Len(commits)
           /\ gate.changes = gate'.changes =>
                 \A x \in Contents : SourcesAre(x)' = SourcesAre(x)
BY DEF Candidate, Rooted, RootedAt, BaseOf, Inspected, Changed, TreeAt, IsLegal, Diff,
       SourcesAre, Secret

-----------------------------------------------------------------------------
(***************************************************************************)
(* The invariant is inductive.                                             *)
(***************************************************************************)
\* Before the first candidate there is only the approved parent.
THEOREM GatesInit == Init => GatesInv
<1> SUFFICES ASSUME Init PROVE GatesInv
  OBVIOUS
<1>1. <<>> \in Seq(CommitRecs) /\ Len(<<>>) = 0
  BY EmptySeq
<1>2. GatesTypeOK
  <2>1. NoOutput \in OutputRecs
    BY DEF NoOutput, OutputRecs
  <2>2. NoSeal \in SealRecs
    BY <2>1 DEF NoSeal, SealRecs
  <2> QED
    BY <1>1, <2>1, <2>2
       DEF Init, GatesTypeOK, Worlds, Cands, GateRecs, Execs, Stages, Receipted
<1>3. Candidate
  BY <1>1 DEF Init, Candidate, Rooted, RootedAt
<1>4. Cleared
  BY DEF Init, Cleared, Judging
<1> QED
  BY <1>2, <1>3, <1>4
     DEF Init, GatesInv, Undisturbed, Blamed, Custody, Judging, Running, Receipted,
         ReceiptsAreClean, NoSecretIsRepaired, Secret, TreeAt

\* Coding adds a commit on one there is; the others stay what they are.
LEMMA ProposeKeeps ==
    ASSUME GatesInv, NEW base \in 0..Len(commits), NEW t \in Trees, Propose(base, t)
    PROVE  GatesInv'
<1> DEFINE n == Len(commits)
           new == [base |-> base, tree |-> t]
<1>t. /\ GatesTypeOK /\ Candidate /\ Custody
      /\ commits \in Seq(CommitRecs) /\ world \in Worlds /\ cand \in Cands
      /\ exec \in Execs /\ meddled \in Nat /\ n \in Nat
  BY LenProperties DEF GatesInv, GatesTypeOK
<1>1. /\ commits' \in Seq(CommitRecs) /\ Len(commits') = n + 1
      /\ commits'[n + 1] = new /\ \A i \in 1..n : commits'[i] = commits[i]
  <2>1. new \in CommitRecs /\ commits' = Append(commits, new)
    BY DEF Propose, CommitRecs
  <2> HIDE DEF new
  <2> QED
    BY <1>t, <2>1, AppendProperties
<1>2. /\ cand' = [attempt |-> cand.attempt + 1, commit |-> n + 1, base |-> base]
      /\ gate' = [pc |-> "state", found |-> {}, changes |-> {}]
      /\ UNCHANGED <<receipts, exec, meddled>>
      /\ gate.pc \in {"code", "restart"} /\ base \in Nat
      /\ base = (IF gate.pc = "restart" THEN 0 ELSE cand.commit)
  BY <1>t DEF Propose, At
<1>3. /\ world' \in Worlds /\ world'.head = n + 1 /\ world'.clean /\ world'.patch = "intact"
      /\ world'.frozen = world.frozen
  <2>1. world' = [world EXCEPT !.head = n + 1, !.clean = TRUE, !.patch = "intact"]
    BY DEF Propose
  <2> DEFINE w1 == [world EXCEPT !.head = n + 1]
             w2 == [w1 EXCEPT !.clean = TRUE]
             w3 == [w2 EXCEPT !.patch = "intact"]
  <2>2. w1 \in Worlds
    BY <1>t DEF Worlds
  <2>3. w2 \in Worlds
    <3> HIDE DEF w1
    <3> QED
      BY <2>2 DEF Worlds
  <2>4. w3 \in Worlds
    <3> HIDE DEF w2
    <3> QED
      BY <2>3 DEF Worlds
  <2>5. world' = w3
    BY <1>t, <2>1 DEF Worlds
  <2> HIDE DEF w3
  <2> QED
    BY <1>t, <2>1, <2>4, <2>5 DEF Worlds
<1>4. \A i \in 0..n : /\ TreeAt(i)' = TreeAt(i)
                      /\ i > 0 => BaseOf(i)' = BaseOf(i)
  BY <1>1 DEF TreeAt, BaseOf
<1>5. GatesTypeOK'
  <2>1. cand' \in Cands
    BY <1>t, <1>2 DEF Cands
  <2>2. gate' \in GateRecs
    BY <1>2 DEF GateRecs, Stages
  <2> QED
    BY <1>t, <1>1, <1>2, <1>3, <2>1, <2>2 DEF GatesTypeOK
<1>6. Rooted'
  <2> SUFFICES ASSUME NEW line \in SUBSET (0..n + 1), 0 \in line,
                      \A k \in 1..n + 1 : BaseOf(k)' \in line => k \in line,
                      NEW c \in 0..n + 1
               PROVE  c \in line
    BY <1>1 DEF Rooted, RootedAt
  <2>1. ASSUME NEW i \in 0..n PROVE i \in line
    <3> DEFINE old == line \cap (0..n)
    <3>1. old \in SUBSET (0..Len(commits)) /\ 0 \in old
      BY <1>t
    <3>2. \A k \in 1..Len(commits) : BaseOf(k) \in old => k \in old
      BY <1>t, <1>4
    <3>3. RootedAt(0, i)
      BY <1>t, <2>1 DEF Candidate, Rooted
    <3> HIDE DEF old
    <3>4. i \in old
      BY <3>1, <3>2, <3>3 DEF RootedAt
    <3> QED
      BY <3>4 DEF old
  <2>2. n + 1 \in line
    <3>1. commits'[n + 1].base = base
      BY <1>1
    <3> QED
      BY <1>t, <2>1, <3>1 DEF BaseOf
  <2> QED
    BY <1>t, <2>1, <2>2
<1>7. Candidate'
  <2>1. commits'[n + 1].base = base
    BY <1>1
  <2>2. cand.attempt = 0 => base = 0
    BY <1>t, <1>2 DEF Candidate
  <2>3. cand.attempt + 1 > 0 /\ cand.attempt \in Nat
    BY <1>t DEF Cands
  <2> QED
    BY <1>t, <1>1, <1>2, <1>6, <2>1, <2>2, <2>3 DEF Candidate, BaseOf
<1>8. Undisturbed' /\ Cleared' /\ Blamed'
  BY <1>2, <1>3 DEF GatesInv, Undisturbed, Cleared, Blamed, Judging
<1>9. NoSecretIsRepaired'
  <2>1. TreeAt(base)' = TreeAt(base)
    BY <1>4
  <2>2. meddled = 0 => ~Secret(base)
    BY <1>2 DEF GatesInv, NoSecretIsRepaired, Secret, TreeAt
  <2> QED
    BY <1>2, <2>1, <2>2 DEF NoSecretIsRepaired, Secret
<1>10. Custody'
  <2>1. \A r \in receipts : r.commit \in 1..n /\ r.commit \in 0..n /\ 0 \in 0..n
    BY <1>t DEF Custody
  <2>2. \A r \in receipts : IsLegal(r.commit)' = IsLegal(r.commit)
    BY <1>4, <2>1 DEF IsLegal, Changed
  <2>3. \A r \in receipts : Diff(0, r.commit)' = Diff(0, r.commit)
    BY <1>4, <2>1 DEF Diff, Changed
  <2> QED
    BY <1>t, <1>1, <1>2, <2>1, <2>2, <2>3 DEF Custody, ReceiptsAreClean, Running, Receipted
<1> QED
  BY <1>5, <1>7, <1>8, <1>9, <1>10 DEF GatesInv

\* A step of Gate A keeps the candidate and finds what its step looks for.
LEMMA GateAKeeps ==
    ASSUME GatesInv, GateA
    PROVE  GatesInv'
<1> USE DEF At
<1>t. /\ GatesTypeOK /\ Candidate /\ Undisturbed /\ Cleared /\ Blamed /\ Custody
      /\ NoSecretIsRepaired
      /\ gate \in GateRecs /\ cand \in Cands /\ world \in Worlds /\ meddled \in Nat
  BY DEF GatesInv, GatesTypeOK
<1>u. UNCHANGED <<commits, cand, exec, meddled>>
  BY DEF GateA, VerifyState, CheckDiff, CheckPolicy, CheckSources, Smoke, Recheck, Issue,
         Reject
<1>s. /\ Rooted' /\ Inspected' = Inspected
      /\ \A c \in Nat : /\ IsLegal(c)' = IsLegal(c) /\ Diff(0, c)' = Diff(0, c)
                         /\ Secret(c)' = Secret(c)
      /\ BaseOf(cand.commit)' = BaseOf(cand.commit) /\ Len(commits)' = Len(commits)
      /\ gate.changes = gate'.changes =>
            \A x \in Contents : SourcesAre(x)' = SourcesAre(x)
  BY <1>t, <1>u, SameCommits
<1>c. cand.commit \in Nat /\ cand.attempt \in Nat /\ cand.base \in Nat
  BY <1>t DEF Cands
\* A step within the gate only has to account for its findings.
<1>g. ASSUME gate' \in GateRecs, gate'.pc \in Judging, gate.pc \in Judging \cup {"state"},
             UNCHANGED <<world, receipts>>, Cleared', Blamed'
      PROVE  GatesInv'
  <2>1. GatesTypeOK' /\ Undisturbed'
    BY <1>g, <1>t, <1>u DEF GatesTypeOK, Undisturbed
  <2>2. Candidate'
    BY <1>g, <1>t, <1>u, <1>s DEF Candidate, Judging
  <2>3. Custody'
    BY <1>g, <1>t, <1>u, <1>s DEF Custody, ReceiptsAreClean, Judging, Running, Receipted
  <2>4. NoSecretIsRepaired'
    BY <1>g, <1>t, <1>u, <1>s, <1>c DEF NoSecretIsRepaired, Judging
  <2> QED
    BY <1>g, <2>1, <2>2, <2>3, <2>4 DEF GatesInv
\* Undisturbed, the git state verifies.
<1>h. ASSUME meddled = 0, cand.attempt > 0 PROVE StateHolds /\ PatchIsIntact /\ ProtectedHolds
  BY <1>h, <1>t, <1>c
     DEF Undisturbed, Candidate, StateHolds, RootIsLegal, Rooted, PatchIsIntact, ProtectedHolds
<1>a. gate.pc \in Judging \cup {"state", "issue"} => cand.attempt > 0
  BY <1>t, <1>c DEF Candidate, Judging
<1>1. ASSUME VerifyState PROVE GatesInv'
  <2>1. UNCHANGED <<world, receipts>> /\ gate.pc = "state"
    BY <1>1 DEF VerifyState
  <2>2. CASE StateHolds /\ gate' = [gate EXCEPT !.pc = "diff", !.changes = Inspected]
    <3> DEFINE g1 == [gate EXCEPT !.pc = "diff"]
               g2 == [g1 EXCEPT !.changes = Inspected]
    <3>1. g1 \in GateRecs /\ Inspected \in SUBSET Paths
      BY <1>t DEF GateRecs, Stages, Judging, Inspected, Changed
    <3>2. g2 \in GateRecs
      <4> HIDE DEF g1
      <4> QED
        BY <3>1 DEF GateRecs
    <3>3. /\ gate' = g2 /\ gate'.pc = "diff" /\ gate'.changes = Inspected
          /\ gate'.found = gate.found
      BY <1>t, <2>2 DEF GateRecs
    <3> HIDE DEF g2
    <3>4. gate.found = {}
      BY <1>t, <2>1 DEF Cleared
    <3> QED
      BY <1>g, <1>s, <2>1, <3>2, <3>3, <3>4 DEF Cleared, Blamed, Judging
  <2>3. CASE ~StateHolds /\ Find({"DIFF_MISMATCH"}, "diff")
    <3>1. /\ gate' \in GateRecs /\ gate'.pc = "diff" /\ gate'.found # {}
      BY <1>t, <2>3, FindIs DEF Codes, Stages, Judging
    <3>2. meddled # 0
      BY <1>a, <1>h, <2>1, <2>3
    <3> QED
      BY <1>g, <1>u, <2>1, <3>1, <3>2 DEF Cleared, Blamed, Judging
  <2> QED
    BY <1>1, <2>2, <2>3 DEF VerifyState
<1>2. ASSUME CheckDiff PROVE GatesInv'
  <2> DEFINE new == Finding("DIFF_MISMATCH", PatchIsIntact)
                      \cup Finding("SECRET_DETECTED", PatchIsIntact => ~DiffShows("secret"))
  <2>1. /\ UNCHANGED <<world, receipts>> /\ gate.pc = "diff" /\ Find(new, "policy")
        /\ new \in SUBSET Codes /\ (PatchIsIntact /\ ~DiffShows("secret") => new = {})
    BY <1>2 DEF CheckDiff, Finding, Codes
  <2> HIDE DEF new
  <2>2. /\ gate' \in GateRecs /\ gate'.pc = "policy" /\ gate'.changes = gate.changes
        /\ gate'.found = gate.found \cup new
    BY <1>t, <2>1, FindIs DEF Stages, Judging
  <2>3. Cleared'
    BY <1>t, <1>s, <2>1, <2>2 DEF Cleared, Judging
  <2>4. Blamed'
    <3>1. meddled = 0 /\ DiffShows("secret") => ~IsLegal(cand.commit)
      BY <1>t, <2>1 DEF NoSecretIsRepaired, Judging, DiffShows, Secret, Changed, IsLegal
    <3> QED
      BY <1>t, <1>u, <1>c, <1>s, <1>a, <1>h, <2>1, <2>2, <3>1 DEF Blamed, Judging
  <2> QED
    BY <1>g, <2>1, <2>2, <2>3, <2>4 DEF Judging
<1>3. ASSUME CheckPolicy PROVE GatesInv'
  <2> DEFINE new == Finding("UNAPPROVED_TARGET_FILE", gate.changes \subseteq Authorized)
                      \cup Finding("PROTECTED_PATH_MODIFIED", ProtectedHolds)
  <2>1. /\ UNCHANGED <<world, receipts>> /\ gate.pc = "policy" /\ Find(new, "sources")
        /\ new \in SUBSET Codes
        /\ new = {} => gate.changes \subseteq Authorized
        /\ new # {} /\ ProtectedHolds => ~(gate.changes \subseteq Authorized)
    BY <1>3 DEF CheckPolicy, Finding, Codes
  <2> HIDE DEF new
  <2>2. /\ gate' \in GateRecs /\ gate'.pc = "sources" /\ gate'.changes = gate.changes
        /\ gate'.found = gate.found \cup new
    BY <1>t, <2>1, FindIs DEF Stages, Judging
  <2>3. Cleared'
    BY <1>t, <1>s, <2>1, <2>2 DEF Cleared, Judging
  <2>4. Blamed'
    <3>1. meddled = 0 /\ ~(gate.changes \subseteq Authorized) => ~IsLegal(cand.commit)
      BY <1>t, <2>1 DEF Blamed, Judging, IsLegal, Inspected
    <3> QED
      BY <1>t, <1>u, <1>c, <1>s, <1>a, <1>h, <2>1, <2>2, <3>1 DEF Blamed, Judging
  <2> QED
    BY <1>g, <2>1, <2>2, <2>3, <2>4 DEF Judging
<1>4. ASSUME CheckSources PROVE GatesInv'
  <2> DEFINE new == SyntaxFindings \cup InterfaceFindings \cup CapabilityFindings
             faulty == SourcesAre("unparsable") \/ SourcesAre("misfit")
                         \/ SourcesAre("forbidden") \/ SourcesAre("secret")
  <2>1. /\ UNCHANGED <<world, receipts>> /\ gate.pc = "sources" /\ Find(new, "smoke")
        /\ new \in SUBSET Codes /\ (new = {} <=> ~faulty)
        /\ "SECRET_DETECTED" \in new \/ ~SourcesAre("secret")
    BY <1>4
       DEF CheckSources, SyntaxFindings, InterfaceFindings, CapabilityFindings, Finding, Codes
  <2> HIDE DEF new
  <2>2. /\ gate' \in GateRecs /\ gate'.pc = "smoke" /\ gate'.changes = gate.changes
        /\ gate'.found = gate.found \cup new
    BY <1>t, <2>1, FindIs DEF Stages, Judging
  <2>3. Cleared'
    BY <1>t, <1>s, <2>1, <2>2 DEF Cleared, Judging, Contents
  <2>4. Blamed'
    <3>1. meddled = 0 /\ faulty => ~IsLegal(cand.commit)
      <4>1. gate.changes \subseteq Paths
        BY <1>t DEF GateRecs
      <4> QED
        BY <4>1 DEF IsLegal, SourcesAre
    <3> HIDE DEF faulty
    <3> QED
      BY <1>t, <1>u, <1>c, <1>s, <2>1, <2>2, <3>1 DEF Blamed, Judging, Contents
  <2> QED
    BY <1>g, <2>1, <2>2, <2>3, <2>4 DEF Judging
<1>5. ASSUME Smoke PROVE GatesInv'
  <2>1. UNCHANGED <<world, receipts>> /\ gate.pc = "smoke"
    BY <1>5 DEF Smoke
  <2>2. PICK new \in SUBSET {"SMOKE_FAILURE"} :
          /\ gate' \in GateRecs /\ gate'.pc = "recheck" /\ gate'.changes = gate.changes
          /\ gate'.found = gate.found \cup new
    <3>1. ASSUME Go("recheck")
          PROVE  /\ gate' \in GateRecs /\ gate'.pc = "recheck"
                 /\ gate'.changes = gate.changes /\ gate'.found = gate.found \cup {}
                 /\ {} \in SUBSET {"SMOKE_FAILURE"}
      BY <1>t, <3>1, GoIs DEF Stages, Judging
    <3>2. ASSUME NEW codes \in SmokeFindings, Find(codes, "recheck")
          PROVE  /\ gate' \in GateRecs /\ gate'.pc = "recheck"
                 /\ gate'.changes = gate.changes /\ gate'.found = gate.found \cup codes
                 /\ codes \in SUBSET {"SMOKE_FAILURE"}
      BY <1>t, <3>2, FindIs DEF Stages, Judging, SmokeFindings, Codes
    <3> QED
      BY <1>5, <3>1, <3>2 DEF Smoke
  <2>3. Cleared'
    BY <1>t, <1>s, <2>1, <2>2 DEF Cleared, Judging, Contents
  <2>4. Blamed'
    BY <1>t, <1>u, <1>c, <1>s, <2>1, <2>2 DEF Blamed, Judging, Contents
  <2> QED
    BY <1>g, <2>1, <2>2, <2>3, <2>4 DEF Judging
<1>6. ASSUME Recheck PROVE GatesInv'
  <2>1. /\ UNCHANGED <<world, receipts>> /\ gate.pc = "recheck" /\ gate.found = {}
        /\ Go("issue")
    BY <1>6 DEF Recheck
  <2>2. /\ gate' \in GateRecs /\ gate'.pc = "issue" /\ gate'.changes = gate.changes
        /\ gate'.found = {}
    BY <1>t, <2>1, GoIs DEF Stages
  <2>3. GatesTypeOK' /\ Undisturbed' /\ Blamed' /\ NoSecretIsRepaired'
    BY <1>t, <1>u, <2>1, <2>2
       DEF GatesTypeOK, Undisturbed, Blamed, Judging, NoSecretIsRepaired
  <2>4. Candidate'
    BY <1>t, <1>u, <1>s, <1>a, <2>1, <2>2 DEF Candidate, Judging
  <2>5. Cleared'
    BY <1>t, <1>s, <2>1, <2>2 DEF Cleared, Judging, Contents
  <2>6. Custody'
    BY <1>t, <1>u, <1>s, <2>1, <2>2 DEF Custody, ReceiptsAreClean, Running, Receipted
  <2> QED
    BY <2>3, <2>4, <2>5, <2>6 DEF GatesInv
<1>7. ASSUME Issue PROVE GatesInv'
  <2>1. /\ gate.pc = "issue" /\ gate.found = {} /\ Go("accepted")
        /\ world' = [world EXCEPT !.receipt = "intact"]
        /\ receipts' = receipts \cup {Receipt}
    BY <1>7, <1>t DEF Issue, Cleared
  <2>2. gate' \in GateRecs /\ gate'.pc = "accepted"
    BY <1>t, <2>1, GoIs DEF Stages, Receipted
  <2>3. /\ world' \in Worlds /\ world'.clean = world.clean /\ world'.frozen = world.frozen
        /\ world'.head = world.head /\ world'.patch = world.patch
    BY <1>t, <2>1 DEF Worlds
  <2>4. GatesTypeOK' /\ Undisturbed' /\ Cleared' /\ Blamed' /\ NoSecretIsRepaired'
    BY <1>t, <1>u, <2>2, <2>3
       DEF GatesTypeOK, Undisturbed, Cleared, Blamed, Judging, NoSecretIsRepaired
  <2>5. Candidate'
    BY <1>t, <1>u, <1>s, <1>a, <2>1, <2>2 DEF Candidate, Judging
  <2>6. IsLegal(cand.commit)
    <3>1. /\ Changed(0, cand.commit) \subseteq Authorized
          /\ \A p \in Changed(0, cand.commit) :
                TreeAt(cand.commit)[p] \notin {"unparsable", "misfit", "forbidden", "secret"}
      BY <1>t, <2>1 DEF Cleared, Judging, Inspected, SourcesAre
    <3>2. TreeAt(cand.commit) \in Trees
      <4>1. cand.commit \in 1..Len(commits) /\ commits \in Seq(CommitRecs)
        BY <1>t, <1>a, <2>1 DEF Candidate, Judging, GatesTypeOK
      <4>2. commits[cand.commit] \in CommitRecs
        BY <4>1, ElementOfSeq
      <4> QED
        BY <4>1, <4>2 DEF TreeAt, CommitRecs
    <3>3. \A p \in Paths \ Changed(0, cand.commit) : TreeAt(cand.commit)[p] = "parent"
      BY DEF Changed, TreeAt
    <3> QED
      BY <3>1, <3>2, <3>3 DEF IsLegal, Trees, Contents
  <2>7. Custody'
    <3>1. /\ Receipt.commit = cand.commit /\ Receipt.cumulative = Diff(0, cand.commit)
          /\ Receipt.attempt = cand.attempt /\ cand.commit \in 1..Len(commits)
      BY <1>t, <1>a, <2>1 DEF Receipt, Candidate, Judging
    <3> HIDE DEF Receipt
    <3>2. \A r \in receipts : r.commit \in Nat
      BY <1>t DEF Custody
    <3> QED
      BY <1>t, <1>u, <1>s, <1>c, <2>1, <2>2, <2>6, <3>1, <3>2
         DEF Custody, ReceiptsAreClean, Running
  <2> QED
    BY <2>4, <2>5, <2>7 DEF GatesInv
<1>8. ASSUME Reject PROVE GatesInv'
  <2>1. UNCHANGED <<world, receipts>> /\ gate.pc = "recheck"
    BY <1>8 DEF Reject
  <2>2. /\ gate' \in GateRecs /\ gate'.pc \in {"restart", "stopped", "code"}
        /\ gate'.pc = "code" => "SECRET_DETECTED" \notin gate.found
    <3> DEFINE all == IF gate.found = {} THEN {"DIFF_MISMATCH"} ELSE gate.found
    <3>1. all \in SUBSET Codes /\ Find(all, RouteOf(all))
      BY <1>t, <1>8 DEF Reject, GateRecs, Codes
    <3>2. gate.found \subseteq all
      OBVIOUS
    <3>3. "SECRET_DETECTED" \in all => RouteOf(all) # "code"
      BY DEF RouteOf, Abandoned
    <3> HIDE DEF all
    <3> QED
      BY <1>t, <3>1, <3>2, <3>3, RoutesLeave, FindIs DEF Stages
  <2>3. GatesTypeOK' /\ Undisturbed' /\ Cleared' /\ Blamed'
    BY <1>t, <1>u, <2>1, <2>2 DEF GatesTypeOK, Undisturbed, Cleared, Blamed, Judging
  <2>4. Candidate'
    BY <1>t, <1>u, <1>s, <1>a, <2>1, <2>2 DEF Candidate, Judging
  <2>5. Custody'
    BY <1>t, <1>s, <2>1, <2>2 DEF Custody, ReceiptsAreClean, Running, Receipted
  <2>6. NoSecretIsRepaired'
    <3>1. ASSUME meddled = 0, "SECRET_DETECTED" \notin gate.found PROVE ~Secret(cand.commit)
      <4>1. \A p \in Changed(0, cand.commit) : TreeAt(cand.commit)[p] # "secret"
        BY <1>t, <2>1, <3>1 DEF Blamed, Judging, SourcesAre, Inspected
      <4>2. \A p \in Paths \ Changed(0, cand.commit) : TreeAt(cand.commit)[p] = "parent"
        BY DEF Changed, TreeAt
      <4> QED
        BY <4>1, <4>2 DEF Secret
    <3> QED
      BY <1>u, <1>s, <1>c, <2>2, <3>1 DEF NoSecretIsRepaired, Judging
  <2> QED
    BY <2>3, <2>4, <2>5, <2>6 DEF GatesInv
<1> QED
  BY <1>1, <1>2, <1>3, <1>4, <1>5, <1>6, <1>7, <1>8 DEF GateA

\* Runs, Gate B and the evaluation leave the candidate and the receipts alone.
LEMMA RunsKeep ==
    ASSUME GatesInv, Execution \/ GateB
    PROVE  GatesInv'
<1> USE DEF At
<1>t. /\ GatesTypeOK /\ Candidate /\ Undisturbed /\ Cleared /\ Blamed /\ Custody
      /\ gate \in GateRecs /\ cand \in Cands /\ world \in Worlds /\ exec \in Execs
  BY DEF GatesInv, GatesTypeOK
<1>1. /\ UNCHANGED <<commits, cand, receipts, meddled>>
      /\ gate.pc \in Receipted
      /\ gate'.pc \in Receipted \cup {"code", "restart", "stopped"}
      /\ gate' \in GateRecs
  <2>1. PICK pc \in Receipted \cup {"code", "restart", "stopped"} : Then(pc)
    BY RoutesLeave
       DEF Execution, GateB, VerifySeal, Launch, VerifySealAgain, Fail, Capture, WriteSeal,
           Resolve, Unseal, Score, Again, Receipted, Running
  <2>2. gate.pc \in Receipted
    BY DEF Execution, GateB, VerifySeal, Launch, VerifySealAgain, Fail, Capture, WriteSeal,
           Resolve, Unseal, Score, Again, Receipted, Running
  <2> QED
    BY <1>t, <2>1, <2>2, GoIs DEF Then, Stages
<1>2. /\ exec' \in Execs /\ world' \in Worlds /\ world'.clean = world.clean
      /\ world'.frozen = world.frozen /\ world'.head = world.head
      /\ world'.patch = world.patch
  <2>1. CASE \E is \in Outputs : Capture(is)
    <3>1. PICK is \in Outputs : Capture(is)
      BY <2>1
    <3> DEFINE out == [run |-> exec.runs, commit |-> cand.commit, is |-> is]
    <3>2. out \in OutputRecs
      BY <1>t DEF Execs, Cands, OutputRecs
    <3>3. exec' = [exec EXCEPT !.ref = out] /\ world' = [world EXCEPT !.output = out]
      BY <3>1 DEF Capture
    <3> HIDE DEF out
    <3> QED
      BY <1>t, <3>2, <3>3 DEF Execs, Worlds
  <2>4. CASE WriteSeal
    <3> DEFINE seal == [run |-> exec.runs, commit |-> cand.commit,
                        attempt |-> cand.attempt, bytes |-> exec.ref]
    <3>1. seal \in SealRecs
      BY <1>t DEF Execs, Cands, SealRecs
    <3>2. world' = [world EXCEPT !.seal = seal] /\ UNCHANGED exec
      BY <2>4 DEF WriteSeal
    <3> HIDE DEF seal
    <3> QED
      BY <1>t, <3>1, <3>2 DEF Worlds
  <2>2. CASE VerifySeal
    BY <1>t, <2>2 DEF VerifySeal, Execs
  <2>3. CASE Score
    BY <1>t, <2>3 DEF Score, Execs, Worlds
  <2> QED
    BY <1>t, <2>1, <2>2, <2>3, <2>4
       DEF Execution, GateB, Launch, VerifySealAgain, Fail, Resolve, Unseal, Again
<1>3. GatesTypeOK' /\ Undisturbed' /\ Cleared' /\ Blamed'
  BY <1>t, <1>1, <1>2
     DEF GatesTypeOK, Undisturbed, Cleared, Blamed, Judging, Running, Receipted
<1>4. Candidate'
  <2>1. Rooted' /\ BaseOf(cand.commit)' = BaseOf(cand.commit) /\ Len(commits)' = Len(commits)
    BY <1>t, <1>1, SameCommits
  <2>2. cand.attempt # 0
    BY <1>t, <1>1 DEF Candidate, Running, Receipted
  <2> QED
    BY <1>t, <1>1, <2>1, <2>2 DEF Candidate
<1>5. Custody'
  <2>1. (\A r \in receipts : r.commit \in 1..Len(commits))' /\ ReceiptsAreClean'
    BY <1>t, <1>1, SameCommits DEF Custody, ReceiptsAreClean
  <2>2. ASSUME gate'.pc \in Running \cup {"captured"}
        PROVE  /\ exec'.ref.run = exec'.runs /\ exec'.ref.commit = cand.commit
               /\ exec'.ref.is \in Outputs
               /\ gate'.pc = "checked" => exec'.ref.is = "sound"
    <3>1. CASE \E is \in Outputs : Capture(is)
      <4>1. PICK is \in Outputs : Capture(is)
        BY <3>1
      <4>2. /\ exec'.ref = [run |-> exec.runs, commit |-> cand.commit, is |-> is]
            /\ exec'.runs = exec.runs /\ Then("captured")
        BY <1>t, <4>1 DEF Capture, Execs
      <4>3. gate'.pc = "captured"
        BY <1>t, <4>2, GoIs DEF Then, Stages, Receipted
      <4> QED
        BY <4>2, <4>3
    <3>2. CASE WriteSeal \/ Resolve
      <4>1. gate'.pc # "checked" /\ UNCHANGED exec
        BY <1>t, <3>2, GoIs, RoutesLeave
           DEF WriteSeal, Resolve, Then, Stages, Running, Receipted
      <4>2. gate.pc \in Running \cup {"captured"}
        BY <3>2 DEF WriteSeal, Resolve, Running
      <4> QED
        BY <1>t, <4>1, <4>2 DEF Custody
    <3>3. CASE Unseal
      <4> DEFINE all == Finding("OUTPUT_PRODUCER_MISMATCH", SealNames)
                          \cup TypeFindings \cup IdentityFindings \cup ScoreFindings
      <4>1. all = {}
        BY <1>t, <2>2, <3>3, GoIs, RoutesLeave DEF Unseal, Then, Stages, Running, Receipted
      <4>2. exec.ref.is \notin {"malformed", "misaligned", "degenerate"}
        BY <4>1 DEF TypeFindings, IdentityFindings, ScoreFindings, Finding
      <4> QED
        BY <1>t, <3>3, <4>2 DEF Unseal, Custody, Running, Outputs
    <3>4. CASE VerifySeal \/ Launch \/ VerifySealAgain \/ Fail \/ Score \/ Again
      BY <1>t, <2>2, <3>4, GoIs
         DEF VerifySeal, Launch, VerifySealAgain, Fail, Score, Again, Then, Stages, Running,
             Receipted
    <3> QED
      BY <3>1, <3>2, <3>3, <3>4 DEF Execution, GateB
  <2> QED
    BY <1>t, <1>1, <2>1, <2>2 DEF Custody, Running
\* What is sent back for repair had a receipt, so it is legal.
<1>6. NoSecretIsRepaired'
  <2>1. PICK r \in receipts : r.commit = cand.commit
    BY <1>t, <1>1 DEF Custody
  <2>2. ~Secret(cand.commit) /\ cand.commit \in Nat
    BY <1>t, <2>1 DEF Custody, ReceiptsAreClean, IsLegal, Secret, Cands
  <2>3. Secret(cand.commit)' = Secret(cand.commit)
    BY <1>t, <1>1, <2>2, SameCommits
  <2> QED
    BY <1>1, <2>2, <2>3 DEF NoSecretIsRepaired, Judging, Receipted, Running
<1> QED
  BY <1>3, <1>4, <1>5, <1>6 DEF GatesInv

\* Whoever else touches the files changes nothing that the receipts speak of.
LEMMA MeddlingKeeps ==
    ASSUME GatesInv, Meddle
    PROVE  GatesInv'
<1>t. /\ GatesTypeOK /\ Candidate /\ Cleared /\ Custody /\ world \in Worlds /\ meddled \in Nat
      /\ Len(commits) \in Nat
  BY LenProperties DEF GatesInv, GatesTypeOK
<1>1. meddled' \in Nat /\ meddled' # 0 /\ UNCHANGED <<commits, cand, gate, receipts, exec>>
  BY <1>t DEF Meddle
<1>2. world' \in Worlds
  <2>1. CASE \E c \in (0..Len(commits)) \ {world.head} : world' = [world EXCEPT !.head = c]
    BY <1>t, <2>1 DEF Worlds
  <2>2. CASE world' = [world EXCEPT !.clean = ~@]
    BY <1>t, <2>2 DEF Worlds
  <2>3. CASE world' = [world EXCEPT !.frozen = ~@]
    BY <1>t, <2>3 DEF Worlds
  <2>4. CASE \/ world' = [world EXCEPT !.patch = "changed"]
             \/ world' = [world EXCEPT !.receipt = "changed"]
    BY <1>t, <2>4 DEF Worlds
  <2>5. Other \in OutputRecs
    BY DEF Other, OutputRecs, Outputs
  <2>6. CASE world' = [world EXCEPT !.output = Other]
    BY <1>t, <2>5, <2>6 DEF Worlds
  <2>7. CASE world' = [world EXCEPT !.seal.bytes = Other]
    <3> DEFINE s == [world.seal EXCEPT !.bytes = Other]
    <3>1. s \in SealRecs
      BY <1>t, <2>5 DEF Worlds, SealRecs
    <3>2. world' = [world EXCEPT !.seal = s]
      BY <1>t, <2>7 DEF Worlds
    <3> HIDE DEF s
    <3> QED
      BY <1>t, <3>1, <3>2 DEF Worlds
  <2> QED
    BY <2>1, <2>2, <2>3, <2>4, <2>6, <2>7 DEF Meddle
<1>3. GatesTypeOK' /\ Undisturbed' /\ Blamed' /\ NoSecretIsRepaired'
  BY <1>t, <1>1, <1>2 DEF GatesTypeOK, Undisturbed, Blamed, NoSecretIsRepaired
<1>4. Candidate' /\ Cleared' /\ Custody'
  <2>1. Candidate' /\ Custody'
    BY <1>t, <1>1, SameCommits DEF Candidate, Custody, ReceiptsAreClean
  <2>2. Cleared'
    BY <1>t, <1>1 DEF Cleared, Inspected, Changed, TreeAt, SourcesAre
  <2> QED
    BY <2>1, <2>2
<1> QED
  BY <1>3, <1>4 DEF GatesInv

\* Every step of the coding worker, the gates, the runs and of others keeps it.
THEOREM GatesStep == GatesInv /\ [Next]_gvars => GatesInv'
<1>1. ASSUME GatesInv, UNCHANGED gvars PROVE GatesInv'
  <2>1. UNCHANGED <<commits, world, cand, gate, receipts, exec, meddled>>
    BY <1>1 DEF gvars
  <2>2. GatesTypeOK' /\ Undisturbed'
    BY <1>1, <2>1 DEF GatesInv, GatesTypeOK, Undisturbed
  <2>3. Candidate' /\ Custody'
    BY <1>1, <2>1, SameCommits DEF GatesInv, Candidate, Custody, ReceiptsAreClean
  <2>4. Cleared' /\ Blamed' /\ NoSecretIsRepaired'
    BY <1>1, <2>1
       DEF GatesInv, Cleared, Blamed, Inspected, Changed, TreeAt, SourcesAre, IsLegal,
           NoSecretIsRepaired, Secret
  <2> QED
    BY <2>2, <2>3, <2>4 DEF GatesInv
<1> QED
  BY <1>1, ProposeKeeps, GateAKeeps, RunsKeep, MeddlingKeeps DEF Next

-----------------------------------------------------------------------------
(***************************************************************************)
(* Around a use of the worktree.  A part that has not moved since it was   *)
(* verified is still the candidate's; one that has not moved since the use *)
(* is as it was used.  The second verification joins the two.              *)
(***************************************************************************)
UsedOK == used = [tree |-> used.tree, before |-> used.before, after |-> used.after]
Good(p) == world[p] = CleanCandidate[p]

\* Where a part has been verified for the use to come.
VerifiedAt(p) ==
    gate.pc = "sealed" \/ (gate.found = {} /\ gate.pc \in (IF p = "frozen"
                               THEN {"sources", "smoke"}
                               ELSE {"diff", "policy", "sources", "smoke"}))
InUse == gate.pc = "running" \/ (gate.pc = "recheck" /\ gate.found = {})
Vouched == {"issue", "ended", "captured"} \cup Running

Bracketed(p) ==
    /\ VerifiedAt(p) /\ p \notin used.before => Good(p)
    /\ InUse =>
          /\ p \notin used.before => used.tree[p] = CleanCandidate[p]
          /\ p \notin used.after => used.tree[p] = world[p]
    /\ gate.pc \in Vouched /\ used.tree[p] # CleanCandidate[p] =>
          p \in used.before \cap used.after

BracketInv == UsedOK /\ \A p \in Parts : Bracketed(p)

\* A verification that holds finds every part the candidate's.
LEMMA VerifiedIsGood ==
    ASSUME world \in Worlds, world.clean, world.head = cand.commit
    PROVE  /\ Good("head") /\ Good("clean")
           /\ world.frozen => Good("frozen")
BY DEF Worlds, Good, CleanCandidate

\* Steps that neither touch nor use the worktree keep the bracket, as long as they lead
\* to no place where more is said of it.
LEMMA QuietKeeps ==
    ASSUME BracketInv, UNCHANGED <<used, cand>>,
           UNCHANGED <<world.head, world.clean, world.frozen>>,
           \A p \in Parts : VerifiedAt(p)' => VerifiedAt(p) \/ Good(p),
           InUse' => InUse, gate'.pc \in Vouched => gate.pc \in Vouched
    PROVE  BracketInv'
BY DEF BracketInv, UsedOK, Bracketed, Good, Parts, CleanCandidate

\* Nothing is said of the last use where an attempt or a run has ended or not begun.
LEMMA ElsewhereKeeps ==
    ASSUME UsedOK', gate'.pc \notin Vouched \cup {"diff", "policy", "sources", "smoke",
                                                 "recheck", "sealed", "running"}
    PROVE  BracketInv'
BY DEF BracketInv, Bracketed, VerifiedAt, InUse

\* A use finds what was verified, except for the parts that have moved since.
LEMMA UseKeeps ==
    ASSUME UsedOK, Use, UNCHANGED <<world, cand>>,
           \A p \in Parts : Bracketed(p) /\ VerifiedAt(p),
           gate'.pc \in {"recheck", "running"}
    PROVE  BracketInv'
<1>1. /\ used'.tree = Worktree /\ used'.after = {} /\ used'.before = used.before /\ UsedOK'
  BY DEF UsedOK, Use
<1>2. \A p \in Parts : used'.tree[p] = world[p] /\ CleanCandidate[p]' = CleanCandidate[p]
  BY <1>1 DEF Worktree, CleanCandidate
<1> QED
  BY <1>1, <1>2 DEF BracketInv, Bracketed, VerifiedAt, InUse, Vouched, Running, Good

\* After the second verification only what moved on both sides of the use may differ.
LEMMA VouchKeeps ==
    ASSUME BracketInv, InUse, UNCHANGED <<used, world, cand>>, \A p \in Parts : Good(p),
           gate'.pc \in {"issue", "ended"}
    PROVE  BracketInv'
BY DEF BracketInv, UsedOK, Bracketed, VerifiedAt, InUse, Good, CleanCandidate

\* Gate A verifies, smokes and verifies again.
LEMMA GateABrackets ==
    ASSUME GatesInv, BracketInv, GateA
    PROVE  BracketInv'
<1> USE DEF At
<1>t. /\ gate \in GateRecs /\ world \in Worlds /\ UsedOK /\ UNCHANGED cand
  BY DEF GatesInv, GatesTypeOK, BracketInv, GateA, VerifyState, CheckDiff, CheckPolicy,
         CheckSources, Smoke, Recheck, Issue, Reject
<1>1. ASSUME VerifyState PROVE BracketInv'
  <2>1. UNCHANGED <<used, world>> /\ gate.pc = "state"
    BY <1>1 DEF VerifyState
  <2>2. /\ gate'.pc = "diff"
        /\ gate'.found = {} => StateHolds
    <3>1. CASE StateHolds /\ gate' = [gate EXCEPT !.pc = "diff", !.changes = Inspected]
      BY <1>t, <3>1 DEF GateRecs
    <3>2. CASE ~StateHolds /\ Find({"DIFF_MISMATCH"}, "diff")
      BY <1>t, <3>2, FindIs DEF Codes, Stages, Judging
    <3> QED
      BY <1>1, <3>1, <3>2 DEF VerifyState
  <2>3. \A p \in Parts : VerifiedAt(p)' => Good(p)
    BY <1>t, <2>2, VerifiedIsGood DEF VerifiedAt, StateHolds, Parts
  <2> QED
    BY <1>t, <2>1, <2>2, <2>3, QuietKeeps DEF InUse, Vouched, Running
<1>2. ASSUME CheckDiff \/ CheckSources PROVE BracketInv'
  <2>1. UNCHANGED <<used, world>> /\ gate.pc \in {"diff", "sources"}
    BY <1>2 DEF CheckDiff, CheckSources
  <2>2. /\ gate'.pc = IF gate.pc = "diff" THEN "policy" ELSE "smoke"
        /\ gate'.found = {} => gate.found = {}
    <3>1. ASSUME NEW codes, NEW pc, Find(codes, pc)
          PROVE  gate'.pc = pc /\ (gate'.found = {} => gate.found = {})
      BY <1>t, <3>1 DEF Find, GateRecs
    <3> QED
      BY <1>2, <3>1 DEF CheckDiff, CheckSources
  <2> QED
    BY <1>t, <2>1, <2>2, QuietKeeps DEF VerifiedAt, InUse, Vouched, Running
<1>3. ASSUME CheckPolicy PROVE BracketInv'
  <2>1. /\ UNCHANGED world /\ gate.pc = "policy"
        /\ used' = [used EXCEPT !.before = @ \ {"frozen"}]
    BY <1>3 DEF CheckPolicy
  <2>2. /\ gate'.pc = "sources"
        /\ gate'.found = {} => gate.found = {} /\ world.frozen
    <3>1. ASSUME NEW codes, NEW pc, Find(codes, pc)
          PROVE  gate'.pc = pc /\ (gate'.found = {} => gate.found = {} /\ codes = {})
      BY <1>t, <3>1 DEF Find, GateRecs
    <3> QED
      BY <1>3, <3>1 DEF CheckPolicy, Finding, ProtectedHolds
  <2>3. /\ UsedOK' /\ used'.before = used.before \ {"frozen"}
    BY <1>t, <2>1 DEF UsedOK
  <2>4. ASSUME NEW p \in Parts, VerifiedAt(p)', p \notin used'.before PROVE Good(p)'
    <3>1. CASE p = "frozen"
      BY <1>t, <2>1, <2>2, <2>4, <3>1 DEF VerifiedAt, Good, CleanCandidate
    <3>2. CASE p # "frozen"
      <4>1. VerifiedAt(p) /\ p \notin used.before
        BY <2>1, <2>2, <2>3, <2>4, <3>2 DEF VerifiedAt
      <4> QED
        BY <1>t, <2>1, <4>1 DEF BracketInv, Bracketed, Good, CleanCandidate
    <3> QED
      BY <3>1, <3>2
  <2> QED
    BY <2>2, <2>3, <2>4 DEF BracketInv, Bracketed, InUse, Vouched, Running
<1>4. ASSUME Smoke PROVE BracketInv'
  <2>1. UNCHANGED world /\ gate.pc = "smoke"
    BY <1>4 DEF Smoke
  <2>2. CASE gate.found = {} /\ Use /\ \E codes \in SmokeFindings : Find(codes, "recheck")
    <3>1. gate'.pc = "recheck"
      BY <1>t, <2>2 DEF Find, GateRecs
    <3>2. \A p \in Parts : Bracketed(p) /\ VerifiedAt(p)
      BY <2>1, <2>2 DEF BracketInv, VerifiedAt
    <3> QED
      BY <1>t, <2>1, <2>2, <3>1, <3>2, UseKeeps
  <2>3. CASE gate.found # {} /\ Go("recheck") /\ UNCHANGED used
    <3>1. gate'.pc = "recheck" /\ gate'.found # {}
      BY <1>t, <2>3 DEF Go, GateRecs
    <3> QED
      BY <1>t, <2>1, <2>3, <3>1, QuietKeeps DEF VerifiedAt, InUse, Vouched, Running
  <2> QED
    BY <1>4, <2>2, <2>3 DEF Smoke
<1>5. ASSUME Recheck PROVE BracketInv'
  <2>1. /\ UNCHANGED <<used, world>> /\ InUse /\ Rechecked /\ gate'.pc = "issue"
    BY <1>t, <1>5 DEF Recheck, InUse, Go, GateRecs
  <2>2. \A p \in Parts : Good(p)
    BY <1>t, <2>1, VerifiedIsGood DEF Rechecked, StateHolds, ProtectedHolds, Parts
  <2> QED
    BY <1>t, <2>1, <2>2, VouchKeeps
<1>6. ASSUME Issue PROVE BracketInv'
  <2>1. UsedOK' /\ gate'.pc = "accepted"
    BY <1>t, <1>6 DEF Issue, UsedOK, Untouched, Go, GateRecs
  <2> QED
    BY <2>1, ElsewhereKeeps DEF Vouched, Running
<1>7. ASSUME Reject PROVE BracketInv'
  <2>1. UsedOK' /\ gate'.pc \in {"restart", "stopped", "code"}
    BY <1>t, <1>7, RoutesLeave DEF Reject, UsedOK, Untouched, Find, GateRecs
  <2> QED
    BY <2>1, ElsewhereKeeps DEF Vouched, Running
<1> QED
  BY <1>1, <1>2, <1>3, <1>4, <1>5, <1>6, <1>7 DEF GateA

\* The seal is verified before and after a run; what is scored comes later.
LEMMA RunsBracket ==
    ASSUME GatesInv, BracketInv, Execution \/ GateB
    PROVE  BracketInv'
<1> USE DEF At
<1>t. /\ gate \in GateRecs /\ world \in Worlds /\ UsedOK /\ UNCHANGED cand
      /\ \A pc : Go(pc) => gate'.pc = pc
  BY DEF GatesInv, GatesTypeOK, BracketInv, Execution, VerifySeal, Launch, VerifySealAgain,
         Fail, Capture, WriteSeal, GateB, Resolve, Unseal, Score, Again, Then, Go, GateRecs
<1>1. SealHolds => \A p \in Parts : Good(p)
  BY <1>t, VerifiedIsGood DEF SealHolds, ProtectedHolds, Parts
<1>2. ASSUME VerifySeal PROVE BracketInv'
  <2>1. UNCHANGED <<used, world>> /\ gate.pc = "accepted"
    BY <1>2 DEF VerifySeal
  <2>2. \/ gate'.pc = "sealed" /\ SealHolds
        \/ gate'.pc = "code"
    BY <1>t, <1>2 DEF VerifySeal, Then
  <2>3. \A p \in Parts : VerifiedAt(p)' => Good(p)
    BY <1>1, <2>2 DEF VerifiedAt
  <2> QED
    BY <1>t, <2>1, <2>2, <2>3, QuietKeeps DEF InUse, Vouched, Running
<1>3. ASSUME Launch PROVE BracketInv'
  <2>1. Use /\ UNCHANGED world /\ gate.pc = "sealed" /\ gate'.pc = "running"
    BY <1>t, <1>3 DEF Launch, Then
  <2> QED
    BY <1>t, <2>1, UseKeeps DEF BracketInv, VerifiedAt
<1>4. ASSUME VerifySealAgain PROVE BracketInv'
  <2>1. UNCHANGED <<used, world>> /\ gate.pc = "running" /\ gate'.pc = "ended" /\ SealHolds
    BY <1>t, <1>4 DEF VerifySealAgain, Then
  <2> QED
    BY <1>t, <1>1, <2>1, VouchKeeps DEF InUse
<1>5. ASSUME Fail \/ Score PROVE BracketInv'
  <2>1. UsedOK' /\ gate'.pc \in {"accepted", "code", "scored", "stopped"}
    BY <1>t, <1>5 DEF Fail, Score, Then, UsedOK, Untouched
  <2> QED
    BY <2>1, ElsewhereKeeps DEF Vouched, Running
<1>6. ASSUME (\E is \in Outputs : Capture(is)) \/ WriteSeal PROVE BracketInv'
  <2>1. /\ UNCHANGED used /\ UNCHANGED <<world.head, world.clean, world.frozen>>
        /\ gate.pc \in {"ended", "captured"} /\ gate'.pc \in {"captured", "resolve"}
    BY <1>t, <1>6 DEF Capture, WriteSeal, Then, Worlds
  <2> QED
    BY <1>t, <2>1, QuietKeeps DEF VerifiedAt, InUse, Vouched, Running
<1>7. ASSUME Resolve \/ Unseal \/ Again PROVE BracketInv'
  <2>1. /\ UNCHANGED <<used, world>> /\ gate.pc \in {"resolve", "unseal", "scored"}
        /\ \/ gate'.pc \in {"unseal", "checked"} /\ gate.pc \in Vouched
           \/ gate'.pc \in {"restart", "stopped", "code", "accepted"}
    BY <1>t, <1>7, RoutesLeave DEF Resolve, Unseal, Again, Then, Vouched, Running
  <2> QED
    BY <1>t, <2>1, QuietKeeps DEF VerifiedAt, InUse, Vouched, Running
<1> QED
  BY <1>2, <1>3, <1>4, <1>5, <1>6, <1>7 DEF Execution, GateB

\* A part that moves is remembered on its side of the use, and the others stay.
LEMMA MeddlingBrackets ==
    ASSUME GatesInv, BracketInv, Meddle
    PROVE  BracketInv'
<1>t. /\ world \in Worlds /\ UsedOK /\ UNCHANGED <<cand, gate>>
  BY DEF GatesInv, GatesTypeOK, BracketInv, Meddle
<1>1. ASSUME NEW q \in Parts, Moves(q),
             \A p \in Parts \ {q} : world'[p] = world[p]
      PROVE  BracketInv'
  <2>1. /\ UsedOK' /\ used'.tree = used.tree
        /\ used'.before = IF gate.pc \in {"diff", "policy", "sources", "smoke", "sealed"}
                          THEN used.before \cup {q} ELSE used.before
        /\ used'.after = IF gate.pc \in {"recheck", "running"}
                         THEN used.after \cup {q} ELSE used.after
    BY <1>t, <1>1 DEF Moves, UsedOK
  <2>2. \A p \in Parts : /\ VerifiedAt(p)' <=> VerifiedAt(p)
                         /\ CleanCandidate[p]' = CleanCandidate[p]
    BY <1>t DEF VerifiedAt, CleanCandidate
  <2>3. ASSUME NEW p \in Parts PROVE Bracketed(p)'
    <3>0. Bracketed(p)
      BY DEF BracketInv
    <3>1. VerifiedAt(p)' /\ p \notin used'.before => Good(p)'
      BY <1>1, <2>1, <2>2, <3>0 DEF Bracketed, Good, VerifiedAt
    <3>2. InUse' => /\ p \notin used'.before => used'.tree[p] = CleanCandidate[p]'
                    /\ p \notin used'.after => used'.tree[p] = world'[p]
      BY <1>t, <1>1, <2>1, <2>2, <3>0 DEF Bracketed, InUse
    <3>3. gate'.pc \in Vouched /\ used'.tree[p] # CleanCandidate[p]' =>
             p \in used'.before \cap used'.after
      BY <1>t, <2>1, <2>2, <3>0 DEF Bracketed
    <3> QED
      BY <3>1, <3>2, <3>3 DEF Bracketed
  <2> QED
    BY <2>1, <2>3 DEF BracketInv
<1>2. ASSUME UNCHANGED used, UNCHANGED <<world.head, world.clean, world.frozen>>
      PROVE  BracketInv'
  BY <1>t, <1>2, QuietKeeps DEF VerifiedAt, InUse
<1>3. CASE /\ \E c \in (0..Len(commits)) \ {world.head} : world' = [world EXCEPT !.head = c]
           /\ Moves("head")
  BY <1>t, <1>1, <1>3 DEF Worlds, Parts
<1>4. CASE world' = [world EXCEPT !.clean = ~@] /\ Moves("clean")
  BY <1>t, <1>1, <1>4 DEF Worlds, Parts
<1>5. CASE world' = [world EXCEPT !.frozen = ~@] /\ Moves("frozen")
  BY <1>t, <1>1, <1>5 DEF Worlds, Parts
<1>6. CASE /\ \/ world' = [world EXCEPT !.patch = "changed"]
              \/ world' = [world EXCEPT !.receipt = "changed"]
              \/ world' = [world EXCEPT !.output = Other]
              \/ world' = [world EXCEPT !.seal.bytes = Other]
           /\ UNCHANGED used
  BY <1>t, <1>2, <1>6 DEF Worlds
<1> QED
  BY <1>3, <1>4, <1>5, <1>6 DEF Meddle

\* Every step of the coding worker, the gates, the runs and of others keeps it.
THEOREM BracketStep == GatesInv /\ BracketInv /\ [Next]_gvars => BracketInv'
<1>1. ASSUME BracketInv, UNCHANGED gvars PROVE BracketInv'
  BY <1>1, QuietKeeps DEF gvars, VerifiedAt, InUse
<1>2. ASSUME NEW base \in 0..Len(commits), NEW t \in Trees, Propose(base, t)
      PROVE  BracketInv'
  <2>1. UsedOK' /\ gate'.pc = "state"
    BY <1>2 DEF Propose, UsedOK, Untouched
  <2> QED
    BY <2>1, ElsewhereKeeps DEF Vouched, Running
<1> QED
  BY <1>1, <1>2, GateABrackets, RunsBracket, MeddlingBrackets DEF Next

-----------------------------------------------------------------------------
(***************************************************************************)
(* What follows.                                                           *)
(***************************************************************************)
\* A receipt stands for everything its experiment changed since the approved parent:
\* no chain of attempts, each harmless against the one before, gets a receipt for an
\* unauthorized path or a rejected source (patch_gate.py).
THEOREM ReceiptsAreCleanTheorem == Spec => []ReceiptsAreClean
<1>1. GatesInv => ReceiptsAreClean
  BY DEF GatesInv, Custody
<1> QED
  BY <1>1, GatesInit, GatesStep, PTL DEF Spec

\* The worktree is verified, used and verified again; a receipt or a score is made of it
\* only later.  Whatever was changed, and whenever, what was used differs from the
\* candidate's clean commit over frozen content only in a part that was changed after the
\* first verification and changed again before the second (patch_gate.py, runner.py).
THEOREM UsedTreesAreVerifiedTheorem == Spec => UsedTreesAreVerified
<1>1. Init => BracketInv
  BY DEF Init, BracketInv, UsedOK, Untouched, Bracketed, VerifiedAt, InUse, Vouched, Running
<1>2. ASSUME GatesInv, BracketInv, [Next]_gvars,
             receipts' # receipts \/ exec'.scored # exec.scored
      PROVE  \A p \in Parts :
                 used.tree[p] # CleanCandidate[p] => p \in used.before \cap used.after
  <2>t. exec \in Execs
    BY <1>2 DEF GatesInv, GatesTypeOK
  <2>1. gate.pc \in {"issue", "checked"}
    BY <1>2, <2>t
       DEF Next, gvars, Propose, GateA, VerifyState, CheckDiff, CheckPolicy, CheckSources,
           Smoke, Recheck, Issue, Reject, Execution, VerifySeal, Launch, VerifySealAgain, Fail,
           Capture, WriteSeal, GateB, Resolve, Unseal, Score, Again, Meddle, Then, Execs, At
  <2> QED
    BY <1>2, <2>1 DEF BracketInv, Bracketed, Vouched, Running
<1> QED
  BY <1>1, <1>2, GatesInit, GatesStep, BracketStep, PTL DEF Spec, UsedTreesAreVerified

\* What is scored was produced by the latest run of a receipted commit and was found
\* sound by Gate B; a file replaced after its check is never scored (live.py).
THEOREM ScoredIsSealedTheorem == Spec => ScoredIsSealed
<1>1. ASSUME GatesInv, [Next]_gvars, exec'.scored # exec.scored
      PROVE  /\ exec'.scored.is = "sound" /\ exec'.scored.run = exec.runs
             /\ \E r \in receipts : /\ r.commit = exec'.scored.commit
                                    /\ r.attempt = cand.attempt
  <2>t. Custody /\ exec \in Execs
    BY <1>1 DEF GatesInv, GatesTypeOK
  <2>1. gate.pc = "checked" /\ exec'.scored = exec.ref
    BY <1>1, <2>t
       DEF Next, gvars, Propose, GateA, VerifyState, CheckDiff, CheckPolicy, CheckSources,
           Smoke, Recheck, Issue, Reject, Execution, VerifySeal, Launch, VerifySealAgain, Fail,
           Capture, WriteSeal, GateB, Resolve, Unseal, Score, SameAsChecked, Again, Meddle,
           Execs, At
  <2> QED
    BY <2>t, <2>1 DEF Custody, Running, Receipted
<1> QED
  BY <1>1, GatesInit, GatesStep, PTL DEF Spec, ScoredIsSealed

\* The gate rejects no legal candidate: unless something meddles or the smoke test
\* fails, a rejection finds a path or a source at fault, on first attempts, repairs of
\* rejected candidates and restarts alike (patch_gate.py).
THEOREM LegalCandidatesPassTheorem == Spec => LegalCandidatesPass
<1>1. ASSUME GatesInv, Reject, meddled = 0, "SMOKE_FAILURE" \notin gate.found
      PROVE  ~IsLegal(cand.commit)
  <2>1. gate.pc = "recheck" /\ (gate.found = {} => ~Rechecked)
    BY <1>1 DEF Reject, At
  <2>2. cand.attempt \in Nat \ {0}
    BY <1>1, <2>1 DEF GatesInv, GatesTypeOK, Cands, Candidate
  <2>3. Rechecked
    BY <1>1, <2>2
       DEF GatesInv, Undisturbed, Candidate, Rooted, Rechecked, StateHolds, RootIsLegal,
           ProtectedHolds
  <2> QED
    BY <1>1, <2>1, <2>3 DEF GatesInv, Blamed, Judging
<1> QED
  BY <1>1, GatesInit, GatesStep, PTL DEF Spec, LegalCandidatesPass
=============================================================================
