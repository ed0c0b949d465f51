--------------------------- MODULE CampaignProofs ---------------------------
(***************************************************************************)
(* Proofs about Campaign and the search policy: for any playbook that has  *)
(* the named cards, any width, budget and patience, any gains and any      *)
(* evidence.                                                               *)
(***************************************************************************)
EXTENDS Campaign, FiniteSetTheorems, SequenceTheorems, TLAPS

Fidelities == {"none", "proxy", "full"}
VerdictsGiven ==
    {"none", "accepted", "negative", "inconclusive", "suspicious", "no_op"}
Stabilities == {"none", "single_seed", "confirmed", "unstable", "not_applicable"}
Integrities == {"none", "clean", "inconclusive", "compromised"}
Trades == {"none", "gauc_up", "ndcg_up", "both_up"}
Decisions == {"open", "promote", "accept", "reject", "prune", "invalid"}
Statuses == {"open", "accepted", "rejected", "pruned", "invalid", "no_op"}

Summaries ==
    [parent : Nat, method : Methods, comps : SUBSET Nat,
     fidelity : Fidelities, verdict : VerdictsGiven, stability : Stabilities,
     integrity : Integrities, output : {"none", "accepted", "rejected"},
     delta : Int, seeds : Seq(Int), trade : Trades, diverse : BOOLEAN,
     decision : Decisions, status : Statuses, bestOk : BOOLEAN]

\* An accepted experiment has two seeds: it has a mean and a last score.
Scored(g, i) == i = 0 \/ (i \in Ids(g) /\ Len(g[i].seeds) = 2)
History(g) ==
    /\ g \in Seq(Summaries)
    /\ \A i \in Ids(g) : g[i].parent < i
    /\ \A i \in Ids(g) : g[i].decision = "accept" => Scored(g, i)

----------------------------------------------------------------------------
(* The order of experiments.                                               *)

\* A set of naturals that is not empty has a least member.
LEMMA LeastNumber ==
  ASSUME NEW S \in SUBSET Nat, S # {}
  PROVE  \E n \in S : \A m \in S : n <= m
<1>1. PICK n \in S : \A m \in S : ~(<<m, n>> \in OpToRel(<, Nat))
  BY NatLessThanWellFounded, WFMin
<1>2. \A m \in S : ~(m < n)
  BY <1>1 DEF OpToRel
<1> QED
  BY <1>2

\* The children of an experiment are finitely many.
LEMMA ChildrenAreFinite ==
  ASSUME NEW g, g \in Seq(Summaries), NEW p
  PROVE  IsFiniteSet(Children(g, p)) /\ Cardinality(Children(g, p)) \in Nat
<1>1. Len(g) \in Nat /\ Ids(g) = 1 .. Len(g)
  BY DEF Ids
<1>2. IsFiniteSet(1 .. Len(g))
  BY <1>1, FS_Interval
<1>3. Children(g, p) \subseteq 1 .. Len(g)
  BY DEF Children, Ids
<1> QED
  BY <1>2, <1>3, FS_Subset, FS_CardinalityType

\* Whatever can be a parent has a score.
LEMMA ScoresAreNumbers ==
  ASSUME NEW g, History(g), NEW i, Scored(g, i)
  PROVE  ScoreOf(g, i) \in Int /\ i \in Nat
<1>1. CASE i = 0
  BY <1>1 DEF ScoreOf
<1>2. CASE i # 0
  <2>1. i \in Ids(g) /\ Len(g[i].seeds) = 2 /\ g[i] \in Summaries
    BY <1>2 DEF Scored, History, Ids
  <2>2. g[i].seeds \in Seq(Int)
    BY <2>1 DEF Summaries
  <2>3. g[i].seeds[1] \in Int /\ g[i].seeds[2] \in Int
    BY <2>1, <2>2
  <2>4. g \in Seq(Summaries)
    BY DEF History
  <2> QED
    BY <1>2, <2>1, <2>3, <2>4 DEF ScoreOf, Mean2, Ids
<1> QED
  BY <1>1, <1>2

\* _best_parent compares by a strict total order.
LEMMA StrongerIsTotal ==
  ASSUME NEW g, History(g), NEW i, NEW j, Scored(g, i), Scored(g, j), i # j
  PROVE  (Stronger(g, i, j) \/ Stronger(g, j, i)) /\ ~Stronger(g, i, i)
<1>1. /\ ScoreOf(g, i) \in Int /\ ScoreOf(g, j) \in Int /\ i \in Nat /\ j \in Nat
      /\ Cardinality(Children(g, i)) \in Nat /\ Cardinality(Children(g, j)) \in Nat
  BY ScoresAreNumbers, ChildrenAreFinite DEF History
<1> QED
  BY <1>1 DEF Stronger

\* It is transitive.
LEMMA StrongerIsTransitive ==
  ASSUME NEW g, History(g), NEW i, NEW j, NEW k,
         Scored(g, i), Scored(g, j), Scored(g, k),
         Stronger(g, i, j), Stronger(g, j, k)
  PROVE  Stronger(g, i, k)
<1>1. /\ ScoreOf(g, i) \in Int /\ ScoreOf(g, j) \in Int /\ ScoreOf(g, k) \in Int
      /\ i \in Nat /\ j \in Nat /\ k \in Nat
      /\ Cardinality(Children(g, i)) \in Nat /\ Cardinality(Children(g, j)) \in Nat
      /\ Cardinality(Children(g, k)) \in Nat
  BY ScoresAreNumbers, ChildrenAreFinite DEF History
<1> QED
  BY <1>1 DEF Stronger

\* _best_parent takes a member of what it is given: the one that fewest beat.
LEMMA BestParentIsAMember ==
  ASSUME NEW g, History(g), NEW E, E # {}, \A i \in E : Scored(g, i)
  PROVE  BestParent(g, E) \in E
<1> DEFINE Beaters(i) == {j \in E : Stronger(g, j, i)}
           rank(i) == Cardinality(Beaters(i))
<1>1. IsFiniteSet(E)
  <2>1. Len(g) \in Nat /\ g \in Seq(Summaries)
    BY DEF History
  <2>2. E \subseteq 0 .. Len(g)
    BY <2>1 DEF Scored, Ids
  <2>3. IsFiniteSet(0 .. Len(g))
    BY <2>1, FS_Interval
  <2> QED
    BY <2>2, <2>3, FS_Subset
<1>2. \A i : IsFiniteSet(Beaters(i)) /\ rank(i) \in Nat
  BY <1>1, FS_Subset, FS_CardinalityType
<1>3. PICK i \in E : \A j \in E : rank(i) <= rank(j)
  <2> DEFINE S == {rank(i) : i \in E}
  <2>1. S \in SUBSET Nat /\ S # {}
    BY <1>2
  <2>2. PICK n \in S : \A m \in S : n <= m
    <3> HIDE DEF S
    <3> QED
      BY <2>1, LeastNumber
  <2> QED
    BY <2>2
<1>4. \A j \in E \ {i} : Stronger(g, i, j)
  <2> SUFFICES ASSUME NEW j \in E, j # i, ~Stronger(g, i, j) PROVE FALSE
    OBVIOUS
  <2>1. Stronger(g, j, i) /\ ~Stronger(g, j, j)
    BY StrongerIsTotal
  <2>2. Beaters(j) \subseteq Beaters(i)
    BY <2>1, StrongerIsTransitive
  <2>3. j \in Beaters(i) /\ j \notin Beaters(j)
    BY <2>1
  <2>4. rank(j) < rank(i)
    <3> HIDE DEF Beaters
    <3> QED
      BY <1>2, <2>2, <2>3, FS_Subset
  <2>5. rank(i) <= rank(j) /\ rank(i) \in Nat /\ rank(j) \in Nat
    BY <1>2, <1>3
  <2> HIDE DEF rank
  <2> QED
    BY <2>4, <2>5
<1> QED
  BY <1>4 DEF BestParent

----------------------------------------------------------------------------
(* What the policy offers.                                                 *)

\* A choice as every route makes it: a parent and components that are admitted,
\* a card whose prerequisites are met, and components for ensembles alone.
SoundChoice(g, c) ==
    /\ ParentAdmitted(g, c)
    /\ FamilyOf(c.method) \in Families
    /\ c.method \in Legal(g, FamilyOf(c.method))
    /\ c.comps # {} => FamilyOf(c.method) = "ensemble"
    /\ c.phase = "no_op_reimplementation" => c.comps = {}
    /\ c.comps \subseteq Ids(g)
    /\ \A i \in c.comps : ComponentAdmitted(g, c, i)
    /\ c.phase # "parallel_round"

\* A card belongs to one family.
LEMMA FamilyOfACard ==
  ASSUME NEW f \in Families, NEW m \in Cards(f)
  PROVE  FamilyOf(m) = f
<1>1. \A e \in Families : m \in Cards(e) => e = f
  BY SearchAssumption
<1> QED
  BY <1>1 DEF FamilyOf

\* A card of the playbook is legal for its family when it is legal at all.
LEMMA LegalCards ==
  ASSUME NEW g, NEW f \in Families, NEW m \in Legal(g, f)
  PROVE  FamilyOf(m) = f /\ m \in Methods
<1>1. m \in Cards(f)
  BY DEF Legal
<1> QED
  BY <1>1, FamilyOfACard DEF Methods

\* The family of a method of the playbook.
LEMMA FamilyOfAMethod ==
  ASSUME NEW m \in Methods
  PROVE  FamilyOf(m) \in Families /\ m \in Cards(FamilyOf(m))
<1>1. PICK f \in Families : m \in Cards(f)
  BY DEF Methods
<1> QED
  BY <1>1, FamilyOfACard

\* The frontier holds the baseline and experiments with scores.
LEMMA FrontierIsScored ==
  ASSUME NEW g, History(g)
  PROVE  /\ 0 \in Frontier(g) /\ \A i \in Frontier(g) : Scored(g, i)
         /\ BestParent(g, Frontier(g)) \in Frontier(g)
         /\ BestExperimental(g) \in Frontier(g)
         /\ LatestParent(g) \in Frontier(g)
<1>1. 0 \in Frontier(g) /\ \A i \in Frontier(g) : Scored(g, i)
  BY DEF Frontier, History, Scored
<1>2. BestParent(g, Frontier(g)) \in Frontier(g)
  BY <1>1, BestParentIsAMember
<1>3. BestExperimental(g) \in Frontier(g)
  <2> DEFINE E == IF Frontier(g) = {0} THEN {0} ELSE Frontier(g) \ {0}
  <2>1. E # {} /\ E \subseteq Frontier(g) /\ \A i \in E : Scored(g, i)
    BY <1>1
  <2>2. BestParent(g, E) \in E
    <3> HIDE DEF E
    <3> QED
      BY <2>1, BestParentIsAMember
  <2> QED
    BY <2>1, <2>2 DEF BestExperimental
<1> QED
  BY <1>1, <1>2, <1>3 DEF LatestParent

\* A single card from a parent of the frontier is a sound choice.
LEMMA SingleCardsAreSound ==
  ASSUME NEW g, History(g), NEW p \in Frontier(g), NEW f \in Families,
         NEW cards, cards \subseteq Legal(g, f),
         NEW phase, phase # "parallel_round"
  PROVE  \A c \in FirstOf(cards, p, phase) : SoundChoice(g, c)
<1> SUFFICES ASSUME NEW m \in First(cards)
             PROVE  SoundChoice(g, Choice(p, m, {}, phase))
  BY DEF FirstOf
<1>1. m \in Legal(g, f)
  BY DEF First
<1>2. FamilyOf(m) = f
  BY <1>1, LegalCards
<1> QED
  BY <1>1, <1>2 DEF SoundChoice, Choice, ParentAdmitted

\* So is the first untried card of a family.
LEMMA FirstCardsAreSound ==
  ASSUME NEW g, History(g), NEW p \in Frontier(g), NEW f \in Families,
         NEW phase, phase # "parallel_round"
  PROVE  \A c \in Next1(g, f, p, phase) : SoundChoice(g, c)
<1>1. Untried(g, f, p) \subseteq Legal(g, f)
  BY DEF Untried
<1>2. \A c \in FirstOf(Untried(g, f, p), p, phase) : SoundChoice(g, c)
  BY <1>1, SingleCardsAreSound
<1> QED
  BY <1>2 DEF Next1

\* So are those of the independent families.
LEMMA IndependentChoicesAreSound ==
  ASSUME NEW g, History(g), NEW p \in Frontier(g), NEW f
  PROVE  \A c \in AllIndependent(g, f, p) \cup FirstIndependent(g, f, p) :
             SoundChoice(g, c)
<1>1. \A e \in Independent(g, f, p) : \A c \in Next1(g, e, p, "playbook") :
          SoundChoice(g, c)
  BY FirstCardsAreSound DEF Independent
<1> QED
  BY <1>1 DEF AllIndependent, FirstIndependent

\* So is one named card, from the parent that the rule names.
LEMMA PreferredCardsAreSound ==
  ASSUME NEW g, History(g), NEW p, NEW m \in Methods, NEW comps, NEW phase,
         phase \notin {"parallel_round", "no_op_reimplementation"},
         ParentAdmitted(g, Choice(p, m, comps, phase)),
         comps # {} => FamilyOf(m) = "ensemble", comps \subseteq Ids(g),
         \A i \in comps : ComponentAdmitted(g, Choice(p, m, comps, phase), i)
  PROVE  \A c \in Preferred(g, m, p, comps, phase) : SoundChoice(g, c)
<1> SUFFICES ASSUME m \in Untried(g, FamilyOf(m), p)
             PROVE  SoundChoice(g, Choice(p, m, comps, phase))
  BY DEF Preferred
<1>1. m \in Legal(g, FamilyOf(m)) /\ FamilyOf(m) \in Families
  BY FamilyOfAMethod DEF Untried
<1>2. /\ Choice(p, m, comps, phase).method = m
      /\ Choice(p, m, comps, phase).comps = comps
      /\ Choice(p, m, comps, phase).phase = phase
  BY DEF Choice
<1> QED
  BY <1>1, <1>2 DEF SoundChoice

\* A rule that deepens a mechanism from the frontier names no components.
LEMMA DeepenedCardsAreSound ==
  ASSUME NEW g, History(g), NEW p \in Frontier(g), NEW m \in Methods
  PROVE  \A c \in Preferred(g, m, p, {}, "playbook") : SoundChoice(g, c)
<1>1. ParentAdmitted(g, Choice(p, m, {}, "playbook"))
  BY DEF ParentAdmitted, Choice
<1> QED
  BY <1>1, PreferredCardsAreSound

\* The named cards and their families.
LEMMA NamedCards ==
  /\ "objective" \in Families /\ "ensemble" \in Families
  /\ "pairwise" \in Methods /\ "listwise" \in Methods
  /\ "residual" \in Methods /\ FamilyOf("residual") = "ensemble"
  /\ "zblend" \in Methods /\ FamilyOf("zblend") = "ensemble"
  /\ "synthesis" \in Methods /\ FamilyOf("synthesis") = "ensemble"
  /\ "synthesis" \in Cards("ensemble")
<1>1. /\ "objective" \in Families /\ "ensemble" \in Families
      /\ "pairwise" \in Cards("objective") /\ "listwise" \in Cards("objective")
      /\ "residual" \in Cards("ensemble") /\ "zblend" \in Cards("ensemble")
      /\ "synthesis" \in Cards("ensemble")
  BY SearchAssumption
<1>2. /\ FamilyOf("residual") = "ensemble" /\ FamilyOf("zblend") = "ensemble"
      /\ FamilyOf("synthesis") = "ensemble"
  BY <1>1, FamilyOfACard
<1> QED
  BY <1>1, <1>2 DEF Methods

\* The latest summary is one of the history's.
LEMMA LatestSummary ==
  ASSUME NEW g, History(g), g # <<>>
  PROVE  /\ Len(g) \in Ids(g) /\ Last(g) = g[Len(g)] /\ Last(g) \in Summaries
         /\ Last(g).method \in Methods
<1>1. g \in Seq(Summaries) /\ Len(g) \in Nat /\ Len(g) # 0
  BY DEF History
<1>2. Len(g) \in Ids(g) /\ g[Len(g)] \in Summaries
  BY <1>1 DEF Ids
<1> QED
  BY <1>2 DEF Last, Summaries

\* _soft_prune_choice: the refinement of the latest, or a blend with it.
LEMMA SoftPruneIsSound ==
  ASSUME NEW g, History(g), g # <<>>
  PROVE  \A c \in SoftPrune(g) : SoundChoice(g, c)
<1> DEFINE n == Len(g)
           p == BestParent(g, Frontier(g))
<1>1. n \in Ids(g) /\ n # 0
  BY LatestSummary DEF Ids
<1>2. p \in Frontier(g)
  BY FrontierIsScored
<1>3. ASSUME RefinementEligible(g, n)
      PROVE  \A c \in Preferred(g, "listwise", n, {}, "refinement") : SoundChoice(g, c)
  <2>1. ParentAdmitted(g, Choice(n, "listwise", {}, "refinement"))
    BY <1>1, <1>3 DEF ParentAdmitted, Choice
  <2> QED
    BY <2>1, NamedCards, PreferredCardsAreSound
<1>4. ASSUME EnsembleEligible(g[n])
      PROVE  \A c \in Preferred(g, "residual", p, {n}, "ensemble") : SoundChoice(g, c)
  <2>1. n \notin Frontier(g)
    BY <1>1, <1>4 DEF EnsembleEligible, Soft, Frontier
  <2> DEFINE c == Choice(p, "residual", {n}, "ensemble")
  <2>2. c.parent = p /\ c.method = "residual" /\ c.comps = {n}
    BY DEF Choice
  <2>3. ParentAdmitted(g, c)
    BY <1>2, <2>2 DEF ParentAdmitted
  <2>4. ComponentAdmitted(g, c, n)
    BY <1>2, <1>4, <2>1, <2>2 DEF ComponentAdmitted
  <2> QED
    BY <1>1, <2>3, <2>4, NamedCards, PreferredCardsAreSound
<1> QED
  BY <1>3, <1>4 DEF SoftPrune

\* So is what a rule takes when there is no such choice.
LEMMA SoftOrIndependentIsSound ==
  ASSUME NEW g, History(g), g # <<>>
  PROVE  \A c \in SoftOrIndependent(g) : SoundChoice(g, c)
BY SoftPruneIsSound, FrontierIsScored, IndependentChoicesAreSound
   DEF SoftOrIndependent

\* _same_family_refinement_choice.
LEMMA SameFamilyIsSound ==
  ASSUME NEW g, History(g), NEW p \in Frontier(g)
  PROVE  \A c \in SameFamily(g, p) : SoundChoice(g, c)
<1> SUFFICES ASSUME p # 0 PROVE \A c \in SameFamily(g, p) : SoundChoice(g, c)
  BY DEF SameFamily
<1> DEFINE f == FamilyOf(g[p].method)
           left == Untried(g, f, p) \ {"residual"}
           other == left \ {g[p].method}
           cards == IF other # {} THEN other ELSE left
<1>1. g[p].method \in Methods
  <2>1. p \in Ids(g) /\ g \in Seq(Summaries)
    BY DEF Frontier, History
  <2>2. g[p] \in Summaries
    BY <2>1 DEF Ids
  <2> QED
    BY <2>2 DEF Summaries
<1>2. f \in Families
  BY <1>1, FamilyOfAMethod
<1>3. cards \subseteq Legal(g, f)
  BY DEF Untried
<1>4. \A c \in FirstOf(cards, p, "playbook") : SoundChoice(g, c)
  <2> HIDE DEF f, cards
  <2> QED
    BY <1>2, <1>3, SingleCardsAreSound
<1> QED
  BY <1>4 DEF SameFamily

\* The rules on a clean and full result.
LEMMA ResultRouteIsSound ==
  ASSUME NEW g, History(g), g # <<>>
  PROVE  \A c \in ResultRoute(g) : SoundChoice(g, c)
<1> DEFINE p == LatestParent(g)
           strong == BestExperimental(g)
<1>1. p \in Frontier(g) /\ strong \in Frontier(g) /\ Last(g).method \in Methods
  BY FrontierIsScored, LatestSummary
<1> HIDE DEF p, strong
<1>2. \A m \in Methods : \A c \in Preferred(g, m, p, {}, "playbook") : SoundChoice(g, c)
  BY <1>1, DeepenedCardsAreSound
<1>3. \A c \in SameFamily(g, strong) : SoundChoice(g, c)
  BY <1>1, SameFamilyIsSound
<1>4. \A f : \A c \in FirstIndependent(g, f, strong) : SoundChoice(g, c)
  BY <1>1, IndependentChoicesAreSound
<1> QED
  BY <1>1, <1>2, <1>3, <1>4, NamedCards DEF ResultRoute, p, strong

\* _playbook_choice as a whole.
LEMMA PlaybookRouteIsSound ==
  ASSUME NEW g, History(g), g # <<>>
  PROVE  \A c \in PlaybookRoute(g) : SoundChoice(g, c)
<1>1. \A c \in FirstIndependent(g, FamilyOf(Last(g).method), BestExperimental(g)) :
          SoundChoice(g, c)
  BY FrontierIsScored, IndependentChoicesAreSound
<1> QED
  BY <1>1, SoftOrIndependentIsSound, ResultRouteIsSound DEF PlaybookRoute

\* _no_op_choices: another mechanism, or the same one once more.
LEMMA NoOpChoicesAreSound ==
  ASSUME NEW g, History(g), g # <<>>
  PROVE  \A c \in NoOpChoices(g) : SoundChoice(g, c)
<1> DEFINE l == Last(g)
           f == FamilyOf(l.method)
           again == Choice(l.parent, l.method, {}, "no_op_reimplementation")
<1>1. \A c \in AllIndependent(g, f, BestExperimental(g)) : SoundChoice(g, c)
  BY FrontierIsScored, IndependentChoicesAreSound
<1>2. ASSUME l.parent \in Frontier(g), l.method \in Legal(g, f)
      PROVE  SoundChoice(g, again)
  <2>1. f \in Families
    BY LatestSummary, FamilyOfAMethod
  <2> QED
    BY <1>2, <2>1 DEF SoundChoice, ParentAdmitted, Choice
<1> QED
  BY <1>1, <1>2 DEF NoOpChoices

\* The first choices: blends of a frontier node, or its first untried card.
LEMMA DepthFirstIsSound ==
  ASSUME NEW g, History(g)
  PROVE  \A c \in DepthFirst(g) : SoundChoice(g, c)
<1> SUFFICES ASSUME NEW p \in Frontier(g), NEW f \in Families
             PROVE  /\ \A c \in Next1(g, f, p, "depth") : SoundChoice(g, c)
                    /\ \A c \in Blend(g, p) : SoundChoice(g, c)
  <2>1. \A p \in DepthFirstFrontier(g) : p \in Frontier(g)
    BY DEF DepthFirstFrontier
  <2>2. \A p \in Frontier(g) : \A c \in DepthChoices(g, p) : SoundChoice(g, c)
    BY DEF DepthChoices
  <2> QED
    BY <2>1, <2>2 DEF DepthFirst
<1>1. \A c \in Next1(g, f, p, "depth") : SoundChoice(g, c)
  BY FirstCardsAreSound
<1>2. \A c \in Blend(g, p) : SoundChoice(g, c)
  <2> DEFINE members == Frontier(g) \ {0, p}
             two == {i \in members : Cardinality({j \in members : j < i}) < 2}
             c == Choice(p, "zblend", two, "ensemble")
  <2>1. two \subseteq Ids(g) /\ \A i \in two : i \in Frontier(g) /\ i # p
    BY DEF Frontier
  <2> HIDE DEF two
  <2>2. c.parent = p /\ c.method = "zblend" /\ c.comps = two
    BY DEF Choice
  <2>3. ParentAdmitted(g, c) /\ \A i \in two : ComponentAdmitted(g, c, i)
    BY <2>1, <2>2 DEF ParentAdmitted, ComponentAdmitted
  <2>4. \A d \in Preferred(g, "zblend", p, two, "ensemble") : SoundChoice(g, d)
    BY <2>1, <2>3, NamedCards, PreferredCardsAreSound
  <2> QED
    BY <2>4 DEF Blend, two
<1> QED
  BY <1>1, <1>2

\* Whatever is offered is sound: nothing the policy names is refused for its
\* parent, its card or its components, but for an ensemble that names none.
LEMMA ChoicesAreSound ==
  ASSUME NEW g, History(g)
  PROVE  \A c \in Choose(g) : SoundChoice(g, c)
BY DepthFirstIsSound, NoOpChoicesAreSound, PlaybookRouteIsSound DEF Choose

----------------------------------------------------------------------------
(* The inductive invariant.                                                *)

TypeOK ==
    /\ width \in Nat \ {0} /\ h \in Seq(Summaries) /\ best \in 0 .. Len(h)
    /\ pressure \in [incumbent : Int, count : Nat]
    /\ round \in [members : SUBSET Ids(h), start : Int, parallel : BOOLEAN,
                  broken : SUBSET Nat]
    /\ status \in {"planning", "running", "refused", "stopped", "planning_failure"}

\* The score an experiment is compared with, of any history.
ScoreIn(g, i) == IF i = 0 THEN 0 ELSE LastOf(g[i].seeds)

\* What one summary says of itself: s was branched from a parent of score ref.
Coherent(s, ref) ==
    /\ s.status = "accepted" <=> s.decision = "accept"
    /\ s.decision = "accept" =>
           /\ Len(s.seeds) = RequiredSeeds /\ s.integrity = "clean"
           /\ Mean2(s.seeds) > 2 * ref
    /\ s.bestOk => s.decision = "accept" /\ s.verdict = "accepted"
    /\ s.status = "no_op" => s.verdict = "no_op"
    /\ s.status = "open" => s.decision \in {"open", "promote"}
    /\ s.status = "open" /\ s.decision = "promote" /\ s.verdict # "no_op" =>
           Len(s.seeds) < RequiredSeeds
    /\ s.trade # "none" => s.method = "pairwise"
    /\ s.comps # {} => FamilyOf(s.method) = "ensemble"

Closed(g, i) == g[i].status # "open"

\* A parent is an earlier experiment, and over by the time it is branched from.
SummariesCohere ==
    \A i \in Ids(h) :
        /\ h[i].parent < i /\ Coherent(h[i], ScoreIn(h, h[i].parent))
        /\ h[i].parent # 0 => Closed(h, h[i].parent)

\* Nothing is open but the lanes of the round, and nothing branches from them.
RoundsAreApart ==
    /\ status \in {"planning", "refused"} => \A i \in Ids(h) : Closed(h, i)
    /\ status = "running" =>
           \A i \in Ids(h) : /\ i \in round.members \/ Closed(h, i)
                             /\ h[i].parent \notin round.members

BestIsAccepted == best = 0 \/ h[best].status = "accepted"

\* A mechanism is tried again as it was only after a no-op of it.
RepeatsFollowNoOps ==
    \A i, j \in Ids(h) : i < j /\ Key(h[i]) = Key(h[j]) =>
        \E k \in 1 .. j - 1 : /\ h[k].verdict = "no_op" /\ Closed(h, k)
                              /\ SameMechanism(h[k], h[j])

CampaignInv ==
    /\ TypeOK /\ SummariesCohere /\ RoundsAreApart /\ BestIsAccepted
    /\ RepeatsFollowNoOps /\ BestNearIncumbent /\ BranchesRestOnEvidence

----------------------------------------------------------------------------
(* Steps of a lane.                                                        *)

\* The summaries of a coherent search are a history of the policy's.
LEMMA SearchIsAHistory ==
  ASSUME TypeOK, SummariesCohere
  PROVE  History(h)
<1>1. ASSUME NEW i \in Ids(h), h[i].decision = "accept" PROVE Scored(h, i)
  BY <1>1 DEF SummariesCohere, Coherent, Scored, RequiredSeeds
<1> QED
  BY <1>1 DEF History, TypeOK, SummariesCohere

\* The score of a closed experiment, of the baseline or of one with a seed.
LEMMA ReferencesAreNumbers ==
  ASSUME TypeOK, NEW i \in 0 .. Len(h), i = 0 \/ h[i].seeds # <<>>
  PROVE  RefScore(i) \in Int /\ RefScore(i) = ScoreIn(h, i)
<1>1. CASE i = 0
  BY <1>1 DEF RefScore, ScoreIn
<1>2. CASE i # 0
  <2>1. h \in Seq(Summaries) /\ i \in 1 .. Len(h)
    BY <1>2 DEF TypeOK
  <2>2. h[i] \in Summaries
    BY <2>1
  <2>3. h[i].seeds \in Seq(Int) /\ h[i].seeds # <<>>
    BY <1>2, <2>2 DEF Summaries
  <2>4. h[i].seeds[Len(h[i].seeds)] \in Int
    BY <2>3
  <2> QED
    BY <1>2, <2>4 DEF RefScore, ScoreIn, LastOf
<1> QED
  BY <1>1, <1>2

\* A parent is the baseline or an earlier experiment that is over.
LEMMA ParentsAreEarlier ==
  ASSUME TypeOK, SummariesCohere, NEW j \in Ids(h)
  PROVE  /\ h[j].parent \in 0 .. Len(h) /\ h[j].parent < j /\ h[j] \in Summaries
         /\ h[j].parent # 0 => h[j].parent \in Ids(h) /\ Closed(h, h[j].parent)
<1>1. h \in Seq(Summaries) /\ Ids(h) = 1 .. Len(h) /\ Len(h) \in Nat
  BY DEF TypeOK, Ids
<1>2. h[j] \in Summaries /\ j \in Nat /\ j <= Len(h)
  BY <1>1
<1>3. h[j].parent \in Nat
  BY <1>2 DEF Summaries
<1>4. h[j].parent < j /\ (h[j].parent # 0 => Closed(h, h[j].parent))
  BY DEF SummariesCohere
<1> QED
  BY <1>1, <1>2, <1>3, <1>4

\* The best has a score.
LEMMA BestHasAScore ==
  ASSUME TypeOK, SummariesCohere, BestIsAccepted
  PROVE  RefScore(best) \in Int
<1>1. CASE best # 0
  <2>1. best \in Ids(h) /\ h[best].decision = "accept"
    BY <1>1 DEF TypeOK, SummariesCohere, BestIsAccepted, Coherent, Ids
  <2>2. Len(h[best].seeds) = 2
    BY <2>1 DEF SummariesCohere, Coherent, RequiredSeeds
  <2>3. h[best].seeds # <<>>
    BY <2>2
  <2> QED
    BY <2>3, ReferencesAreNumbers DEF TypeOK
<1> QED
  BY <1>1, ReferencesAreNumbers DEF TypeOK

\* A lane's summary is replaced by a coherent one of the same plan, and the
\* best is kept or becomes this lane: everything else stands as it was.
LEMMA LaneStep ==
  ASSUME CampaignInv, NEW i \in Ids(h), Open(i), NEW t \in Summaries,
         h' = [h EXCEPT ![i] = t],
         t.parent = h[i].parent, t.method = h[i].method, t.comps = h[i].comps,
         Coherent(t, ScoreIn(h, h[i].parent)),
         best' = best \/ (best' = i /\ t.status = "accepted"),
         pressure' \in [incumbent : Int, count : Nat],
         (IF best' = i THEN LastOf(t.seeds) ELSE RefScore(best))
             <= pressure'.incumbent + Epsilon,
         width' = width, status' = status, NEW b \in SUBSET Nat,
         round' = [round EXCEPT !.broken = b]
  PROVE  CampaignInv'
<1> USE DEF CampaignInv
<1>1. /\ h \in Seq(Summaries) /\ Ids(h) = 1 .. Len(h) /\ i \in 1 .. Len(h)
      /\ h[i].status = "open" /\ status = "running" /\ i \in round.members
  BY DEF TypeOK, Ids, Open
<1>2. /\ h' \in Seq(Summaries) /\ Len(h') = Len(h) /\ h'[i] = t
      /\ \A j \in 1 .. Len(h) : j # i => h'[j] = h[j]
  BY <1>1
<1>3. Ids(h)' = Ids(h) /\ Ids(h') = Ids(h)
  BY <1>2 DEF Ids
<1>4. /\ \A j \in Ids(h) : h'[j].parent = h[j].parent /\ Key(h'[j]) = Key(h[j])
      /\ \A j \in Ids(h) : h'[j].method = h[j].method
      /\ \A j \in Ids(h) : h[j].parent # i
      /\ \A j \in Ids(h) : Closed(h, j) => h'[j] = h[j]
      /\ round'.members = round.members
  <2>1. \A j \in Ids(h) : h[j].parent # 0 => Closed(h, h[j].parent)
    BY DEF SummariesCohere
  <2> QED
    BY <1>1, <1>2, <2>1 DEF Closed, Key, Ids, TypeOK
<1>5. TypeOK'
  BY <1>1, <1>2, <1>3 DEF TypeOK
<1>6. \A j \in Ids(h) : ScoreIn(h', h[j].parent) = ScoreIn(h, h[j].parent)
  <2> SUFFICES ASSUME NEW j \in Ids(h), h[j].parent # 0
               PROVE  h'[h[j].parent] = h[h[j].parent]
    BY DEF ScoreIn
  <2> QED
    BY <1>4, ParentsAreEarlier
<1>7. SummariesCohere'
  <2> SUFFICES ASSUME NEW j \in Ids(h)
               PROVE  /\ h'[j].parent < j
                      /\ Coherent(h'[j], ScoreIn(h', h'[j].parent))
                      /\ h'[j].parent # 0 => Closed(h', h'[j].parent)
    BY <1>3 DEF SummariesCohere
  <2>1. h[j].parent < j /\ Coherent(h[j], ScoreIn(h, h[j].parent))
    BY DEF SummariesCohere
  <2>2. Coherent(h'[j], ScoreIn(h', h'[j].parent))
    <3>1. ScoreIn(h', h'[j].parent) = ScoreIn(h, h[j].parent)
      BY <1>4, <1>6
    <3>2. CASE j = i
      BY <1>2, <3>1, <3>2
    <3>3. CASE j # i
      BY <1>1, <1>2, <2>1, <3>1, <3>3
    <3> QED
      BY <3>2, <3>3
  <2>3. h'[j].parent # 0 => Closed(h', h'[j].parent)
    <3> SUFFICES ASSUME h[j].parent # 0 PROVE Closed(h', h[j].parent)
      BY <1>4
    <3>1. Closed(h, h[j].parent) /\ h[j].parent \in Ids(h)
      BY ParentsAreEarlier
    <3> QED
      BY <1>4, <3>1 DEF Closed
  <2> QED
    BY <1>4, <2>1, <2>2, <2>3
<1>8. RoundsAreApart'
  BY <1>1, <1>3, <1>4 DEF RoundsAreApart, Closed
<1>9. BestIsAccepted'
  <2>1. CASE best' = i
    BY <1>1, <1>2, <2>1 DEF BestIsAccepted
  <2>2. CASE best' = best /\ best # 0 /\ best # i
    BY <1>1, <1>2, <2>2 DEF BestIsAccepted, TypeOK
  <2> QED
    BY <1>1, <2>1, <2>2 DEF BestIsAccepted
<1>10. RepeatsFollowNoOps'
  <2> SUFFICES ASSUME NEW a \in Ids(h), NEW c \in Ids(h), a < c, Key(h'[a]) = Key(h'[c])
               PROVE  \E k \in 1 .. c - 1 : /\ h'[k].verdict = "no_op" /\ Closed(h', k)
                                            /\ SameMechanism(h'[k], h'[c])
    BY <1>3 DEF RepeatsFollowNoOps
  <2>1. Key(h[a]) = Key(h[c])
    BY <1>4
  <2>2. PICK k \in 1 .. c - 1 : /\ h[k].verdict = "no_op" /\ Closed(h, k)
                                /\ SameMechanism(h[k], h[c])
    BY <2>1 DEF RepeatsFollowNoOps
  <2>3. k \in Ids(h) /\ h'[k] = h[k]
    BY <1>1, <1>4, <2>2
  <2> QED
    BY <1>4, <2>2, <2>3 DEF Closed, SameMechanism
<1>11. BestNearIncumbent'
  <2>1. CASE best' = i
    BY <1>1, <1>2, <2>1 DEF BestNearIncumbent, RefScore
  <2>2. CASE best' # i
    <3>1. best' = best /\ RefScore(best)' = RefScore(best)
      BY <1>1, <1>2, <2>2 DEF RefScore, TypeOK
    <3> QED
      BY <2>2, <3>1 DEF BestNearIncumbent
  <2> QED
    BY <2>1, <2>2
<1>12. BranchesRestOnEvidence'
  <2> SUFFICES ASSUME NEW j \in Ids(h), h'[j].parent # 0
               PROVE  LET p == h'[j].parent
                      IN  IF h'[p].decision = "accept"
                          THEN /\ Len(h'[p].seeds) = RequiredSeeds
                               /\ h'[p].integrity = "clean"
                               /\ Mean2(h'[p].seeds) > 2 * ScoreIn(h', h'[p].parent)
                          ELSE /\ h'[p].method = "pairwise" /\ TradeOff(h'[p])
                               /\ h'[p].status \in {"pruned", "rejected"}
                               /\ Children(h', p) = {j}
    BY <1>3 DEF BranchesRestOnEvidence, RefScore, ScoreIn
  <2> DEFINE p == h[j].parent
  <2>1. h'[j].parent = p /\ p # 0
    BY <1>4
  <2>2. p \in Ids(h) /\ Closed(h, p)
    BY <2>1, ParentsAreEarlier
  <2>3. h'[p] = h[p] /\ ScoreIn(h', h'[p].parent) = ScoreIn(h, h[p].parent)
    BY <1>4, <1>6, <2>2
  <2>4. Children(h', p) = Children(h, p)
    BY <1>3, <1>4 DEF Children
  <2>5. IF h[p].decision = "accept"
        THEN /\ Len(h[p].seeds) = RequiredSeeds
             /\ h[p].integrity = "clean"
             /\ Mean2(h[p].seeds) > 2 * ScoreIn(h, h[p].parent)
        ELSE /\ h[p].method = "pairwise" /\ TradeOff(h[p])
             /\ h[p].status \in {"pruned", "rejected"}
             /\ Children(h, p) = {j}
    BY <2>1 DEF BranchesRestOnEvidence, RefScore, ScoreIn
  <2> HIDE DEF p
  <2> QED
    BY <2>1, <2>3, <2>4, <2>5
<1> QED
  BY <1>5, <1>7, <1>8, <1>9, <1>10, <1>11, <1>12

----------------------------------------------------------------------------
(* The launch of a round.                                                  *)

IsOffer(c) ==
    /\ c.parent \in Nat /\ c.method \in Methods /\ c.comps \in SUBSET Nat
    /\ c.comps # {} => FamilyOf(c.method) = "ensemble"

\* What is launched together: distinct mechanisms, admitted by the validator,
\* and only the first of them may refine what is no branch point.
Launchable(lanes) ==
    /\ (\E S : lanes \in Seq(S)) /\ lanes # <<>>
    /\ \A n \in DOMAIN lanes :
           /\ IsOffer(lanes[n]) /\ ParentAdmitted(h, lanes[n])
           /\ n # 1 => lanes[n].parent \in Frontier(h)
           /\ Twins(h, lanes[n]) # {} => AuthorizedNoOp(h, lanes[n])
    /\ \A m, n \in DOMAIN lanes : m # n => lanes[m].method # lanes[n].method

\* A proposal is a summary that nothing was observed of.
LEMMA ProposalsAreSummaries ==
  ASSUME NEW c, IsOffer(c)
  PROVE  /\ Proposed(c) \in Summaries
         /\ Proposed(c).parent = c.parent /\ Proposed(c).method = c.method
         /\ Proposed(c).comps = c.comps /\ Key(Proposed(c)) = Key(c)
         /\ \A ref : Coherent(Proposed(c), ref)
         /\ Proposed(c).status = "open"
  BY DEF Proposed, Summaries, IsOffer, Key, Coherent, Fidelities, VerdictsGiven,
         Stabilities, Integrities, Trades, Decisions, Statuses

\* An admitted parent is the baseline or an experiment.
LEMMA AdmittedParents ==
  ASSUME TypeOK, NEW c, ParentAdmitted(h, c)
  PROVE  c.parent \in 0 .. Len(h)
  BY DEF ParentAdmitted, Frontier, Ids, TypeOK

\* A round is launched when nothing is open: the new experiments follow the old
\* ones, and branch from what is over.
LEMMA LaunchStep ==
  ASSUME CampaignInv, \A i \in Ids(h) : Closed(h, i),
         NEW lanes, Launchable(lanes), NEW parallel \in BOOLEAN,
         Launch(lanes, parallel)
  PROVE  CampaignInv' /\ \A j \in Ids(h) : h'[j] = h[j]
<1> USE DEF CampaignInv
<1> DEFINE N == Len(lanes)
           L == Len(h)
<1>1. /\ h \in Seq(Summaries) /\ L \in Nat /\ Ids(h) = 1 .. L
      /\ N \in Nat /\ N # 0 /\ DOMAIN lanes = 1 .. N
  <2>1. PICK S : lanes \in Seq(S)
    BY DEF Launchable
  <2> QED
    BY <2>1 DEF TypeOK, Ids, Launchable
<1>2. /\ \A n \in 1 .. N : IsOffer(lanes[n])
      /\ \A n \in 1 .. N : Proposed(lanes[n]) \in Summaries
  BY <1>1, ProposalsAreSummaries DEF Launchable
<1>3. /\ h' \in Seq(Summaries) /\ Len(h') = L + N
      /\ \A i \in 1 .. L : h'[i] = h[i]
      /\ \A n \in 1 .. N : h'[L + n] = Proposed(lanes[n])
  <2> DEFINE tail == [n \in DOMAIN lanes |-> Proposed(lanes[n])]
  <2>1. tail \in Seq(Summaries) /\ Len(tail) = N
    BY <1>1, <1>2
  <2>2. h' = h \o tail
    BY DEF Launch
  <2>3. \A n \in 1 .. N : tail[n] = Proposed(lanes[n])
    BY <1>1
  <2> HIDE DEF tail
  <2>4. h' \in Seq(Summaries) /\ Len(h') = L + N
    <3>1. h \o tail \in Seq(Summaries) /\ Len(h \o tail) = Len(h) + Len(tail)
      <4>1. h \in Seq(Summaries)
        BY <1>1
      <4> QED
        BY <4>1, <2>1, ConcatProperties
    <3> QED
      BY <2>1, <2>2, <3>1
  <2>5. \A i \in 1 .. L : h'[i] = h[i]
    BY <1>1, <2>1, <2>2
  <2>6. \A n \in 1 .. N : h'[L + n] = Proposed(lanes[n])
    <3> SUFFICES ASSUME NEW n \in 1 .. N PROVE h'[L + n] = tail[n]
      BY <2>3
    <3>1. L + n \in 1 .. L + N /\ L + n > L /\ (L + n) - L = n
      BY <1>1
    <3> QED
      BY <1>1, <2>1, <2>2, <3>1
  <2> QED
    BY <2>4, <2>5, <2>6
<1>4. /\ \A i \in 1 .. L : h'[i] = h[i] /\ Closed(h', i) /\ i \in 1 .. L + N
      /\ \A i \in 1 .. L + N : i \notin 1 .. L <=> i \in L + 1 .. L + N
  BY <1>1, <1>3 DEF Closed
<1>5. /\ Ids(h') = 1 .. L + N /\ Ids(h)' = 1 .. L + N /\ round'.members = L + 1 .. L + N
      /\ width' = width /\ best' = best /\ pressure' = pressure /\ status' = "running"
      /\ round' = [members |-> L + 1 .. L + N, start |-> RefScore(best),
                   parallel |-> parallel, broken |-> {}]
  BY <1>3 DEF Ids, Launch
<1>6. \A i \in 1 .. L + N : i \notin 1 .. L =>
          \E n \in 1 .. N : i = L + n /\ h'[i] = Proposed(lanes[n])
  <2> SUFFICES ASSUME NEW i \in 1 .. L + N, i \notin 1 .. L
               PROVE  \E n \in 1 .. N : i = L + n /\ h'[i] = Proposed(lanes[n])
    OBVIOUS
  <2>1. i - L \in 1 .. N /\ i = L + (i - L)
    BY <1>1
  <2> QED
    BY <1>3, <2>1
<1>7. /\ \A i \in 1 .. L : h[i].parent \in 0 .. L /\ h[i].parent < i
      /\ \A n \in 1 .. N : lanes[n].parent \in 0 .. L
  BY <1>1, ParentsAreEarlier, AdmittedParents DEF Launchable
<1>8. \A i \in 1 .. L + N : h'[i].parent \in 0 .. L /\ h'[i].parent < i
  <2> SUFFICES ASSUME NEW i \in 1 .. L + N
               PROVE  h'[i].parent \in 0 .. L /\ h'[i].parent < i
    OBVIOUS
  <2>1. CASE i \in 1 .. L
    BY <1>4, <1>7, <2>1
  <2>2. CASE i \notin 1 .. L
    <3>1. PICK n \in 1 .. N : i = L + n /\ h'[i] = Proposed(lanes[n])
      BY <1>6, <2>2
    <3>2. h'[i].parent = lanes[n].parent
      BY <1>2, <3>1, ProposalsAreSummaries
    <3> QED
      BY <1>1, <1>7, <3>1, <3>2
  <2> QED
    BY <2>1, <2>2
<1>9. \A p \in 0 .. L : ScoreIn(h', p) = ScoreIn(h, p)
  BY <1>1, <1>3 DEF ScoreIn
<1>10. TypeOK'
  <2>1. best' \in 0 .. Len(h') /\ round'.start \in Int
    BY <1>1, <1>3, <1>5, BestHasAScore DEF TypeOK
  <2> QED
    BY <1>1, <1>3, <1>5, <2>1 DEF TypeOK
<1>11. SummariesCohere'
  <2> SUFFICES ASSUME NEW i \in 1 .. L + N
               PROVE  /\ h'[i].parent < i
                      /\ Coherent(h'[i], ScoreIn(h', h'[i].parent))
                      /\ h'[i].parent # 0 => Closed(h', h'[i].parent)
    BY <1>5 DEF SummariesCohere
  <2>1. Coherent(h'[i], ScoreIn(h', h'[i].parent))
    <3>1. CASE i \in 1 .. L
      BY <1>1, <1>3, <1>7, <1>9, <3>1 DEF SummariesCohere
    <3>2. CASE i \notin 1 .. L
      BY <1>2, <1>6, <3>2, ProposalsAreSummaries
    <3> QED
      BY <3>1, <3>2
  <2>2. h'[i].parent # 0 => Closed(h', h'[i].parent)
    <3>1. h'[i].parent \in 0 .. L
      BY <1>8
    <3>2. h'[i].parent # 0 => h'[i].parent \in 1 .. L
      BY <1>1, <3>1
    <3> QED
      BY <1>4, <3>2
  <2> QED
    BY <1>8, <2>1, <2>2
<1>12. RoundsAreApart'
  <2> SUFFICES ASSUME NEW i \in 1 .. L + N
               PROVE  /\ i \in L + 1 .. L + N \/ Closed(h', i)
                      /\ h'[i].parent \notin L + 1 .. L + N
    BY <1>5 DEF RoundsAreApart
  <2>1. h'[i].parent \notin L + 1 .. L + N
    BY <1>1, <1>8
  <2>2. i \in L + 1 .. L + N \/ Closed(h', i)
    BY <1>4
  <2> QED
    BY <2>1, <2>2
<1>13. BestIsAccepted'
  BY <1>1, <1>3, <1>5 DEF BestIsAccepted, TypeOK
<1>14. BestNearIncumbent'
  <2>1. RefScore(best)' = RefScore(best)
    BY <1>1, <1>3, <1>5 DEF RefScore, TypeOK
  <2> QED
    BY <1>5, <2>1 DEF BestNearIncumbent
<1>15. RepeatsFollowNoOps'
  <2> SUFFICES ASSUME NEW i \in 1 .. L + N, NEW j \in 1 .. L + N, i < j,
                      Key(h'[i]) = Key(h'[j])
               PROVE  \E k \in 1 .. j - 1 : /\ h'[k].verdict = "no_op" /\ Closed(h', k)
                                            /\ SameMechanism(h'[k], h'[j])
    BY <1>5 DEF RepeatsFollowNoOps
  <2>1. CASE j \in 1 .. L
    <3>1. i \in 1 .. L /\ h'[i] = h[i] /\ h'[j] = h[j]
      <4>1. i \in 1 .. L
        BY <1>1, <2>1
      <4> QED
        BY <1>4, <2>1, <4>1
    <3>2. PICK k \in 1 .. j - 1 : /\ h[k].verdict = "no_op" /\ Closed(h, k)
                                  /\ SameMechanism(h[k], h[j])
      BY <1>1, <2>1, <3>1 DEF RepeatsFollowNoOps
    <3>3. h'[k] = h[k]
      <4>1. k \in 1 .. L
        BY <1>1, <2>1
      <4> QED
        BY <1>4, <4>1
    <3> QED
      BY <3>1, <3>2, <3>3 DEF Closed
  <2>2. CASE j \notin 1 .. L
    <3>1. PICK n \in 1 .. N : j = L + n /\ h'[j] = Proposed(lanes[n])
      BY <1>6, <2>2
    <3>2. Key(h'[j]) = Key(lanes[n])
      BY <1>2, <3>1, ProposalsAreSummaries
    <3>3. i \in 1 .. L
      <4> SUFFICES ASSUME i \notin 1 .. L PROVE FALSE
        OBVIOUS
      <4>1. PICK m \in 1 .. N : i = L + m /\ h'[i] = Proposed(lanes[m])
        BY <1>6
      <4>2. Key(h'[i]) = Key(lanes[m]) /\ m # n
        BY <1>1, <1>2, <3>1, <4>1, ProposalsAreSummaries
      <4>3. lanes[m].method = lanes[n].method
        BY <3>2, <4>2 DEF Key
      <4> QED
        BY <1>1, <4>2, <4>3 DEF Launchable
    <3>4. AuthorizedNoOp(h, lanes[n])
      <4>1. i \in Twins(h, lanes[n])
        BY <1>1, <1>3, <3>2, <3>3 DEF Twins
      <4> QED
        BY <1>1, <4>1 DEF Launchable
    <3>5. /\ h # <<>> /\ L \in 1 .. L /\ h[L].status = "no_op"
          /\ SameMechanism(lanes[n], h[L])
      BY <1>1, <3>3, <3>4 DEF AuthorizedNoOp, Last
    <3>6. h[L].verdict = "no_op" /\ Closed(h, L)
      BY <1>1, <3>5 DEF SummariesCohere, Coherent, Closed
    <3>7. SameMechanism(h[L], Proposed(lanes[n]))
      BY <1>2, <3>5, ProposalsAreSummaries DEF SameMechanism
    <3>8. L \in 1 .. j - 1 /\ h'[L] = h[L]
      BY <1>1, <1>3, <3>1, <3>5
    <3> QED
      BY <3>1, <3>6, <3>7, <3>8 DEF Closed
  <2> QED
    BY <2>1, <2>2
<1>16. BranchesRestOnEvidence'
  <2> SUFFICES ASSUME NEW j \in 1 .. L + N, h'[j].parent # 0
               PROVE  LET p == h'[j].parent
                      IN  IF h'[p].decision = "accept"
                          THEN /\ Len(h'[p].seeds) = RequiredSeeds
                               /\ h'[p].integrity = "clean"
                               /\ Mean2(h'[p].seeds) > 2 * ScoreIn(h', h'[p].parent)
                          ELSE /\ h'[p].method = "pairwise" /\ TradeOff(h'[p])
                               /\ h'[p].status \in {"pruned", "rejected"}
                               /\ Children(h', p) = {j}
    BY <1>5 DEF BranchesRestOnEvidence, RefScore, ScoreIn
  <2> DEFINE p == h'[j].parent
  <2>1. p \in 1 .. L /\ h'[p] = h[p] /\ ScoreIn(h', h'[p].parent) = ScoreIn(h, h[p].parent)
    BY <1>1, <1>3, <1>7, <1>8, <1>9
  <2>2. Coherent(h[p], ScoreIn(h, h[p].parent)) /\ h[p] \in Summaries /\ Closed(h, p)
    BY <1>1, <2>1 DEF SummariesCohere
  <2> HIDE DEF p
  <2>3. CASE h[p].decision = "accept"
    BY <2>1, <2>2, <2>3 DEF p, Coherent
  <2>4. CASE h[p].decision # "accept"
    <3>1. p \notin Frontier(h)
      BY <1>1, <2>1, <2>4 DEF Frontier
    <3>2. \A n \in 1 .. N : lanes[n].parent = p =>
              n = 1 /\ RefinementEligible(h, p)
      BY <1>1, <3>1 DEF Launchable, ParentAdmitted
    <3>3. Children(h', p) = Children(h, p) \cup {i \in {L + 1} : lanes[1].parent = p}
      <4>1. ASSUME NEW i \in Children(h', p)
            PROVE  i \in Children(h, p) \/ (i = L + 1 /\ lanes[1].parent = p)
        <5>1. i \in 1 .. L + N /\ h'[i].parent = p
          BY <1>5, <4>1 DEF Children
        <5>2. CASE i \in 1 .. L
          BY <1>1, <1>3, <5>1, <5>2 DEF Children
        <5>3. CASE i \notin 1 .. L
          <6>1. PICK n \in 1 .. N : i = L + n /\ h'[i] = Proposed(lanes[n])
            BY <1>6, <5>1, <5>3
          <6> QED
            BY <1>2, <3>2, <5>1, <6>1, ProposalsAreSummaries
        <5> QED
          BY <5>2, <5>3
      <4>2. ASSUME NEW i \in Children(h, p) PROVE i \in Children(h', p)
        BY <1>1, <1>3, <1>5, <4>2 DEF Children
      <4>3. ASSUME lanes[1].parent = p PROVE L + 1 \in Children(h', p)
        <5>1. h'[L + 1].parent = p /\ L + 1 \in 1 .. L + N
          BY <1>1, <1>2, <1>3, <4>3, ProposalsAreSummaries
        <5> QED
          BY <1>5, <5>1 DEF Children
      <4> QED
        BY <4>1, <4>2, <4>3
    <3>4. lanes[1].parent = p => Children(h, p) = {}
      BY <1>1, <3>2 DEF RefinementEligible
    <3>5. CASE j \in 1 .. L
      <4>1. h[j].parent = p /\ p # 0
        BY <1>3, <3>5 DEF p
      <4>2. j \in Children(h, p)
        BY <1>1, <3>5, <4>1 DEF Children
      <4>3. Children(h', p) = Children(h, p)
        BY <3>3, <3>4, <4>2
      <4>4. /\ h[p].method = "pairwise" /\ TradeOff(h[p])
            /\ h[p].status \in {"pruned", "rejected"} /\ Children(h, p) = {j}
        BY <1>1, <2>4, <3>5, <4>1 DEF BranchesRestOnEvidence
      <4> QED
        BY <2>1, <2>4, <4>3, <4>4 DEF p
    <3>6. CASE j \notin 1 .. L
      <4>1. PICK n \in 1 .. N : j = L + n /\ h'[j] = Proposed(lanes[n])
        BY <1>6, <3>6
      <4>2. lanes[n].parent = p
        BY <1>2, <4>1, ProposalsAreSummaries DEF p
      <4>3. n = 1 /\ RefinementEligible(h, p)
        BY <3>2, <4>2
      <4>4. Soft(h[p]) /\ TradeOff(h[p]) /\ Children(h', p) = {j}
        BY <3>3, <3>4, <4>1, <4>2, <4>3 DEF RefinementEligible
      <4>5. h[p].method = "pairwise"
        BY <2>2, <4>4 DEF TradeOff, Coherent
      <4>6. h[p].status \in {"pruned", "rejected"}
        <5>1. h[p].status \in Statuses /\ h[p].status # "invalid" /\ h[p].status # "open"
          BY <2>2, <4>4 DEF Soft, Closed, Summaries
        <5>2. h[p].status # "accepted" /\ h[p].status # "no_op"
          BY <2>2, <2>4, <4>4 DEF Coherent, Soft
        <5> QED
          BY <5>1, <5>2 DEF Statuses
      <4> QED
        BY <2>1, <2>4, <4>4, <4>5, <4>6 DEF p
    <3> QED
      BY <3>5, <3>6
  <2> QED
    BY <2>3, <2>4
<1> QED
  BY <1>1, <1>3, <1>10, <1>11, <1>12, <1>13, <1>14, <1>15, <1>16

----------------------------------------------------------------------------
(* What a lane's evaluation decides.                                       *)

Trusts == [verdict : VerdictsGiven \ {"none"}, stability : Stabilities \ {"none"},
           integrity : Integrities \ {"none"}]
Rulings == [decision : Decisions, parentOk : BOOLEAN, bestOk : BOOLEAN]

\* The fields of a ruling.
LEMMA RulingFields ==
  ASSUME NEW d \in Decisions, NEW ruling
  PROVE  /\ ruling = Ruling(d, FALSE, FALSE) \/ ruling = Ruling(d, TRUE, FALSE) =>
                ruling \in Rulings /\ ruling.decision = d /\ ~ruling.bestOk
         /\ \A y \in BOOLEAN : ruling = Ruling(d, TRUE, y) =>
                ruling \in Rulings /\ ruling.decision = d /\ ruling.bestOk = y
<1>1. ASSUME NEW x \in BOOLEAN, NEW y \in BOOLEAN
      PROVE  LET r == [decision |-> d, parentOk |-> x, bestOk |-> y]
             IN  r \in Rulings /\ r.decision = d /\ r.bestOk = y
  BY DEF Rulings
<1>2. \A y \in BOOLEAN : ruling = Ruling(d, TRUE, y) =>
          ruling \in Rulings /\ ruling.decision = d /\ ruling.bestOk = y
  BY <1>1 DEF Ruling
<1>3. ruling = Ruling(d, FALSE, FALSE) \/ ruling = Ruling(d, TRUE, FALSE) =>
          ruling \in Rulings /\ ruling.decision = d /\ ~ruling.bestOk
  BY <1>1 DEF Ruling
<1> QED
  BY <1>2, <1>3

\* A proxy result is promoted, pruned or invalid, and appoints nobody.
LEMMA ProxyRulings ==
  ASSUME NEW d \in Int, NEW e \in Evidence,
         NEW trust, trust = Assess("proxy", <<d>>, 0, e),
         NEW ruling, ruling = Decide(trust, "proxy", <<d>>, 0, 0)
  PROVE  /\ trust \in Trusts /\ (trust.verdict = "no_op" <=> e = "no_op")
         /\ e # "no_op" => /\ ruling \in Rulings /\ ~ruling.bestOk
                           /\ ruling.decision \in {"promote", "prune", "invalid"}
<1>1. AssessProxy(d) \in Trusts
      /\ AssessProxy(d).verdict \in {"accepted", "negative", "inconclusive"}
  BY DEF AssessProxy, Trust, Trusts, VerdictsGiven, Stabilities, Integrities
<1>2. <<d>>[1] - 0 = d
  OBVIOUS
<1>3. CASE e = "no_op"
  BY <1>3 DEF Assess, Trust, Trusts, VerdictsGiven, Stabilities, Integrities
<1>4. CASE e = "sound"
  <2>1. trust = AssessProxy(d)
    BY <1>2, <1>4 DEF Assess
  <2>2. ruling = RuleProxy(trust, d)
    BY <1>2 DEF Decide
  <2>3. /\ RuleProxy(trust, d) \in Rulings /\ ~RuleProxy(trust, d).bestOk
        /\ RuleProxy(trust, d).decision \in {"promote", "prune", "invalid"}
    BY <1>1, <2>1 DEF RuleProxy, Ruling, Rulings, Decisions
  <2> QED
    BY <1>1, <1>4, <2>1, <2>2, <2>3
<1>5. CASE e \in {"degenerate", "implausible"}
  <2>1. trust \in Trusts /\ trust.verdict = "suspicious"
    BY <1>5 DEF Assess, Trust, Trusts, VerdictsGiven, Stabilities, Integrities
  <2>2. ruling = RuleProxy(trust, d)
    BY <1>2 DEF Decide
  <2>3. /\ RuleProxy(trust, d) \in Rulings /\ ~RuleProxy(trust, d).bestOk
        /\ RuleProxy(trust, d).decision \in {"promote", "prune", "invalid"}
    BY <2>1 DEF RuleProxy, Ruling, Rulings, Decisions
  <2> QED
    BY <1>5, <2>1, <2>2, <2>3
<1> QED
  BY <1>3, <1>4, <1>5 DEF Evidence

\* A gain that is appointed shows in the last seed too: half the spread is less
\* than the margin that the mean has to clear.
LEMMA AppointedGainsShowInTheLastSeed ==
  ASSUME NEW seeds \in Seq(Int), Len(seeds) = 2, NEW b \in Int
  PROVE  LastOf(seeds) \in Int /\ (BeatsBest(seeds, b) => LastOf(seeds) > b)
<1>1. seeds[1] \in Int /\ seeds[2] \in Int
  <2>1. \A n \in 1 .. Len(seeds) : seeds[n] \in Int
    BY ElementOfSeq
  <2>2. 1 \in 1 .. Len(seeds) /\ 2 \in 1 .. Len(seeds)
    OBVIOUS
  <2> QED
    BY <2>1, <2>2
<1>2. LastOf(seeds) = seeds[2]
  BY DEF LastOf
<1> QED
  BY <1>1, <1>2 DEF BeatsBest, Mean2, Eta, Higher, Spread, Abs, EtaFloor

\* A full result is accepted for a gain over its parent on two sound seeds, and
\* appointed for one over the best; the first seed only promotes it further.
LEMMA FullRulings ==
  ASSUME NEW seeds \in Seq(Int), Len(seeds) \in {1, 2}, NEW p \in Int, NEW b \in Int,
         NEW e \in Evidence, NEW trust, trust = Assess("full", seeds, p, e),
         NEW ruling, ruling = Decide(trust, "full", seeds, p, b)
  PROVE  /\ trust \in Trusts /\ (trust.verdict = "no_op" <=> e = "no_op")
         /\ e # "no_op" =>
                /\ ruling \in Rulings
                /\ ruling.decision \in {"promote", "accept", "reject", "invalid"}
                /\ ruling.decision = "promote" => Len(seeds) < RequiredSeeds
                /\ ruling.decision = "accept" =>
                       /\ Len(seeds) = RequiredSeeds /\ trust.integrity = "clean"
                       /\ Mean2(seeds) > 2 * p
                /\ ruling.bestOk =>
                       /\ ruling.decision = "accept" /\ trust.verdict = "accepted"
                       /\ LastOf(seeds) > b
<1>1. ruling = RuleFull(trust, seeds, p, b)
  BY DEF Decide
<1>2. CASE e = "no_op"
  BY <1>2 DEF Assess, Trust, Trusts, VerdictsGiven, Stabilities, Integrities
<1>3. CASE e \in {"degenerate", "implausible"}
  <2>1. trust \in Trusts /\ trust.verdict = "suspicious"
    BY <1>3 DEF Assess, Trust, Trusts, VerdictsGiven, Stabilities, Integrities
  <2>2. ruling = Ruling("invalid", FALSE, FALSE)
    BY <1>1, <2>1 DEF RuleFull, Exploratory
  <2>3. ruling.decision = "invalid" /\ ~ruling.bestOk /\ ruling \in Rulings
    BY <2>2, RulingFields DEF Decisions
  <2> QED
    BY <1>3, <2>1, <2>3
<1>4. CASE e = "sound"
  <2>1. trust = AssessFull(seeds, p)
    BY <1>4 DEF Assess
  <2>2. /\ Mean2(seeds) \in Int /\ Spread(seeds) \in Int /\ Spread(seeds) >= 0
        /\ Eta(seeds) \in Int /\ Eta(seeds) > 0
    <3>1. Len(seeds) = 2 => seeds[2] \in Int
      OBVIOUS
    <3>2. seeds[1] \in Int
      OBVIOUS
    <3> QED
      BY <3>1, <3>2 DEF Mean2, Eta, Higher, Spread, Abs, EtaFloor
  <2>3. /\ trust \in Trusts /\ trust.integrity = "clean"
        /\ trust.verdict \in {"accepted", "negative", "inconclusive"}
        /\ trust.stability = "single_seed" <=> Len(seeds) = 1
        /\ Len(seeds) = 1 => trust.verdict = "accepted"
        /\ Len(seeds) = 2 /\ trust.verdict = "accepted" => Mean2(seeds) > 2 * p
    <3>1. CASE Len(seeds) = 1
      BY <2>1, <3>1 DEF AssessFull, Trust, Trusts, VerdictsGiven, Stabilities,
                        Integrities, RequiredSeeds
    <3>2. CASE Len(seeds) = 2
      <4> DEFINE wide == Spread(seeds) * Spread(seeds) > UnstableSquare
      <4>1. CASE wide
        BY <2>1, <3>2, <4>1 DEF AssessFull, Trust, Trusts, VerdictsGiven,
           Stabilities, Integrities, RequiredSeeds
      <4>2. CASE ~wide
        <5> DEFINE gain2 == Mean2(seeds) - 2 * p
        <5>1. trust = Trust(IF gain2 < -(2 * Eta(seeds)) THEN "negative"
                            ELSE IF gain2 > 2 * Eta(seeds) \/ gain2 > 2 * Spread(seeds)
                            THEN "accepted" ELSE "inconclusive", "confirmed", "clean")
          BY <2>1, <3>2, <4>2 DEF AssessFull, RequiredSeeds
        <5>2. gain2 > 2 * Eta(seeds) \/ gain2 > 2 * Spread(seeds)
                  => Mean2(seeds) > 2 * p
          BY <2>2
        <5> HIDE DEF gain2
        <5> QED
          BY <3>2, <5>1, <5>2 DEF Trust, Trusts, VerdictsGiven, Stabilities,
             Integrities
      <4> QED
        BY <4>1, <4>2
    <3> QED
      BY <3>1, <3>2
  <2>4. CASE Len(seeds) = 1
    <3>1. ruling = Ruling("promote", FALSE, FALSE)
      BY <1>1, <2>3, <2>4 DEF RuleFull
    <3>2. ruling.decision = "promote" /\ ~ruling.bestOk /\ ruling \in Rulings
      BY <3>1, RulingFields DEF Decisions
    <3> QED
      BY <1>4, <2>3, <2>4, <3>2 DEF RequiredSeeds
  <2>5. CASE Len(seeds) = 2 /\ trust.verdict = "accepted"
    <3>1. trust.verdict = "accepted" /\ ~(trust.stability = "single_seed")
      BY <2>3, <2>5
    <3>2. ruling = Ruling("accept", TRUE, BeatsBest(seeds, b))
      BY <1>1, <3>1, Zenon DEF RuleFull
    <3>3. /\ ruling.decision = "accept" /\ ruling.bestOk = BeatsBest(seeds, b)
          /\ ruling \in Rulings
      <4>1. BeatsBest(seeds, b) \in BOOLEAN
        BY DEF BeatsBest
      <4>2. "accept" \in Decisions
        BY DEF Decisions
      <4> QED
        BY <3>2, <4>1, <4>2, RulingFields, Zenon
    <3>4. ruling.bestOk \in BOOLEAN /\ (ruling.bestOk => LastOf(seeds) > b)
      <4>1. BeatsBest(seeds, b) \in BOOLEAN
        BY DEF BeatsBest
      <4>2. BeatsBest(seeds, b) => LastOf(seeds) > b
        BY <2>5, AppointedGainsShowInTheLastSeed
      <4> QED
        BY <3>3, <4>1, <4>2, Zenon
    <3> QED
      BY <1>4, <2>3, <2>5, <3>3, <3>4 DEF RequiredSeeds
  <2>6. CASE Len(seeds) = 2 /\ trust.verdict # "accepted"
    <3>1. CASE Exploratory(trust, seeds, p, b)
      <4>1. ruling = Ruling("accept", TRUE, FALSE) /\ Mean2(seeds) > 2 * p
        BY <1>1, <2>6, <3>1 DEF RuleFull, Exploratory
      <4>2. ruling.decision = "accept" /\ ~ruling.bestOk /\ ruling \in Rulings
        BY <4>1, RulingFields DEF Decisions
      <4> QED
        BY <1>4, <2>3, <2>6, <4>1, <4>2 DEF RequiredSeeds
    <3>2. CASE ~Exploratory(trust, seeds, p, b)
      <4>1. ruling = Ruling("reject", FALSE, FALSE)
        BY <1>1, <2>3, <2>6, <3>2 DEF RuleFull
      <4>2. ruling.decision = "reject" /\ ~ruling.bestOk /\ ruling \in Rulings
        BY <4>1, RulingFields DEF Decisions
      <4> QED
        BY <1>4, <2>3, <2>6, <4>1, <4>2 DEF RequiredSeeds
    <3> QED
      BY <3>1, <3>2
  <2> QED
    BY <2>4, <2>5, <2>6
<1> QED
  BY <1>2, <1>3, <1>4 DEF Evidence

\* Who becomes eligible for the best in a step is the best after it.
Appointed == \A j \in Ids(h) : h'[j].bestOk /\ ~h[j].bestOk => best' = j

\* The fields of an open lane.
LEMMA OpenLanes ==
  ASSUME CampaignInv, NEW i \in Ids(h), Open(i)
  PROVE  /\ h[i] \in Summaries /\ h[i].status = "open" /\ ~h[i].bestOk
         /\ h[i].decision \in {"open", "promote"}
         /\ Coherent(h[i], ScoreIn(h, h[i].parent))
         /\ h[i].parent \in 0 .. Len(h)
         /\ h[i].decision = "promote" /\ h[i].verdict # "no_op" => Len(h[i].seeds) < 2
<1>1. h[i] \in Summaries /\ h[i].status = "open" /\ h[i].parent \in 0 .. Len(h)
  BY ParentsAreEarlier DEF CampaignInv, Open
<1>2. Coherent(h[i], ScoreIn(h, h[i].parent))
  BY DEF CampaignInv, SummariesCohere
<1> QED
  BY <1>1, <1>2 DEF Coherent, RequiredSeeds

\* An evaluation leaves the plan of its lane and what was decided of it.
LEMMA EvaluatedLanes ==
  ASSUME NEW s \in Summaries, NEW fidelity \in Fidelities, NEW seeds \in Seq(Int),
         NEW delta \in Int, NEW trust \in Trusts,
         NEW shape \in [trade : Trades, diverse : BOOLEAN],
         NEW t, t = Evaluated(s, fidelity, seeds, delta, trust, shape)
  PROVE  /\ t \in Summaries /\ t.parent = s.parent /\ t.method = s.method
         /\ t.comps = s.comps /\ t.decision = s.decision /\ t.status = s.status
         /\ t.bestOk = s.bestOk /\ t.fidelity = fidelity /\ t.seeds = seeds
         /\ t.verdict = trust.verdict /\ t.integrity = trust.integrity
         /\ t.trade = shape.trade
<1> DEFINE r == [parent |-> s.parent, method |-> s.method, comps |-> s.comps,
     fidelity |-> fidelity, verdict |-> trust.verdict, stability |-> trust.stability,
     integrity |-> trust.integrity, output |-> "accepted",
     delta |-> delta, seeds |-> seeds, trade |-> shape.trade, diverse |-> shape.diverse,
     decision |-> s.decision, status |-> s.status, bestOk |-> s.bestOk]
<1>1. t = r
  BY DEF Evaluated, Summaries
<1>2. r \in Summaries
  BY DEF Summaries, Trusts
<1> QED
  BY <1>1, <1>2

\* A decided lane.
DecidedAs(s, ruling) ==
    [s EXCEPT !.decision = ruling.decision, !.bestOk = ruling.bestOk,
              !.status = StatusOf(ruling.decision)]

\* A decision sets the fields of its ruling, and no other.
LEMMA DecidedLanes ==
  ASSUME NEW s \in Summaries, NEW ruling \in Rulings,
         ruling.decision \in Decisions \ {"open"},
         NEW t, t = DecidedAs(s, ruling)
  PROVE  /\ t \in Summaries /\ t.parent = s.parent /\ t.method = s.method
         /\ t.comps = s.comps /\ t.decision = ruling.decision
         /\ t.status = StatusOf(ruling.decision) /\ t.bestOk = ruling.bestOk
         /\ t.fidelity = s.fidelity /\ t.seeds = s.seeds /\ t.verdict = s.verdict
         /\ t.integrity = s.integrity /\ t.trade = s.trade
         /\ StatusOf(ruling.decision) = "accepted" <=> ruling.decision = "accept"
         /\ StatusOf(ruling.decision) = "open" <=> ruling.decision = "promote"
         /\ StatusOf(ruling.decision) # "no_op"
<1> DEFINE r == [parent |-> s.parent, method |-> s.method, comps |-> s.comps,
     fidelity |-> s.fidelity, verdict |-> s.verdict, stability |-> s.stability,
     integrity |-> s.integrity, output |-> s.output,
     delta |-> s.delta, seeds |-> s.seeds, trade |-> s.trade, diverse |-> s.diverse,
     decision |-> ruling.decision, status |-> StatusOf(ruling.decision),
     bestOk |-> ruling.bestOk]
<1>1. t = r
  BY DEF Summaries, DecidedAs
<1>2. /\ StatusOf(ruling.decision) \in Statuses
      /\ StatusOf(ruling.decision) = "accepted" <=> ruling.decision = "accept"
      /\ StatusOf(ruling.decision) = "open" <=> ruling.decision = "promote"
      /\ StatusOf(ruling.decision) # "no_op"
  BY DEF StatusOf, Decisions, Statuses
<1>3. r \in Summaries
  BY <1>2 DEF Summaries, Rulings
<1> QED
  BY <1>1, <1>2, <1>3

\* What the incumbent of the pressure is after a decision: at least the last
\* seed of an appointed gain, and never behind where it was.
LEMMA PressureFollows ==
  ASSUME TypeOK, NEW s \in Summaries,
         s.fidelity = "full" /\ s.verdict = "accepted" => s.seeds # <<>>
  PROVE  /\ PressureAfter(s) \in [incumbent : Int, count : Nat]
         /\ PressureAfter(s).incumbent >= pressure.incumbent
         /\ s.decision = "accept" /\ s.fidelity = "full" /\ s.verdict = "accepted" =>
                LastOf(s.seeds) <= PressureAfter(s).incumbent + Epsilon
<1>1. pressure \in [incumbent : Int, count : Nat]
  BY DEF TypeOK
<1>2. s.seeds # <<>> => LastOf(s.seeds) \in Int
  BY DEF Summaries, LastOf
<1>3. /\ StillNothing(pressure) \in [incumbent : Int, count : Nat]
      /\ StillNothing(pressure).incumbent = pressure.incumbent
  BY <1>1 DEF StillNothing
<1>4. ASSUME NEW x \in Int
      PROVE  /\ Weigh(pressure, x) \in [incumbent : Int, count : Nat]
             /\ Weigh(pressure, x).incumbent >= pressure.incumbent
             /\ x <= Weigh(pressure, x).incumbent + Epsilon
  BY <1>1 DEF Weigh, Epsilon
<1>5. CASE s.decision \in {"promote", "invalid"}
  <2>1. PressureAfter(s) = pressure
    BY <1>5 DEF PressureAfter
  <2> QED
    BY <1>1, <1>5, <2>1
<1>6. CASE /\ s.decision \notin {"promote", "invalid"}
           /\ s.fidelity = "full" /\ s.verdict = "accepted"
  <2>1. PressureAfter(s) = Weigh(pressure, LastOf(s.seeds))
    BY <1>6 DEF PressureAfter
  <2>2. LastOf(s.seeds) \in Int
    BY <1>2, <1>6
  <2> QED
    BY <1>4, <2>1, <2>2
<1>7. CASE /\ s.decision \notin {"promote", "invalid"}
           /\ ~(s.fidelity = "full" /\ s.verdict = "accepted")
  <2>1. PressureAfter(s) = StillNothing(pressure)
    BY <1>7 DEF PressureAfter
  <2> QED
    BY <1>1, <1>3, <1>7, <2>1
<1> QED
  BY <1>5, <1>6, <1>7

\* A lane that was evaluated keeps the invariant, and is the best if appointed.
LEMMA JudgeStep ==
  ASSUME CampaignInv, NEW i \in Ids(h), Open(i), NEW s \in Summaries, NEW ruling,
         s.parent = h[i].parent, s.method = h[i].method, s.comps = h[i].comps,
         s.status = "open", s.decision = h[i].decision, ~s.bestOk,
         s.trade # "none" => s.method = "pairwise",
         s.fidelity = "full" => s.seeds # <<>>,
         s.verdict # "no_op" =>
            /\ ruling \in Rulings /\ ruling.decision # "open"
            /\ ruling.decision = "promote" => Len(s.seeds) < RequiredSeeds
            /\ ruling.decision = "accept" =>
                   /\ Len(s.seeds) = RequiredSeeds /\ s.integrity = "clean"
                   /\ Mean2(s.seeds) > 2 * ScoreIn(h, h[i].parent)
            /\ ruling.bestOk => /\ ruling.decision = "accept" /\ s.verdict = "accepted"
                                /\ s.fidelity = "full" /\ LastOf(s.seeds) > RefScore(best),
         Judge(i, s, ruling)
  PROVE  CampaignInv' /\ Appointed
<1> DEFINE ref == ScoreIn(h, h[i].parent)
           t == DecidedAs(s, ruling)
<1>1. /\ h \in Seq(Summaries) /\ i \in 1 .. Len(h) /\ Ids(h) = 1 .. Len(h)
      /\ TypeOK /\ SummariesCohere /\ BestIsAccepted /\ BestNearIncumbent
      /\ round = [round EXCEPT !.broken = round.broken] /\ round.broken \in SUBSET Nat
      /\ pressure \in [incumbent : Int, count : Nat] /\ best # i
  <2>1. best # i
    BY DEF CampaignInv, BestIsAccepted, Open, Ids
  <2> QED
    BY <2>1 DEF CampaignInv, TypeOK, Ids
<1>2. /\ h[i] \in Summaries /\ h[i].decision \in {"open", "promote"} /\ ~h[i].bestOk
      /\ s.comps # {} => FamilyOf(s.method) = "ensemble"
  BY OpenLanes DEF Coherent
<1>3. round' = [round EXCEPT !.broken = round.broken] /\ width' = width /\ status' = status
  BY <1>1 DEF Judge
<1>4. CASE s.verdict = "no_op"
  <2>1. h' = [h EXCEPT ![i] = s] /\ best' = best /\ pressure' = pressure
    BY <1>4 DEF Judge
  <2>2. Coherent(s, ref)
    BY <1>2, <1>4 DEF Coherent
  <2>3. RefScore(best) <= pressure'.incumbent + Epsilon
    BY <1>1, <2>1 DEF BestNearIncumbent
  <2>4. CampaignInv'
    <3> HIDE DEF ref
    <3>1. Coherent(s, ScoreIn(h, h[i].parent))
      BY <2>2 DEF ref
    <3> QED
      BY <1>1, <1>3, <2>1, <2>3, <3>1, LaneStep
  <2>5. Appointed
    BY <1>1, <2>1 DEF Appointed
  <2> QED
    BY <2>4, <2>5
<1>5. CASE s.verdict # "no_op"
  <2>1. /\ h' = [h EXCEPT ![i] = t] /\ pressure' = PressureAfter(t)
        /\ best' = IF ruling.bestOk /\ LastOf(s.seeds) > RefScore(best) THEN i ELSE best
    BY <1>5 DEF Judge, DecidedAs
  <2>2. /\ t \in Summaries /\ t.parent = s.parent /\ t.method = s.method
        /\ t.comps = s.comps /\ t.decision = ruling.decision
        /\ t.status = StatusOf(ruling.decision) /\ t.bestOk = ruling.bestOk
        /\ t.fidelity = s.fidelity /\ t.seeds = s.seeds /\ t.verdict = s.verdict
        /\ t.integrity = s.integrity /\ t.trade = s.trade
        /\ StatusOf(ruling.decision) = "accepted" <=> ruling.decision = "accept"
        /\ StatusOf(ruling.decision) = "open" <=> ruling.decision = "promote"
        /\ StatusOf(ruling.decision) # "no_op"
    <3>1. ruling \in Rulings /\ ruling.decision \in Decisions \ {"open"}
      BY <1>5 DEF Rulings
    <3> QED
      BY <3>1, DecidedLanes
  <2> HIDE DEF t
  <2>3. Coherent(t, ref)
    BY <1>2, <1>5, <2>2 DEF Coherent
  <2>4. /\ pressure' \in [incumbent : Int, count : Nat]
        /\ pressure'.incumbent >= pressure.incumbent
        /\ ruling.bestOk => LastOf(t.seeds) <= pressure'.incumbent + Epsilon
    <3>1. t.fidelity = "full" /\ t.verdict = "accepted" => t.seeds # <<>>
      BY <2>2
    <3>2. /\ PressureAfter(t) \in [incumbent : Int, count : Nat]
          /\ PressureAfter(t).incumbent >= pressure.incumbent
          /\ t.decision = "accept" /\ t.fidelity = "full" /\ t.verdict = "accepted" =>
                LastOf(t.seeds) <= PressureAfter(t).incumbent + Epsilon
      BY <1>1, <2>2, <3>1, PressureFollows
    <3> QED
      BY <1>5, <2>1, <2>2, <3>2
  <2>5. (IF best' = i THEN LastOf(t.seeds) ELSE RefScore(best))
            <= pressure'.incumbent + Epsilon
    <3>1. RefScore(best) \in Int /\ RefScore(best) <= pressure.incumbent + Epsilon
      BY <1>1, BestHasAScore DEF BestNearIncumbent
    <3> QED
      BY <1>1, <2>1, <2>4, <3>1 DEF Epsilon
  <2>6. best' = best \/ (best' = i /\ t.status = "accepted")
    BY <1>5, <2>1, <2>2
  <2>7. CampaignInv'
    <3>1. Coherent(t, ScoreIn(h, h[i].parent))
      BY <2>3
    <3> HIDE DEF ref
    <3> QED
      BY <1>1, <1>3, <2>1, <2>2, <2>4, <2>5, <2>6, <3>1, LaneStep
  <2>8. Appointed
    BY <1>1, <1>5, <2>1, <2>2 DEF Appointed
  <2> QED
    BY <2>7, <2>8
<1> QED
  BY <1>4, <1>5

\* The inputs that the instance enumerates are of their kinds.
LEMMA InputsAreTyped ==
  /\ \A e \in Evidences : e \in Evidence
  /\ \A e \in Evidences : \A d \in GainsOf(e, ProxyDeltas) \cup GainsOf(e, FullDeltas) :
         d \in Int
  /\ \A j \in Jitters : j \in Int
  /\ \A m : \A z \in ShapesOf(m) : /\ z \in [trade : Trades, diverse : BOOLEAN]
                                   /\ z.trade # "none" => m = "pairwise"
  BY CampaignAssumption DEF GainsOf, ShapesOf, Trades

\* A proxy evaluation.
LEMMA ProxyStep ==
  ASSUME CampaignInv, NEW i \in Ids(h), Proxy(i)
  PROVE  CampaignInv' /\ Appointed
<1>1. Open(i) /\ h[i].decision = "open"
  BY DEF Proxy
<1>2. PICK e \in Evidences, shape \in ShapesOf(h[i].method) :
      \E d \in GainsOf(e, ProxyDeltas) :
           LET trust == Assess("proxy", <<d>>, 0, e)
               s == Evaluated(h[i], "proxy", <<>>, d, trust, shape)
           IN  Judge(i, s, IF e = "no_op" THEN Ruling("open", FALSE, FALSE)
                           ELSE Decide(trust, "proxy", <<d>>, 0, 0))
  BY DEF Proxy
<1>3. PICK d \in GainsOf(e, ProxyDeltas) :
           LET trust == Assess("proxy", <<d>>, 0, e)
               s == Evaluated(h[i], "proxy", <<>>, d, trust, shape)
           IN  Judge(i, s, IF e = "no_op" THEN Ruling("open", FALSE, FALSE)
                           ELSE Decide(trust, "proxy", <<d>>, 0, 0))
  BY <1>2
<1> DEFINE trust == Assess("proxy", <<d>>, 0, e)
           decided == Decide(trust, "proxy", <<d>>, 0, 0)
           ruling == IF e = "no_op" THEN Ruling("open", FALSE, FALSE) ELSE decided
           none == <<>>
           delta == d
           s == Evaluated(h[i], "proxy", none, delta, trust, shape)
<1>4. Judge(i, s, ruling)
  BY <1>3
<1>5. /\ trust \in Trusts /\ (trust.verdict = "no_op" <=> e = "no_op")
      /\ e # "no_op" => /\ decided \in Rulings /\ ~decided.bestOk
                        /\ decided.decision \in {"promote", "prune", "invalid"}
  BY InputsAreTyped, ProxyRulings
<1>6. /\ h[i] \in Summaries /\ h[i].status = "open" /\ ~h[i].bestOk
  BY <1>1, OpenLanes
<1>7. /\ "proxy" \in Fidelities /\ <<>> \in Seq(Int) /\ d \in Int
      /\ shape \in [trade : Trades, diverse : BOOLEAN]
      /\ shape.trade # "none" => h[i].method = "pairwise"
  BY InputsAreTyped DEF Fidelities
<1>8. s = Evaluated(h[i], "proxy", none, delta, trust, shape)
  OBVIOUS
<1>9. none \in Seq(Int) /\ Len(none) < RequiredSeeds
  BY DEF RequiredSeeds
<1>10. delta \in Int
  BY <1>7
<1> HIDE DEF trust, decided, s, none, delta
<1>11. /\ s \in Summaries /\ s.parent = h[i].parent /\ s.method = h[i].method
      /\ s.comps = h[i].comps /\ s.decision = h[i].decision /\ s.status = h[i].status
      /\ s.bestOk = h[i].bestOk /\ s.fidelity = "proxy" /\ s.seeds = none
      /\ s.verdict = trust.verdict /\ s.integrity = trust.integrity
      /\ s.trade = shape.trade
  <2>1. /\ h[i] \in Summaries /\ "proxy" \in Fidelities /\ none \in Seq(Int)
        /\ delta \in Int /\ trust \in Trusts
        /\ shape \in [trade : Trades, diverse : BOOLEAN]
    BY <1>5, <1>6, <1>7, <1>9, <1>10
  <2> QED
    BY <1>8, <2>1, EvaluatedLanes, SMTT(60)
<1>12. Len(s.seeds) < RequiredSeeds
  BY <1>11, <1>9
<1>13. s.verdict # "no_op" =>
          /\ ruling \in Rulings /\ ~ruling.bestOk
          /\ ruling.decision # "open" /\ ruling.decision # "accept"
  BY <1>5, <1>11
<1> HIDE DEF ruling
<1> QED
  BY <1>1, <1>4, <1>6, <1>7, <1>11, <1>13, <1>12, JudgeStep

\* A natural below two.
LEMMA BelowTwo == \A n \in Nat : n < 2 => n = 0 \/ n = 1
  OBVIOUS

\* One seed more than none or one.
LEMMA OneSeedMore ==
  ASSUME NEW prior \in Seq(Int), Len(prior) < 2
  PROVE  /\ prior = <<>> \/ prior[1] \in Int
         /\ \A x \in Int : /\ Append(prior, x) \in Seq(Int) /\ Append(prior, x) # <<>>
                           /\ Len(Append(prior, x)) \in {1, 2}
<1>1. prior = <<>> \/ prior[1] \in Int
  OBVIOUS
<1>2. ASSUME NEW x \in Int
      PROVE  /\ Append(prior, x) \in Seq(Int) /\ Append(prior, x) # <<>>
             /\ Len(Append(prior, x)) \in {1, 2}
  <2>1. Append(prior, x) \in Seq(Int) /\ Len(Append(prior, x)) = Len(prior) + 1
    OBVIOUS
  <2>2. Len(prior) = 0 \/ Len(prior) = 1
    <3>1. Len(prior) \in Nat
      OBVIOUS
    <3> QED
      BY <3>1, BelowTwo
  <2>3. Len(Append(prior, x)) = 1 \/ Len(Append(prior, x)) = 2
    BY <2>1, <2>2
  <2> QED
    BY <2>1, <2>3
<1> QED
  BY <1>1, <1>2

\* A full evaluation, on the seeds the lane has and one more.
LEMMA FullStep ==
  ASSUME CampaignInv, NEW i \in Ids(h), Full(i)
  PROVE  CampaignInv' /\ Appointed
<1> DEFINE p == RefScore(h[i].parent)
           prior == Prior(h[i])
           scores(e) == IF prior = <<>> THEN {p + d : d \in GainsOf(e, FullDeltas)}
                        ELSE IF e # "sound" THEN {p} ELSE {prior[1] + j : j \in Jitters}
<1>1. Open(i) /\ h[i].decision = "promote" /\ HasFullReference(h[i].parent)
  BY DEF Full
<1>2. PICK e \in Evidences, shape \in ShapesOf(h[i].method) :
      \E x \in scores(e) :
           LET seeds == Append(prior, x)
               trust == Assess("full", seeds, p, e)
               s == Evaluated(h[i], "full", seeds, x - p, trust, shape)
           IN  Judge(i, s, IF e = "no_op" THEN Ruling("promote", FALSE, FALSE)
                           ELSE Decide(trust, "full", seeds, p, RefScore(best)))
  BY DEF Full
<1>3. PICK x \in scores(e) :
           LET seeds == Append(prior, x)
               trust == Assess("full", seeds, p, e)
               s == Evaluated(h[i], "full", seeds, x - p, trust, shape)
           IN  Judge(i, s, IF e = "no_op" THEN Ruling("promote", FALSE, FALSE)
                           ELSE Decide(trust, "full", seeds, p, RefScore(best)))
  BY <1>2
<1> DEFINE seeds == Append(prior, x)
           trust == Assess("full", seeds, p, e)
           decided == Decide(trust, "full", seeds, p, RefScore(best))
           ruling == IF e = "no_op" THEN Ruling("promote", FALSE, FALSE) ELSE decided
           delta == x - p
           s == Evaluated(h[i], "full", seeds, delta, trust, shape)
<1>4. Judge(i, s, ruling)
  BY <1>3
<1>5. /\ h[i] \in Summaries /\ h[i].status = "open" /\ ~h[i].bestOk
      /\ h[i].parent \in 0 .. Len(h)
      /\ h[i].verdict # "no_op" => Len(h[i].seeds) < 2
  BY <1>1, OpenLanes
<1>6. p \in Int /\ p = ScoreIn(h, h[i].parent) /\ RefScore(best) \in Int
  BY <1>1, <1>5, ReferencesAreNumbers, BestHasAScore DEF CampaignInv, HasFullReference
<1>7. prior \in Seq(Int) /\ Len(prior) < 2
  <2>1. CASE h[i].verdict = "no_op"
    <3>1. prior = <<>>
      BY <2>1 DEF Prior
    <3> HIDE DEF prior
    <3> QED
      BY <3>1
  <2>2. CASE h[i].verdict # "no_op"
    <3>1. prior = h[i].seeds /\ h[i].seeds \in Seq(Int) /\ Len(h[i].seeds) < 2
      BY <1>5, <2>2 DEF Prior, Summaries
    <3> HIDE DEF prior
    <3> QED
      BY <3>1
  <2> QED
    BY <2>1, <2>2
<1>8. x \in Int
  <2>1. /\ \A d \in GainsOf(e, FullDeltas) : d \in Int
        /\ \A j \in Jitters : j \in Int
    BY InputsAreTyped
  <2>2. prior = <<>> \/ prior[1] \in Int
    BY <1>7, OneSeedMore
  <2> HIDE DEF p, prior
  <2> QED
    BY <1>6, <2>1, <2>2
<1>9. seeds \in Seq(Int) /\ Len(seeds) \in {1, 2} /\ seeds # <<>> /\ delta \in Int
  <2>1. delta \in Int
    BY <1>6, <1>8
  <2>2. seeds \in Seq(Int) /\ Len(seeds) \in {1, 2} /\ seeds # <<>>
    <3> HIDE DEF prior
    <3> QED
      BY <1>7, <1>8, OneSeedMore
  <2> QED
    BY <2>1, <2>2
<1> HIDE DEF p, seeds, delta
<1>10. /\ trust \in Trusts /\ (trust.verdict = "no_op" <=> e = "no_op")
       /\ e # "no_op" =>
              /\ decided \in Rulings
              /\ decided.decision \in {"promote", "accept", "reject", "invalid"}
              /\ decided.decision = "promote" => Len(seeds) < RequiredSeeds
              /\ decided.decision = "accept" =>
                     /\ Len(seeds) = RequiredSeeds /\ trust.integrity = "clean"
                     /\ Mean2(seeds) > 2 * p
              /\ decided.bestOk =>
                     /\ decided.decision = "accept" /\ trust.verdict = "accepted"
                     /\ LastOf(seeds) > RefScore(best)
  <2>1. e \in Evidence
    BY InputsAreTyped
  <2> QED
    BY <1>6, <1>9, <2>1, FullRulings
<1>11. /\ "full" \in Fidelities
       /\ shape \in [trade : Trades, diverse : BOOLEAN]
       /\ shape.trade # "none" => h[i].method = "pairwise"
  BY InputsAreTyped DEF Fidelities
<1>12. s = Evaluated(h[i], "full", seeds, delta, trust, shape)
  OBVIOUS
<1> HIDE DEF trust, decided, s
<1>13. /\ s \in Summaries /\ s.parent = h[i].parent /\ s.method = h[i].method
       /\ s.comps = h[i].comps /\ s.decision = h[i].decision /\ s.status = h[i].status
       /\ s.bestOk = h[i].bestOk /\ s.fidelity = "full" /\ s.seeds = seeds
       /\ s.verdict = trust.verdict /\ s.integrity = trust.integrity
       /\ s.trade = shape.trade
  <2>1. /\ h[i] \in Summaries /\ "full" \in Fidelities /\ seeds \in Seq(Int)
        /\ delta \in Int /\ trust \in Trusts
        /\ shape \in [trade : Trades, diverse : BOOLEAN]
    BY <1>5, <1>9, <1>10, <1>11
  <2> QED
    BY <1>12, <2>1, EvaluatedLanes, SMTT(60)
<1>14. s.verdict # "no_op" =>
          /\ ruling \in Rulings /\ ruling.decision # "open"
          /\ ruling.decision = "promote" => Len(s.seeds) < RequiredSeeds
          /\ ruling.decision = "accept" =>
                 /\ Len(s.seeds) = RequiredSeeds /\ s.integrity = "clean"
                 /\ Mean2(s.seeds) > 2 * ScoreIn(h, h[i].parent)
          /\ ruling.bestOk =>
                 /\ ruling.decision = "accept" /\ s.verdict = "accepted"
                 /\ s.fidelity = "full" /\ LastOf(s.seeds) > RefScore(best)
  BY <1>6, <1>10, <1>13
<1> HIDE DEF ruling
<1>15. /\ s.status = "open" /\ ~s.bestOk /\ (s.fidelity = "full" => s.seeds # <<>>)
       /\ s.trade # "none" => s.method = "pairwise"
  BY <1>5, <1>9, <1>11, <1>13
<1> QED
  BY <1>1, <1>4, <1>13, <1>14, <1>15, JudgeStep

\* A step that leaves every decision alone appoints nobody.
LEMMA OtherLaneSteps ==
  ASSUME CampaignInv, NEW i \in Ids(h), Open(i), NEW t \in Summaries,
         h' = [h EXCEPT ![i] = t], t.parent = h[i].parent, t.method = h[i].method,
         t.comps = h[i].comps, Coherent(t, ScoreIn(h, h[i].parent)),
         ~t.bestOk, best' = best, pressure' = pressure, width' = width,
         status' = status, NEW b \in SUBSET Nat, round' = [round EXCEPT !.broken = b]
  PROVE  CampaignInv' /\ Appointed
<1>1. /\ best # i /\ pressure' \in [incumbent : Int, count : Nat]
      /\ RefScore(best) <= pressure'.incumbent + Epsilon
      /\ h \in Seq(Summaries) /\ Ids(h) = 1 .. Len(h)
  BY DEF CampaignInv, BestIsAccepted, BestNearIncumbent, Open, Ids, TypeOK
<1>2. Appointed
  BY <1>1 DEF Appointed
<1> QED
  BY <1>1, <1>2, LaneStep

\* A lane whose parent has no full evaluation breaks its round.
LEMMA ReferenceIsMissingStep ==
  ASSUME CampaignInv, NEW i \in Ids(h), ReferenceIsMissing(i)
  PROVE  CampaignInv' /\ Appointed
<1>1. Open(i) /\ h' = [h EXCEPT ![i] = h[i]]
  BY DEF ReferenceIsMissing, CampaignInv, TypeOK
<1>2. /\ round.broken \cup {i} \in SUBSET Nat
      /\ round' = [round EXCEPT !.broken = round.broken \cup {i}]
      /\ best' = best /\ pressure' = pressure /\ width' = width /\ status' = status
  BY DEF ReferenceIsMissing, CampaignInv, TypeOK, Ids
<1>3. h[i] \in Summaries /\ ~h[i].bestOk /\ Coherent(h[i], ScoreIn(h, h[i].parent))
  BY <1>1, OpenLanes
<1> QED
  BY <1>1, <1>2, <1>3, OtherLaneSteps

\* A lane handed back as a no-op, and one that is abandoned.
LEMMA ClosedWithoutResult ==
  ASSUME CampaignInv, NEW i \in Ids(h), NoOpIsReturned(i) \/ Abandoned(i)
  PROVE  CampaignInv' /\ Appointed
<1>1. /\ Open(i) /\ round' = [round EXCEPT !.broken = round.broken]
      /\ round.broken \in SUBSET Nat
      /\ best' = best /\ pressure' = pressure /\ width' = width /\ status' = status
  BY DEF NoOpIsReturned, Abandoned, CampaignInv, TypeOK
<1>2. /\ h[i] \in Summaries /\ ~h[i].bestOk /\ Coherent(h[i], ScoreIn(h, h[i].parent))
      /\ h[i].status = "open" /\ h[i].decision \in {"open", "promote"}
  BY <1>1, OpenLanes
<1>3. PICK t \in Summaries :
          /\ h' = [h EXCEPT ![i] = t] /\ t.parent = h[i].parent
          /\ t.method = h[i].method /\ t.comps = h[i].comps /\ ~t.bestOk
          /\ Coherent(t, ScoreIn(h, h[i].parent))
  <2>1. CASE NoOpIsReturned(i)
    <3> DEFINE t == [h[i] EXCEPT !.status = "no_op"]
    <3>1. h' = [h EXCEPT ![i] = t] /\ h[i].verdict = "no_op"
      BY <2>1 DEF NoOpIsReturned
    <3>2. /\ t \in Summaries /\ t.parent = h[i].parent /\ t.method = h[i].method
          /\ t.comps = h[i].comps /\ ~t.bestOk /\ t.status = "no_op"
          /\ t.decision = h[i].decision /\ t.verdict = h[i].verdict
          /\ t.trade = h[i].trade
      BY <1>2 DEF Summaries, Statuses
    <3> HIDE DEF t
    <3>3. Coherent(t, ScoreIn(h, h[i].parent))
      BY <1>2, <3>1, <3>2 DEF Coherent
    <3> QED
      BY <3>1, <3>2, <3>3
  <2>2. CASE Abandoned(i)
    <3>1. PICK decision \in {"invalid", h[i].decision}, output \in {h[i].output, "rejected"} :
              h' = [h EXCEPT ![i] = [h[i] EXCEPT !.decision = decision,
                                         !.output = output, !.status = "invalid"]]
      BY <2>2 DEF Abandoned
    <3> DEFINE t == [h[i] EXCEPT !.decision = decision, !.output = output,
                                 !.status = "invalid"]
    <3>2. /\ t \in Summaries /\ t.parent = h[i].parent /\ t.method = h[i].method
          /\ t.comps = h[i].comps /\ ~t.bestOk /\ t.status = "invalid"
          /\ t.decision = decision /\ t.verdict = h[i].verdict
          /\ t.trade = h[i].trade
      BY <1>2 DEF Summaries, Statuses, Decisions
    <3> HIDE DEF t
    <3>3. Coherent(t, ScoreIn(h, h[i].parent))
      BY <1>2, <3>1, <3>2 DEF Coherent
    <3> QED
      BY <3>1, <3>2, <3>3 DEF t
  <2> QED
    BY <2>1, <2>2
<1> QED
  BY <1>1, <1>3, OtherLaneSteps

\* Every step of a lane.
LEMMA LaneSteps ==
  ASSUME CampaignInv, NEW i \in Ids(h), Lane(i)
  PROVE  CampaignInv' /\ Appointed
BY ProxyStep, FullStep, ReferenceIsMissingStep, ClosedWithoutResult DEF Lane

----------------------------------------------------------------------------
(* The lanes of a round.                                                   *)

\* What a sequence holds is finite, and each of it has a position.
LEMMA SequencesAreFinite ==
  ASSUME NEW S, NEW s \in Seq(S)
  PROVE  /\ IsFiniteSet(ToSet(s))
         /\ \A x \in ToSet(s) : Position(s, x) \in Nat
<1>1. IsFiniteSet(ToSet(s))
  <2>1. s \in Surjection(1 .. Len(s), ToSet(s))
    BY DEF Surjection, ToSet
  <2>2. IsFiniteSet(1 .. Len(s))
    BY FS_Interval
  <2> QED
    BY <2>1, <2>2, FS_Surjection
<1>2. \A x \in ToSet(s) : Position(s, x) \in DOMAIN s
  BY DEF Position, ToSet
<1> QED
  BY <1>1, <1>2

\* The playbook has finitely many methods, and none comes before itself.
LEMMA PlaybookIsFinite ==
  IsFiniteSet(Methods) /\ \A m \in Methods : ~CardBefore(m, m)
<1>1. FamilyOrder \in Seq(Families) /\ \A f \in Families : MethodOrder[f] \in Seq(Methods)
  BY SearchAssumption
<1>2. IsFiniteSet(Families) /\ \A f \in Families : IsFiniteSet(Cards(f))
  BY <1>1, SequencesAreFinite DEF Families, Cards
<1>3. IsFiniteSet({Cards(f) : f \in Families})
  <2> DEFINE g == [f \in Families |-> Cards(f)]
  <2>1. g \in Surjection(Families, {Cards(f) : f \in Families})
    BY DEF Surjection
  <2> HIDE DEF g
  <2> QED
    BY <1>2, <2>1, FS_Surjection
<1>4. IsFiniteSet(Methods)
  BY <1>2, <1>3, FS_UNION DEF Methods
<1>5. ASSUME NEW m \in Methods PROVE ~CardBefore(m, m)
  <2>1. FamilyOf(m) \in ToSet(FamilyOrder) /\ m \in ToSet(MethodOrder[FamilyOf(m)])
    BY FamilyOfAMethod DEF Families, Cards
  <2>2. /\ Position(FamilyOrder, FamilyOf(m)) \in Nat
        /\ Position(MethodOrder[FamilyOf(m)], m) \in Nat
    BY <1>1, <2>1, FamilyOfAMethod, SequencesAreFinite
  <2> QED
    BY <2>2 DEF CardBefore, FamilyBefore
<1> QED
  BY <1>4, <1>5

\* The scouts of a primary: other methods, legal and from the frontier.
LEMMA ScoutsAreSound ==
  ASSUME NEW g, History(g), NEW primary
  PROVE  /\ IsFiniteSet(Scouts(g, primary))
         /\ \A c \in Scouts(g, primary) :
                /\ IsOffer(c) /\ c.parent \in Frontier(g)
                /\ \A d \in primary : d.method # c.method
         /\ \A c, d \in Scouts(g, primary) : c.method = d.method => c = d
<1> DEFINE spent == {g[i].method : i \in Ids(g)} \cup {c.method : c \in primary}
           fresh == (UNION {Legal(g, f) : f \in Families \ {"ensemble"}}) \ spent
           p == BestParent(g, Frontier(g))
           scout == [m \in fresh |-> Choice(p, m, {}, "parallel_round")]
<1>1. Scouts(g, primary) = {Choice(p, m, {}, "parallel_round") : m \in fresh}
  BY DEF Scouts
<1>2. fresh \subseteq Methods /\ \A m \in fresh : \A d \in primary : d.method # m
  <2>1. fresh \subseteq Methods
    <3> SUFFICES ASSUME NEW m \in fresh PROVE m \in Methods
      OBVIOUS
    <3>1. PICK f \in Families \ {"ensemble"} : m \in Legal(g, f)
      OBVIOUS
    <3> QED
      BY <3>1, LegalCards
  <2>2. \A d \in primary : d.method \in spent
    OBVIOUS
  <2>3. \A m \in fresh : m \notin spent
    OBVIOUS
  <2> HIDE DEF fresh, spent
  <2> QED
    BY <2>1, <2>2, <2>3
<1>3. p \in Frontier(g) /\ p \in Nat
  BY FrontierIsScored, ScoresAreNumbers
<1> HIDE DEF fresh, p
<1>4. \A m \in fresh : /\ Choice(p, m, {}, "parallel_round").method = m
                       /\ Choice(p, m, {}, "parallel_round").parent = p
                       /\ Choice(p, m, {}, "parallel_round").comps = {}
  BY DEF Choice
<1>5. IsFiniteSet(fresh)
  BY <1>2, PlaybookIsFinite, FS_Subset
<1>6. scout \in Surjection(fresh, Scouts(g, primary))
  BY <1>1 DEF Surjection
<1>7. IsFiniteSet(Scouts(g, primary))
  <2> HIDE DEF scout
  <2> QED
    BY <1>5, <1>6, FS_Surjection
<1>8. \A c \in Scouts(g, primary) :
          /\ IsOffer(c) /\ c.parent \in Frontier(g)
          /\ \A d \in primary : d.method # c.method
  BY <1>1, <1>2, <1>3, <1>4 DEF IsOffer
<1>9. \A c, d \in Scouts(g, primary) : c.method = d.method => c = d
  BY <1>1, <1>4
<1> QED
  BY <1>7, <1>8, <1>9

\* A sound choice is an offer.
LEMMA SoundChoicesAreOffers ==
  ASSUME TypeOK, NEW c, SoundChoice(h, c)
  PROVE  IsOffer(c)
<1>1. c.parent \in Nat
  BY AdmittedParents DEF SoundChoice, TypeOK
<1>2. c.method \in Methods
  BY LegalCards DEF SoundChoice
<1>3. c.comps \in SUBSET Nat
  BY DEF SoundChoice, Ids
<1> QED
  BY <1>1, <1>2, <1>3 DEF IsOffer, SoundChoice

\* A round has at least one lane; the lanes of a round that is valid and new can
\* be launched together.
LEMMA RoundsAreLaunchable ==
  ASSUME CampaignInv, CanPlan, NEW lanes \in Rounds, AllValid(lanes), ~Repeated(lanes)
  PROVE  Launchable(lanes)
<1>1. /\ TypeOK /\ History(h) /\ width \in Nat \ {0} /\ Len(h) \in Nat
      /\ MaxExperiments - Len(h) \in Nat \ {0}
  BY SearchIsAHistory, CampaignAssumption DEF CampaignInv, TypeOK, CanPlan, StopRule
<1>2. PICK primary \in Primaries : lanes \in RoundsOf(primary) /\ lanes # <<>>
  <2> DEFINE A == UNION {RoundsOf(primary) : primary \in Primaries}
  <2>0. lanes \in A \ {<<>>}
    BY DEF Rounds
  <2> HIDE DEF A
  <2>1. lanes \in A /\ lanes # <<>>
    BY <2>0
  <2> USE DEF A
  <2>2. PICK R \in {RoundsOf(primary) : primary \in Primaries} : lanes \in R
    BY <2>1
  <2> QED
    BY <2>1, <2>2
<1> DEFINE choices == primary \cup Scouts(h, primary)
           N == RoundSize(choices)
<1>3. /\ IsFiniteSet(primary) /\ \A c \in primary : IsOffer(c)
      /\ \A c, d \in primary : c = d
  <2>1. \A c \in Choose(h) : IsOffer(c)
    BY <1>1, ChoicesAreSound, SoundChoicesAreOffers
  <2>2. primary = {} \/ \E c \in Choose(h) : primary = {c}
    BY DEF Primaries
  <2>3. CASE primary = {}
    BY <2>3, FS_EmptySet
  <2>4. ASSUME NEW c \in Choose(h), primary = {c}
        PROVE  /\ IsFiniteSet(primary) /\ \A d \in primary : IsOffer(d)
               /\ \A d, e \in primary : d = e
    BY <2>1, <2>4, FS_Singleton
  <2> QED
    BY <2>2, <2>3, <2>4
<1>4. /\ IsFiniteSet(Scouts(h, primary))
      /\ \A c \in Scouts(h, primary) :
             /\ IsOffer(c) /\ c.parent \in Frontier(h)
             /\ \A d \in primary : d.method # c.method
      /\ \A c, d \in Scouts(h, primary) : c.method = d.method => c = d
  BY <1>1, ScoutsAreSound
<1>5. N \in Nat
  <2>1. IsFiniteSet(choices) /\ Cardinality(choices) \in Nat
    BY <1>3, <1>4, FS_Union, FS_CardinalityType
  <2> HIDE DEF choices
  <2> DEFINE W == width
             R == MaxExperiments - Len(h)
             K == Cardinality(choices)
  <2>2. W \in Nat /\ R \in Nat /\ K \in Nat
    BY <1>1, <2>1
  <2>3. N = CHOOSE n \in 0 .. K : n <= W /\ n <= R /\ n \in {W, R, K}
    BY DEF RoundSize
  <2> HIDE DEF W, R, K, N
  <2>4. \E n \in 0 .. K : n <= W /\ n <= R /\ n \in {W, R, K}
    <3>1. CASE W <= R /\ W <= K
      BY <2>2, <3>1
    <3>2. CASE R <= W /\ R <= K
      BY <2>2, <3>2
    <3>3. CASE K <= W /\ K <= R
      BY <2>2, <3>3
    <3> QED
      BY <2>2, <3>1, <3>2, <3>3
  <2>5. N \in 0 .. K
    BY <2>3, <2>4
  <2> QED
    BY <2>2, <2>5
<1>6. /\ lanes \in [1 .. N -> choices]
      /\ \A n \in 1 .. N : \A c \in choices :
             Leads(primary, c, lanes[n]) <=> \E k \in 1 .. n - 1 : lanes[k] = c
  BY <1>2 DEF RoundsOf
<1> HIDE DEF N
<1>7. lanes \in Seq(choices) /\ DOMAIN lanes = 1 .. N
  BY <1>5, <1>6
<1>8. ASSUME NEW n \in 1 .. N, n # 1
      PROVE  lanes[n] \in Scouts(h, primary)
  <2>1. 1 \in 1 .. n - 1 /\ 1 \in 1 .. N /\ lanes[1] \in choices
    BY <1>5, <1>6, <1>8
  <2>2. Leads(primary, lanes[1], lanes[n])
    BY <1>6, <2>1
  <2>3. lanes[n] \notin primary
    BY <2>2 DEF Leads
  <2> QED
    BY <1>6, <2>3
<1>9. ASSUME NEW k \in 1 .. N, NEW n \in 1 .. N, k < n
      PROVE  lanes[k].method # lanes[n].method
  <2> SUFFICES ASSUME lanes[k].method = lanes[n].method PROVE FALSE
    OBVIOUS
  <2>1. lanes[n] \in Scouts(h, primary)
    BY <1>5, <1>8, <1>9
  <2>2. lanes[k] \in Scouts(h, primary)
    BY <1>4, <1>6, <2>1
  <2>3. lanes[k] = lanes[n]
    BY <1>4, <2>1, <2>2
  <2>4. k \in 1 .. n - 1
    BY <1>5, <1>9
  <2>5. Leads(primary, lanes[n], lanes[n])
    BY <1>6, <2>1, <2>3, <2>4
  <2>6. lanes[n].method \in Methods
    BY <1>4, <2>1 DEF IsOffer
  <2> QED
    BY <2>5, <2>6, PlaybookIsFinite DEF Leads
<1>10. \A n \in 1 .. N :
           /\ IsOffer(lanes[n]) /\ ParentAdmitted(h, lanes[n])
           /\ n # 1 => lanes[n].parent \in Frontier(h)
           /\ Twins(h, lanes[n]) # {} => AuthorizedNoOp(h, lanes[n])
  <2> SUFFICES ASSUME NEW n \in 1 .. N
               PROVE  /\ IsOffer(lanes[n]) /\ ParentAdmitted(h, lanes[n])
                      /\ n # 1 => lanes[n].parent \in Frontier(h)
                      /\ Twins(h, lanes[n]) # {} => AuthorizedNoOp(h, lanes[n])
    OBVIOUS
  <2>1. Valid(h, lanes[n])
    BY <1>7 DEF AllValid
  <2>2. IsOffer(lanes[n])
    BY <1>3, <1>4, <1>6
  <2>3. n # 1 => lanes[n].parent \in Frontier(h)
    BY <1>4, <1>8
  <2> QED
    BY <2>1, <2>2, <2>3 DEF Valid
<1>11. \A m, n \in 1 .. N : m # n => lanes[m].method # lanes[n].method
  <2> SUFFICES ASSUME NEW m \in 1 .. N, NEW n \in 1 .. N, m # n
               PROVE  lanes[m].method # lanes[n].method
    OBVIOUS
  <2>1. m < n \/ n < m
    BY <1>5
  <2> QED
    BY <1>9, <2>1
<1> QED
  BY <1>2, <1>7, <1>10, <1>11 DEF Launchable

----------------------------------------------------------------------------
(* Planning and the end of a round.                                        *)

\* A step that changes no experiment, and plans again only when all are over.
LEMMA QuietStep ==
  ASSUME CampaignInv, UNCHANGED <<width, h, best, pressure>>,
         round' = round \/ round' = NoRound,
         status' \in {"planning", "refused", "stopped", "planning_failure"},
         status' \in {"planning", "refused"} => \A i \in Ids(h) : Closed(h, i)
  PROVE  CampaignInv' /\ Appointed
<1> USE DEF CampaignInv
<1>1. h' = h /\ width' = width /\ best' = best /\ pressure' = pressure
  OBVIOUS
<1>2. TypeOK'
  <2>1. round' \in [members : SUBSET Ids(h), start : Int, parallel : BOOLEAN,
                   broken : SUBSET Nat]
    <3>1. NoRound \in [members : SUBSET Ids(h), start : Int, parallel : BOOLEAN,
                       broken : SUBSET Nat]
      BY DEF NoRound
    <3> QED
      BY <3>1 DEF TypeOK
  <2>2. status' \in {"planning", "running", "refused", "stopped", "planning_failure"}
    OBVIOUS
  <2> QED
    BY <1>1, <2>1, <2>2 DEF TypeOK, Ids
<1>3. SummariesCohere' /\ RepeatsFollowNoOps' /\ BestIsAccepted'
  BY <1>1 DEF SummariesCohere, RepeatsFollowNoOps, BestIsAccepted
<1>4. RoundsAreApart'
  BY <1>1 DEF RoundsAreApart
<1>5. BestNearIncumbent'
  BY <1>1 DEF BestNearIncumbent, RefScore
<1>6. BranchesRestOnEvidence'
  BY <1>1 DEF BranchesRestOnEvidence, RefScore
<1>7. Appointed
  BY <1>1 DEF Appointed
<1> QED
  BY <1>2, <1>3, <1>4, <1>5, <1>6, <1>7

\* So do the steps that halt.
LEMMA HaltStep ==
  ASSUME CampaignInv, NEW state, NEW why, Halt(state, why),
         state \in {"planning", "refused", "stopped", "planning_failure"},
         state \in {"planning", "refused"} => \A i \in Ids(h) : Closed(h, i)
  PROVE  CampaignInv' /\ Appointed
BY QuietStep DEF Halt

\* One valid choice can be launched alone.
LEMMA ValidChoicesAreLaunchable ==
  ASSUME NEW c, IsOffer(c), Valid(h, c)
  PROVE  Launchable(<<c>>)
<1>1. <<c>> \in Seq({c}) /\ <<c>> # <<>> /\ DOMAIN <<c>> = {1} /\ <<c>>[1] = c
  OBVIOUS
<1>2. ParentAdmitted(h, c) /\ (Twins(h, c) # {} => AuthorizedNoOp(h, c))
  BY DEF Valid
<1> QED
  BY <1>1, <1>2 DEF Launchable

\* Launching leaves the older experiments alone.
LEMMA StartStep ==
  ASSUME CampaignInv, \A i \in Ids(h) : Closed(h, i),
         NEW lanes, Launchable(lanes), NEW parallel \in BOOLEAN,
         Launch(lanes, parallel)
  PROVE  CampaignInv' /\ Appointed
BY LaunchStep DEF Appointed

\* Every step of the planner.
LEMMA PlanningSteps ==
  ASSUME CampaignInv, Planning
  PROVE  CampaignInv' /\ Appointed
<1>1. status \in {"planning", "refused"} => \A i \in Ids(h) : Closed(h, i)
  BY DEF CampaignInv, RoundsAreApart
<1>2. CASE StopByRule
  BY <1>2, HaltStep DEF StopByRule
<1>3. CASE RoundStarts
  <2>1. PICK lanes \in Rounds :
            AllValid(lanes) /\ ~Repeated(lanes) /\ Launch(lanes, TRUE)
    BY <1>3 DEF RoundStarts
  <2>2. CanPlan /\ \A i \in Ids(h) : Closed(h, i)
    BY <1>1, <1>3 DEF RoundStarts, RoundTurn, CanPlan
  <2>3. Launchable(lanes)
    BY <2>1, <2>2, RoundsAreLaunchable
  <2> QED
    BY <2>1, <2>2, <2>3, StartStep
<1>4. CASE ExperimentStarts
  <2>1. PICK c \in Choose(h) : Valid(h, c) /\ Launch(<<c>>, FALSE)
    BY <1>4 DEF ExperimentStarts
  <2>2. \A i \in Ids(h) : Closed(h, i)
    BY <1>1, <1>4 DEF ExperimentStarts, SingleTurn, CanPlan
  <2>3. IsOffer(c)
    BY SearchIsAHistory, ChoicesAreSound, SoundChoicesAreOffers DEF CampaignInv
  <2> QED
    BY <2>1, <2>2, <2>3, ValidChoicesAreLaunchable, StartStep
<1>5. CASE RoundIsIncomplete
  BY <1>5, HaltStep DEF RoundIsIncomplete
<1>6. CASE RoundRepeatsItself
  BY <1>6, HaltStep DEF RoundRepeatsItself
<1>7. CASE AdviceIsRefused \/ PlanIsRefused
  BY <1>1, <1>7, HaltStep DEF AdviceIsRefused, PlanIsRefused, SingleTurn, CanPlan
<1>8. CASE NothingIsLegal \/ ProviderFails
  BY <1>8, HaltStep DEF NothingIsLegal, ProviderFails
<1>9. CASE Resume
  BY <1>1, <1>9, HaltStep DEF Resume
<1> QED
  BY <1>2, <1>3, <1>4, <1>5, <1>6, <1>7, <1>8, <1>9 DEF Planning

\* The improvements of a round are its accepted lanes.
LEMMA SynthesesAreOffers ==
  ASSUME CampaignInv, NEW c \in Syntheses
  PROVE  IsOffer(c) /\ Valid(h, c)
<1>1. Valid(h, c) /\ c \in Synthesis(h, Improvements)
  BY DEF Syntheses
<1>2. /\ c.method = "synthesis"
      /\ c.comps = Improvements \ {BestParent(h, Improvements)}
  BY <1>1 DEF Synthesis, Choice
<1>3. Improvements \subseteq Nat
  BY DEF Improvements, CampaignInv, TypeOK, Ids
<1>4. c.parent \in Nat
  BY <1>1, AdmittedParents DEF Valid, CampaignInv, TypeOK
<1> QED
  BY <1>1, <1>2, <1>3, <1>4, NamedCards DEF IsOffer

\* A round that is done with nothing broken has nothing open.
LEMMA RoundsClose ==
  ASSUME CampaignInv, RoundDone, round.broken = {}
  PROVE  \A i \in Ids(h) : Closed(h, i)
BY DEF CampaignInv, RoundsAreApart, RoundDone, Closed

\* Every step that ends a round.
LEMMA ClosingSteps ==
  ASSUME CampaignInv, Closing
  PROVE  CampaignInv' /\ Appointed
<1>1. CASE RoundEnds
  <2>1. \A i \in Ids(h) : Closed(h, i)
    BY <1>1, RoundsClose DEF RoundEnds
  <2> QED
    BY <1>1, <2>1, QuietStep DEF RoundEnds
<1>2. CASE RoundIsBroken
  BY <1>2, HaltStep DEF RoundIsBroken
<1>3. CASE SynthesisIsPlanned
  <2>1. \A i \in Ids(h) : Closed(h, i)
    BY <1>3, RoundsClose DEF SynthesisIsPlanned
  <2>2. \/ /\ round' = NoRound /\ status' = "refused"
           /\ UNCHANGED <<width, h, best, pressure, shown>>
        \/ \E c \in Syntheses : Launch(<<c>>, FALSE)
        \/ Halt("stopped", "provider_failure")
    BY <1>3 DEF SynthesisIsPlanned
  <2>3. CASE /\ round' = NoRound /\ status' = "refused"
             /\ UNCHANGED <<width, h, best, pressure, shown>>
    BY <2>1, <2>3, QuietStep
  <2>4. ASSUME NEW c \in Syntheses, Launch(<<c>>, FALSE)
        PROVE  CampaignInv' /\ Appointed
    BY <2>1, <2>4, SynthesesAreOffers, ValidChoicesAreLaunchable, StartStep
  <2>5. CASE Halt("stopped", "provider_failure")
    BY <2>5, HaltStep
  <2> QED
    BY <2>2, <2>3, <2>4, <2>5
<1> QED
  BY <1>1, <1>2, <1>3 DEF Closing

\* A search begins with nothing planned.
LEMMA CampaignInit ==
  ASSUME Init
  PROVE  CampaignInv
<1>1. /\ width \in Nat \ {0} /\ h = <<>> /\ best = 0 /\ pressure = Fresh
      /\ round = NoRound /\ status = "planning"
  BY CampaignAssumption DEF Init
<1>2. Len(h) = 0 /\ Ids(h) = {} /\ h \in Seq(Summaries)
  BY <1>1 DEF Ids
<1>3. TypeOK
  BY <1>1, <1>2 DEF TypeOK, Fresh, NoRound
<1>4. BestNearIncumbent
  BY <1>1 DEF BestNearIncumbent, RefScore, Fresh, Epsilon
<1> QED
  BY <1>1, <1>2, <1>3, <1>4 DEF CampaignInv, SummariesCohere, RoundsAreApart,
     BestIsAccepted, RepeatsFollowNoOps, BranchesRestOnEvidence

\* Every step keeps the invariant and appoints whoever it makes eligible.
LEMMA CampaignStep ==
  ASSUME CampaignInv, Next
  PROVE  CampaignInv' /\ Appointed
BY PlanningSteps, LaneSteps, ClosingSteps DEF Next

\* A step that changes nothing keeps the invariant too.
LEMMA CampaignStutter ==
  ASSUME CampaignInv, UNCHANGED vars
  PROVE  CampaignInv'
<1>1. /\ h' = h /\ width' = width /\ best' = best /\ pressure' = pressure
      /\ round' = round /\ status' = status
  BY DEF vars
<1> QED
  BY <1>1 DEF CampaignInv, TypeOK, SummariesCohere, RoundsAreApart, BestIsAccepted,
     RepeatsFollowNoOps, BestNearIncumbent, BranchesRestOnEvidence, RefScore

----------------------------------------------------------------------------
(* What the planner, the validator and the ledger agree on.                *)

\* What the policy offers for the first time, the validator accepts.
LEMMA NewChoicesAreValid ==
  ASSUME CampaignInv, NEW c \in Choose(h), Twins(h, c) = {},
         FamilyOf(c.method) = "ensemble" => c.comps # {}
  PROVE  Valid(h, c)
<1>1. SoundChoice(h, c)
  BY SearchIsAHistory, ChoicesAreSound DEF CampaignInv
<1> QED
  BY <1>1 DEF SoundChoice, Valid

\* An authorised reimplementation repeats the latest experiment and no other.
LEMMA OneReimplementation ==
  ASSUME CampaignInv, NEW c, c.comps = {}, FamilyOf(c.method) # "ensemble",
         Twins(h, c) # {}, AuthorizedNoOp(h, c)
  PROVE  Twins(h, c) = {Len(h)} /\ h[Len(h)].status = "no_op"
<1> DEFINE n == Len(h)
           N == {i \in Ids(h) : h[i].verdict = "no_op" /\ SameMechanism(h[i], c)}
<1>1. /\ h \in Seq(Summaries) /\ n \in Nat /\ Ids(h) = 1 .. n /\ n \in Ids(h)
      /\ Last(h) = h[n]
  <2>1. h \in Seq(Summaries) /\ n \in Nat /\ Ids(h) = 1 .. n
    BY DEF CampaignInv, TypeOK, Ids
  <2>2. n # 0
    BY <2>1 DEF Twins
  <2> QED
    BY <2>1, <2>2 DEF Last
<1>2. h[n].status = "no_op" /\ h[n].parent = c.parent /\ h[n].method = c.method
  BY <1>1 DEF AuthorizedNoOp, SameMechanism
<1>3. h[n].verdict = "no_op" /\ h[n].comps = {}
  BY <1>1, <1>2 DEF CampaignInv, SummariesCohere, Coherent
<1>4. N = {n}
  <2>1. IsFiniteSet(N) /\ Cardinality(N) = 1
    <3>1. IsFiniteSet(1 .. n) /\ N \subseteq 1 .. n
      BY <1>1, FS_Interval
    <3>2. Cardinality(N) = 1
      BY DEF AuthorizedNoOp, NoOpsLike
    <3> QED
      BY <3>1, <3>2, FS_Subset
  <2>2. n \in N
    BY <1>1, <1>2, <1>3 DEF SameMechanism
  <2> HIDE DEF N
  <2> QED
    BY <2>1, <2>2, FS_Singleton
<1>5. n \in Twins(h, c)
  BY <1>1, <1>2, <1>3 DEF Twins, Key
<1>6. ASSUME NEW i \in Twins(h, c), i # n PROVE FALSE
  <2>1. i \in 1 .. n /\ i < n /\ Key(h[i]) = Key(h[n])
    BY <1>1, <1>5, <1>6 DEF Twins
  <2>2. PICK k \in 1 .. n - 1 : h[k].verdict = "no_op" /\ SameMechanism(h[k], h[n])
    BY <1>1, <2>1 DEF CampaignInv, RepeatsFollowNoOps
  <2>3. k \in Ids(h) /\ SameMechanism(h[k], c) /\ k # n
    BY <1>1, <1>2, <2>2 DEF SameMechanism
  <2>4. k \in N
    BY <2>2, <2>3
  <2> QED
    BY <1>4, <2>3, <2>4
<1> QED
  BY <1>2, <1>5, <1>6

\* What the validator accepts of the policy's choices, the ledger records.
LEMMA ValidChoicesAreRecordable ==
  ASSUME CampaignInv, NEW c \in Choose(h), Valid(h, c)
  PROVE  Recordable(h, c)
<1>1. SoundChoice(h, c)
  BY SearchIsAHistory, ChoicesAreSound DEF CampaignInv
<1>2. CASE Twins(h, c) = {}
  BY <1>2, FS_EmptySet DEF Recordable
<1>3. CASE Twins(h, c) # {}
  <2>1. AuthorizedNoOp(h, c) /\ c.comps = {} /\ FamilyOf(c.method) # "ensemble"
    BY <1>1, <1>3 DEF Valid, SoundChoice, AuthorizedNoOp
  <2>2. Twins(h, c) = {Len(h)} /\ h[Len(h)].status = "no_op"
    BY <1>3, <2>1, OneReimplementation
  <2>3. Cardinality(Twins(h, c)) = 1
    BY <2>2, FS_Singleton
  <2> QED
    BY <2>2, <2>3 DEF Recordable
<1> QED
  BY <1>2, <1>3

\* The improvements of a round that is over: accepted experiments, none of them
\* branched from by another of the round.
LEMMA ImprovementsAreAccepted ==
  ASSUME CampaignInv, status = "running"
  PROVE  \A i \in Improvements :
             /\ i \in Ids(h) /\ i # 0 /\ i \in Frontier(h) /\ Scored(h, i)
             /\ h[i].decision = "accept" /\ h[i].verdict = "accepted"
             /\ \A j \in Ids(h) : h[j].parent # i
<1>1. History(h)
  BY SearchIsAHistory DEF CampaignInv
<1> SUFFICES ASSUME NEW i \in Improvements
             PROVE  /\ i \in Ids(h) /\ i # 0 /\ i \in Frontier(h) /\ Scored(h, i)
                    /\ h[i].decision = "accept" /\ h[i].verdict = "accepted"
                    /\ \A j \in Ids(h) : h[j].parent # i
  OBVIOUS
<1>2. /\ i \in round.members /\ h[i].status = "accepted" /\ h[i].bestOk
      /\ i \in Ids(h) /\ i # 0
  BY DEF Improvements, CampaignInv, TypeOK, Ids
<1>3. h[i].decision = "accept" /\ h[i].verdict = "accepted"
  BY <1>2 DEF CampaignInv, SummariesCohere, Coherent
<1>4. i \in Frontier(h) /\ Scored(h, i)
  BY <1>1, <1>2, <1>3 DEF Frontier, History
<1>5. \A j \in Ids(h) : h[j].parent # i
  BY <1>2 DEF CampaignInv, RoundsAreApart
<1> QED
  BY <1>2, <1>3, <1>4, <1>5

\* Two improvements confirm what a synthesis asks for.
LEMMA SynthesisIsLegal ==
  ASSUME CampaignInv, status = "running", Cardinality(Improvements) >= 2
  PROVE  "synthesis" \in Legal(h, "ensemble")
<1> DEFINE A == {i \in Ids(h) : h[i].decision = "accept" /\ h[i].verdict = "accepted"}
<1>1. Improvements \subseteq A
  BY ImprovementsAreAccepted
<1>2. IsFiniteSet(A)
  <2>1. IsFiniteSet(1 .. Len(h)) /\ A \subseteq 1 .. Len(h)
    BY FS_Interval DEF Ids, CampaignInv, TypeOK
  <2> QED
    BY <2>1, FS_Subset
<1>3. Cardinality(A) >= 2
  <2> HIDE DEF A
  <2>1. /\ IsFiniteSet(Improvements) /\ Cardinality(Improvements) <= Cardinality(A)
        /\ Cardinality(Improvements) \in Nat /\ Cardinality(A) \in Nat
    BY <1>1, <1>2, FS_Subset, FS_CardinalityType
  <2> QED
    BY <2>1
<1>4. "two_confirmed" \in Capabilities(h)
  BY <1>3 DEF Capabilities
<1> QED
  BY <1>4, NamedCards, SearchAssumption DEF Legal

\* So the synthesis of the round is there, and valid.
LEMMA RoundsCanBeAligned ==
  ASSUME CampaignInv, status = "running", WantsSynthesis
  PROVE  Syntheses # {}
<1> DEFINE C == Improvements
           p == BestParent(h, C)
           c == Choice(p, "synthesis", C \ {p}, "synthesis")
<1>1. /\ \A i \in C : /\ i \in Ids(h) /\ i # 0 /\ i \in Frontier(h) /\ Scored(h, i)
                      /\ \A j \in Ids(h) : h[j].parent # i
      /\ Cardinality(C) >= 2 /\ "synthesis" \in Legal(h, "ensemble")
  BY ImprovementsAreAccepted, SynthesisIsLegal DEF WantsSynthesis
<1>2. IsFiniteSet(C) /\ Cardinality(C) \in Nat
  <2>1. IsFiniteSet(1 .. Len(h)) /\ C \subseteq 1 .. Len(h)
    BY <1>1, FS_Interval DEF Ids, CampaignInv, TypeOK
  <2> QED
    BY <2>1, FS_Subset, FS_CardinalityType
<1> HIDE DEF C
<1>3. C # {} /\ C # {p}
  BY <1>1, <1>2, FS_EmptySet, FS_Singleton
<1>4. p \in C
  BY <1>1, <1>3, SearchIsAHistory, BestParentIsAMember DEF CampaignInv
<1>5. C \ {p} # {}
  BY <1>3, <1>4
<1> HIDE DEF p
<1>6. /\ c.parent = p /\ c.method = "synthesis" /\ c.comps = C \ {p}
      /\ FamilyOf(c.method) = "ensemble"
  BY NamedCards DEF Choice
<1>7. c \in Synthesis(h, C)
  <2>1. ~(Cardinality(C) < 2 \/ "synthesis" \notin Legal(h, "ensemble"))
    BY <1>1, <1>2
  <2>2. Synthesis(h, C) = {c}
    BY <2>1 DEF Synthesis, p
  <2> QED
    BY <2>2
<1> HIDE DEF c
<1>8. Valid(h, c)
  <2>1. ParentAdmitted(h, c)
    BY <1>1, <1>4, <1>6 DEF ParentAdmitted
  <2>2. \A i \in c.comps : ComponentAdmitted(h, c, i)
    BY <1>1, <1>6 DEF ComponentAdmitted
  <2>3. Twins(h, c) = {}
    BY <1>1, <1>4, <1>6 DEF Twins, Key
  <2> QED
    BY <1>1, <1>5, <1>6, <2>1, <2>2, <2>3 DEF Valid
<1> QED
  BY <1>7, <1>8 DEF Syntheses, C

----------------------------------------------------------------------------
(* The theorems.                                                           *)

\* In every search the summaries cohere, rounds are apart, and the incumbent,
\* the repeats and the branches are in order.
THEOREM CampaignInvariance == Spec => []CampaignInv
<1>1. Init => CampaignInv
  BY CampaignInit
<1>2. CampaignInv /\ [Next]_vars => CampaignInv'
  BY CampaignStep, CampaignStutter
<1> QED
  BY <1>1, <1>2, PTL DEF Spec

\* The incumbent that convergence is measured from follows the best experiment
\* (convergence_pressure, best.updated).
THEOREM BestNearIncumbentTheorem == Spec => []BestNearIncumbent
<1>1. CampaignInv => BestNearIncumbent
  BY DEF CampaignInv
<1> QED
  BY <1>1, CampaignInvariance, PTL

\* Whatever was branched from gained over its own parent on two seeds, but for
\* the one refinement that the policy allows (eligible_parents, _soft_prune_choice).
THEOREM BranchesRestOnEvidenceTheorem == Spec => []BranchesRestOnEvidence
<1>1. CampaignInv => BranchesRestOnEvidence
  BY DEF CampaignInv
<1> QED
  BY <1>1, CampaignInvariance, PTL

\* The router appoints every experiment that the evaluation calls eligible for
\* the best: a mean above the incumbent is a last seed above it (decide,
\* run_one_experiment).
THEOREM EligibleIsAppointedTheorem == Spec => EligibleIsAppointed
<1>1. CampaignInv /\ [Next]_vars =>
          [\A i \in Ids(h) : h'[i].bestOk /\ ~h[i].bestOk => best' = i]_vars
  BY CampaignStep DEF Appointed
<1> QED
  BY <1>1, CampaignInvariance, PTL DEF Spec, EligibleIsAppointed

\* The policy offers what the validator accepts, and the ledger records what the
\* validator accepts (choose, validate_plan, duplicate_guard), for any playbook.
THEOREM PolicyAndValidatorAgreeTheorem == Spec => []PolicyAndValidatorAgree
<1>1. CampaignInv => PolicyAndValidatorAgree
  BY NewChoicesAreValid, ValidChoicesAreRecordable DEF PolicyAndValidatorAgree
<1> QED
  BY <1>1, CampaignInvariance, PTL

\* Two improvements of a round can always be aligned into a synthesis that the
\* validator accepts (choose_synthesis, _run_round_synthesis).
THEOREM SynthesisIsPossibleTheorem == Spec => []SynthesisIsPossible
<1>1. CampaignInv => SynthesisIsPossible
  BY RoundsCanBeAligned DEF SynthesisIsPossible, RoundDone
<1> QED
  BY <1>1, CampaignInvariance, PTL
=============================================================================
