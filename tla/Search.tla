------------------------------- MODULE Search -------------------------------
(***************************************************************************)
(* The search policy: from the planner's summaries of every experiment, in *)
(* proposal order, to the legal next choices. The optional ranker may take *)
(* any of them. Experiment 0 is the verified baseline.                     *)
(***************************************************************************)
EXTENDS Verdicts, FiniteSets, SequencesExt

CONSTANTS FamilyOrder,      \* the playbook's family_order, all of it allowed
          MethodOrder,      \* [family -> its method cards, in order]
          Prerequisites,    \* [method -> capabilities its card asks for]
          FrontierLimit

Families == ToSet(FamilyOrder)
Cards(f) == ToSet(MethodOrder[f])
Methods == UNION {Cards(f) : f \in Families}
FamilyOf(m) == CHOOSE f \in Families : m \in Cards(f)

\* The playbook's cards that the routes name, and what a synthesis asks for.
ASSUME SearchAssumption ==
    /\ FrontierLimit \in Nat \ {0}
    /\ FamilyOrder \in Seq(Families) /\ MethodOrder \in [Families -> Seq(Methods)]
    /\ \A f, g \in Families : f # g => Cards(f) \cap Cards(g) = {}
    /\ {"objective", "ensemble"} \subseteq Families
    /\ {"pairwise", "listwise"} \subseteq Cards("objective")
    /\ {"residual", "zblend", "synthesis"} \subseteq Cards("ensemble")
    /\ Prerequisites["synthesis"] \subseteq {"two_confirmed"}

\* The order of the playbook: families, then the cards of each.
Position(s, x) == CHOOSE n \in DOMAIN s : s[n] = x
FamilyBefore(f, g) == Position(FamilyOrder, f) < Position(FamilyOrder, g)
CardBefore(m, n) ==
    \/ FamilyBefore(FamilyOf(m), FamilyOf(n))
    \/ /\ FamilyOf(m) = FamilyOf(n)
       /\ Position(MethodOrder[FamilyOf(m)], m) < Position(MethodOrder[FamilyOf(m)], n)
First(cards) == {m \in cards : \A n \in cards \ {m} : CardBefore(m, n)}

Choice(parent, method, comps, phase) ==
    [parent |-> parent, method |-> method, comps |-> comps, phase |-> phase]

----------------------------------------------------------------------------
(* What the summaries say.                                                 *)

Ids(h) == 1 .. Len(h)
ScoreOf(h, i) == IF i = 0 THEN 0 ELSE Mean2(h[i].seeds)
Children(h, p) == {i \in Ids(h) : h[i].parent = p}
Depth(h, i) ==
    LET depth[j \in 0 .. Len(h)] == IF j = 0 THEN 0 ELSE 1 + depth[h[j].parent]
    IN  depth[i]

\* A terminal decision that left the mechanism tested.
Informative(s) == s.decision \in {"accept", "prune", "reject"}
                  \/ s.verdict = "negative"

Attempted(h, p) == {h[i].method : i \in {c \in Children(h, p) : Informative(h[c])}}

\* GraphView.eligible_parents over the planner's eligible_frontier.
Frontier(h) == {0} \cup {i \in Ids(h) : h[i].decision = "accept"}

TradeOff(s) == s.trade \in {"gauc_up", "ndcg_up"}

\* classify_search_eligibility, for a result that is clean but no branch point.
Soft(s) ==
    /\ s.output = "accepted" /\ s.integrity = "clean" /\ s.fidelity # "none"
    /\ s.verdict \in {"negative", "inconclusive", "accepted"}
    /\ s.stability # "unstable" /\ s.status # "invalid"
    /\ s.decision \notin {"accept", "invalid"} /\ s.delta >= -Epsilon
\* Mutant of RefinementEligible: any soft result may be refined
RefinementOfAnything(h, i) == Soft(h[i]) /\ Children(h, i) = {}

RefinementEligible(h, i) == Soft(h[i]) /\ Children(h, i) = {} /\ TradeOff(h[i])
EnsembleEligible(s) == Soft(s) /\ s.diverse

\* available_capabilities, the part that depends on the verified history.
Capabilities(h) ==
    {c \in {"pairwise_tested", "two_confirmed", "diverse_member"} :
        \/ c = "pairwise_tested" /\ \E i \in Ids(h) :
               /\ h[i].method = "pairwise" /\ h[i].integrity = "clean"
               /\ h[i].output = "accepted" /\ h[i].fidelity # "none"
        \/ c = "two_confirmed" /\ Cardinality({i \in Ids(h) :
               h[i].decision = "accept" /\ h[i].verdict = "accepted"}) >= 2
        \/ c = "diverse_member" /\ \E i \in Ids(h) : EnsembleEligible(h[i])}

Legal(h, f) == {m \in Cards(f) : Prerequisites[m] \subseteq Capabilities(h)}

----------------------------------------------------------------------------
(* Parents.                                                                *)

\* _best_parent: score, then fewest children, then the oldest.
Stronger(h, i, j) ==
    \/ ScoreOf(h, i) > ScoreOf(h, j)
    \/ /\ ScoreOf(h, i) = ScoreOf(h, j)
       /\ \/ Cardinality(Children(h, i)) < Cardinality(Children(h, j))
          \/ /\ Cardinality(Children(h, i)) = Cardinality(Children(h, j))
             /\ i < j
BestParent(h, E) == CHOOSE i \in E : \A j \in E \ {i} : Stronger(h, i, j)
BestExperimental(h) ==
    BestParent(h, IF Frontier(h) = {0} THEN {0} ELSE Frontier(h) \ {0})
LatestParent(h) ==
    IF Len(h) \in Frontier(h) THEN Len(h) ELSE BestParent(h, Frontier(h))

\* _depth_first_frontier: score, then depth, then the newest.
Before(h, i, j) ==
    \/ ScoreOf(h, i) > ScoreOf(h, j)
    \/ /\ ScoreOf(h, i) = ScoreOf(h, j)
       /\ \/ Depth(h, i) > Depth(h, j)
          \/ Depth(h, i) = Depth(h, j) /\ i > j
DepthFirstFrontier(h) ==
    {i \in Frontier(h) :
        Cardinality({j \in Frontier(h) : Before(h, j, i)}) < FrontierLimit}

----------------------------------------------------------------------------
(* Methods.                                                                *)

Untried(h, f, p) == Legal(h, f) \ Attempted(h, p)
FirstOf(cards, p, phase) == {Choice(p, m, {}, phase) : m \in First(cards)}

\* _method_for_family: the first untried card; ensembles name components elsewhere.
Next1(h, f, p, phase) ==
    IF f = "ensemble" THEN {} ELSE FirstOf(Untried(h, f, p), p, phase)

Preferred(h, m, p, comps, phase) ==
    {Choice(p, n, comps, phase) : n \in Untried(h, FamilyOf(m), p) \cap {m}}

\* _independent_choices: families other than the latest, untried ones first.
Tried(h) == {FamilyOf(h[i].method) : i \in Ids(h)}
Independent(h, f, p) == {g \in Families \ {f} : Next1(h, g, p, "playbook") # {}}
Sooner(h, f, g) ==
    \/ f \notin Tried(h) /\ g \in Tried(h)
    \/ (f \in Tried(h) <=> g \in Tried(h)) /\ FamilyBefore(f, g)
AllIndependent(h, f, p) ==
    UNION {Next1(h, g, p, "playbook") : g \in Independent(h, f, p)}
FirstIndependent(h, f, p) ==
    UNION {IF \A e \in Independent(h, f, p) \ {g} : Sooner(h, g, e)
           THEN Next1(h, g, p, "playbook") ELSE {} : g \in Independent(h, f, p)}

----------------------------------------------------------------------------
(* Routes.                                                                 *)

SameMechanism(a, b) == a.parent = b.parent /\ a.method = b.method
NoOpsLike(h, s) ==
    Cardinality({i \in Ids(h) : h[i].verdict = "no_op" /\ SameMechanism(h[i], s)})

\* _no_op_choices: an independent mechanism, or one reimplementation.
NoOpChoices(h) ==
    LET l == Last(h)
        f == FamilyOf(l.method)
    IN  AllIndependent(h, f, BestExperimental(h)) \cup
        IF l.parent \in Frontier(h) /\ NoOpsLike(h, l) = 1 /\ l.method \in Legal(h, f)
        THEN {Choice(l.parent, l.method, {}, "no_op_reimplementation")} ELSE {}

\* _soft_prune_choice: one refinement of a trade-off, else one residual blend.
SoftPrune(h) ==
    LET n == Len(h)
        p == BestParent(h, Frontier(h))
        refine == IF RefinementEligible(h, n) /\ h[n].method = "pairwise"
                  THEN Preferred(h, "listwise", n, {}, "refinement") ELSE {}
        blend == IF EnsembleEligible(h[n])
                 THEN Preferred(h, "residual", p, {n}, "ensemble") ELSE {}
    IN  IF refine # {} THEN refine ELSE blend
SoftOrIndependent(h) ==
    IF SoftPrune(h) # {} THEN SoftPrune(h)
    ELSE FirstIndependent(h, FamilyOf(Last(h).method), BestExperimental(h))

\* _same_family_refinement_choice: another method of the family, else its own.
SameFamily(h, p) ==
    IF p = 0 THEN {}
    ELSE LET left == Untried(h, FamilyOf(h[p].method), p) \ {"residual"}
             other == left \ {h[p].method}
         IN  FirstOf(IF other # {} THEN other ELSE left, p, "playbook")

ExploratoryResult(s) ==
    s.verdict = "inconclusive" /\ s.stability = "confirmed" /\ s.decision = "accept"
CleanFull(s) ==
    /\ s.verdict = "accepted" \/ ExploratoryResult(s)
    /\ s.integrity = "clean" /\ s.fidelity = "full" /\ s.output = "accepted"

\* The rules from pairwise_gauc_up_ndcg_down on; none matching falls through.
ResultRoute(h) ==
    LET l == Last(h)
        p == LatestParent(h)
        strong == BestExperimental(h)
    IN  IF l.method = "pairwise" /\ TradeOff(l) THEN Preferred(h, "listwise", p, {}, "playbook")
        ELSE IF l.method = "pairwise" /\ l.trade = "both_up"
        THEN Preferred(h, "pairwise", p, {}, "playbook")
        ELSE IF Abs(l.delta) <= Epsilon
        THEN IF SameFamily(h, strong) # {} THEN SameFamily(h, strong)
             ELSE FirstIndependent(h, FamilyOf(IF strong = 0 THEN l.method ELSE h[strong].method), strong)
        ELSE IF l.delta > Epsilon THEN Preferred(h, l.method, p, {}, "playbook")
        ELSE FirstIndependent(h, FamilyOf(l.method), strong)

\* _playbook_choice: the first rule that matches the latest result decides.
PlaybookRoute(h) ==
    LET l == Last(h)
        independent == FirstIndependent(h, FamilyOf(l.method), BestExperimental(h))
    IN  IF l.status = "invalid" /\ l.fidelity = "none" THEN independent
        ELSE IF l.output = "rejected" \/ l.integrity = "compromised" THEN {}
        ELSE IF l.verdict = "suspicious" THEN independent
        ELSE IF l.stability = "unstable" THEN {}
        ELSE IF l.fidelity = "proxy"
        THEN IF l.decision \in {"prune", "reject"} THEN SoftOrIndependent(h) ELSE {}
        ELSE IF CleanFull(l) THEN ResultRoute(h)
        ELSE IF l.verdict \in {"negative", "inconclusive"} \/ l.decision = "reject"
        THEN SoftOrIndependent(h) ELSE {}

\* _member_ensemble_choice: a parent blended with two accepted members.
Blend(h, p) ==
    LET members == Frontier(h) \ {0, p}
        two == {i \in members : Cardinality({j \in members : j < i}) < 2}
    IN  IF members = {} THEN {} ELSE Preferred(h, "zblend", p, two, "ensemble")

\* The loop of choose: the first frontier node with a legal method.
DepthChoices(h, p) ==
    UNION {IF f = "ensemble" THEN Blend(h, p) ELSE Next1(h, f, p, "depth") : f \in Families}
DepthFirst(h) ==
    UNION {IF \A q \in DepthFirstFrontier(h) : Before(h, q, p) => DepthChoices(h, q) = {}
           THEN DepthChoices(h, p) ELSE {} : p \in DepthFirstFrontier(h)}

Choose(h) ==
    IF h = <<>> THEN DepthFirst(h)
    ELSE IF Last(h).status = "no_op" THEN NoOpChoices(h)
    ELSE PlaybookRoute(h)

----------------------------------------------------------------------------
(* Parallel rounds.                                                        *)

\* _parallel_choices: globally untried methods beside the policy's own.
Scouts(h, primary) ==
    LET spent == {h[i].method : i \in Ids(h)} \cup {c.method : c \in primary}
        fresh == (UNION {Legal(h, f) : f \in Families \ {"ensemble"}}) \ spent
    IN  {Choice(BestParent(h, Frontier(h)), m, {}, "parallel_round") : m \in fresh}

\* choose_synthesis: the best round member, aligned with the others.
Synthesis(h, C) ==
    LET p == BestParent(h, C)
    IN  IF Cardinality(C) < 2 \/ "synthesis" \notin Legal(h, "ensemble") THEN {}
        ELSE {Choice(p, "synthesis", C \ {p}, "synthesis")}

----------------------------------------------------------------------------
(* PlanValidator, for a provider that returns the choice it was given.     *)

Key(c) == <<c.parent, c.method, c.comps>>

Twins(h, c) == {i \in Ids(h) : Key(h[i]) = Key(c)}

AuthorizedNoOp(h, c) ==
    /\ c.phase = "no_op_reimplementation"
    /\ Last(h).status = "no_op" /\ SameMechanism(c, Last(h)) /\ NoOpsLike(h, c) = 1

\* Mutant of ParentAdmitted: no refinement of a soft result
ParentOfTheFrontier(h, c) == c.parent \in Frontier(h)

ParentAdmitted(h, c) ==
    \/ c.parent \in Frontier(h)
    \/ /\ c.phase = "refinement" /\ c.parent \in Ids(h)
       /\ RefinementEligible(h, c.parent)

\* Mutant of ComponentAdmitted: accepted members are refused
ComponentIsSoft(h, c, i) == i # c.parent /\ EnsembleEligible(h[i])

ComponentAdmitted(h, c, i) ==
    /\ i # c.parent
    /\ \/ EnsembleEligible(h[i])
       \/ c.method # "residual" /\ i \in Frontier(h)

Valid(h, c) ==
    /\ ParentAdmitted(h, c)
    /\ (FamilyOf(c.method) = "ensemble") <=> (c.comps # {})
    /\ \A i \in c.comps : ComponentAdmitted(h, c, i)
    /\ c.method \in Legal(h, FamilyOf(c.method))
    /\ Twins(h, c) # {} => AuthorizedNoOp(h, c)

\* The ledger's own duplicate guard: one reimplementation, or re-exploration.
Recordable(h, c) ==
    LET twins == Twins(h, c)
    IN  Cardinality(twins) < 3 /\ \A i \in twins : h[i].status \in {"invalid", "no_op"}
=============================================================================
