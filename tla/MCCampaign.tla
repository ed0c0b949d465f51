----------------------------- MODULE MCCampaign -----------------------------
(* Instances of Campaign: three families of the playbook, a method each but  *)
(* for the objectives and the ensembles.                                     *)
EXTENDS Campaign

PlaybookFamilies == <<"objective", "features", "ensemble">>
PlaybookMethods ==
    [f \in ToSet(PlaybookFamilies) |->
        CASE f = "objective" -> <<"pairwise", "listwise">>
          [] f = "features"  -> <<"tabular">>
          [] f = "ensemble"  -> <<"residual", "zblend", "synthesis">>]
CardPrerequisites ==
    [m \in Methods |->
        CASE m = "listwise" -> {"pairwise_tested"}
          [] m = "residual" -> {"diverse_member"}
          [] m \in {"zblend", "synthesis"} -> {"two_confirmed"}
          [] OTHER -> {}]

SomeProxyDeltas == {-3, 6}
SomeFullDeltas == {-6, 6, 12}
SomeJitters == {0, -7, 9}
Shape(trade, diverse) == [trade |-> trade, diverse |-> diverse]
SomeShapes == {Shape("none", TRUE), Shape("gauc_up", FALSE)}
=============================================================================
