\* Three experiments, planned one by one or in rounds of two: a stopped search is
\* the end of the model.
SPECIFICATION Spec
CONSTANTS
    FamilyOrder <- PlaybookFamilies
    MethodOrder <- PlaybookMethods
    Prerequisites <- CardPrerequisites
    FrontierLimit = 3
    Widths = {1, 2}
    MaxExperiments = 3
    Patience = 2
    ProxyDeltas <- SomeProxyDeltas
    FullDeltas <- SomeFullDeltas
    Jitters <- SomeJitters
    Evidences = {"sound", "no_op", "implausible"}
    Shapes <- SomeShapes
INVARIANTS BestNearIncumbent BranchesRestOnEvidence PolicyAndValidatorAgree SynthesisIsPossible
PROPERTY EligibleIsAppointed
CHECK_DEADLOCK FALSE
