\* The search of the campaign run, for the one promise it breaks: an ensemble that
\* is offered without its components.
SPECIFICATION Spec
CONSTANTS
    FamilyOrder <- PlaybookFamilies
    MethodOrder <- PlaybookMethods
    Prerequisites <- CardPrerequisites
    FrontierLimit = 3
    Widths = {1, 2}
    MaxExperiments = 3
    Patience = 2
    ProxyDeltas <- SomeProxyDeltas
    FullDeltas <- SomeFullDeltas
    Jitters <- SomeJitters
    Evidences = {"sound", "no_op", "implausible"}
    Shapes <- SomeShapes
INVARIANT EnsemblesNameTheirComponents
CHECK_DEADLOCK FALSE
