SPECIFICATION Spec
CONSTANTS
    Operators = {o1, o2}
    Nobody = Nobody
    Poller = Poller
    Items <- FewItems
    VerbOf <- FewVerbOf
    Plan <- FewPlan
    MaxAttempts = 2
    MaxLate = 2
    MaxOvertaken = 3
SYMMETRY Symmetric
INVARIANT TypeOK
PROPERTY BacklogWorkedOff
INVARIANT NoCrossedAnswers
INVARIANT OvertakenByOneGroup
