SPECIFICATION Spec
CONSTANT Tie <- MCTie
INVARIANTS
    AnsweredMeansAgreed
    SuccessMeansAgreed
PROPERTIES
    AgreementIsStable
    AgreementSpec
    AnswerSettles
