\* Two assessments, two plans and two requests, generated at once or one late.
CONSTANTS
    a1 = a1
    a2 = a2
    p1 = p1
    p2 = p2
    f1 = f1
    f2 = f2
    Unset = Unset
    Assessment = {a1, a2}
    Gap = {1}
    Plan = {p1, p2}
    Request = {f1, f2}
    MaxRounds = 3
    MaxQuestions = 2
    MaxRaised = 2
SPECIFICATION PlanningSpec
SYMMETRY Symmetry
INVARIANTS VerdictIsEarned SubmittedIsInOrder RunsDependOnRuns
CHECK_DEADLOCK FALSE
