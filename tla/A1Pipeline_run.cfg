SPECIFICATION Spec
CONSTANTS
    NoSql = NoSql
    AllSettings <- MCSettings
    Questions <- MCQuestions
    Answers <- MCAnswers
    Retries = 1
INVARIANTS
    RepairNeverHurts
    EditIsLicensed
    PlannedEditIsAdmitted
    CriticLeavesBudget
PROPERTIES
    OnlyAcceptedIsAnswered
