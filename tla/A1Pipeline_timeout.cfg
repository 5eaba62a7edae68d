SPECIFICATION Spec
CONSTANTS
    NoSql = NoSql
    AllSettings <- MCSettings
    Questions <- MCQuestions
    Answers <- MCAnswers
    Retries = 1
INVARIANT
    TimeoutIsReported
