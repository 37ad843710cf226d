SPECIFICATION Spec
CONSTANTS
    r1 = r1
    r2 = r2
    r3 = r3
    r4 = r4
    text = text
    other = other
    Requests <- TwoRequests
    MaxConcurrent = 1
    SeededResponses <- NoResponses
    SeededParticipants <- NoParticipants
    Inputs <- AnswerInputs
    RowIds = {1, 2, 3, 4}
    Questions <- MCQuestions
    QuestionType <- MCQuestionType
    MaxScore <- MCMaxScore
    Mode = "percentile"
    AnswersOf <- MCAnswersOf
    AnswerScore <- MCAnswerScore
    AnswerWeights <- MCAnswerWeights
    Texts <- MCTexts
    Grades <- MCGrades
    NoRow = NoRow
    Null = Null
    Nobody = Nobody
    Keep = Keep
INVARIANTS SavesResponses
