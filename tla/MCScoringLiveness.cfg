SPECIFICATION FairSpec
CONSTANTS
    r1 = r1
    r2 = r2
    r3 = r3
    r4 = r4
    text = text
    other = other
    Requests <- ThreeRequests
    MaxConcurrent = 3
    SeededResponses <- HalfGraded
    SeededParticipants <- HalfGradedRow
    Inputs <- WaitingInputs
    RowIds = {1, 2, 3, 4}
    Questions <- MCQuestions
    QuestionType <- MCQuestionType
    MaxScore <- MCMaxScore
    Mode = "percentile"
    AnswersOf <- MCAnswersOf
    AnswerScore <- MCAnswerScore
    AnswerWeights <- MCAnswerWeights
    Texts <- MCTexts
    Grades <- MCGrades
    NoRow = NoRow
    Null = Null
    Nobody = Nobody
    Keep = Keep
PROPERTIES RequestsEnd
