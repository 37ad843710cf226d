SPECIFICATION Spec
CONSTANTS
    r1 = r1
    r2 = r2
    r3 = r3
    r4 = r4
    text = text
    other = other
    Requests <- FourRequests
    MaxConcurrent = 1
    SeededResponses <- NoResponses
    SeededParticipants <- NoParticipants
    Inputs <- AllInputs
    RowIds = {1, 2, 3, 4}
    Questions <- MCQuestions
    QuestionType <- MCQuestionType
    MaxScore <- MCMaxScore
    Mode = "percentile"
    AnswersOf <- MCAnswersOf
    AnswerScore <- MCAnswerScore
    AnswerWeights <- MCAnswerWeights
    Texts <- MCTexts
    Grades <- MCGrades
    NoRow = NoRow
    Null = Null
    Nobody = Nobody
    Keep = Keep
INVARIANTS ScoresStayInSync AnsweredIsListed OneRowPerPair
SYMMETRY Symmetric4
