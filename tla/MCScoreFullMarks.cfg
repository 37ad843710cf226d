SPECIFICATION Spec
CONSTANTS
    NoRow = NoRow
    Null = Null
    MaxQuestions = 100
    Questions <- MCQuestions
    QuestionType <- MCQuestionType
    MaxScore <- MCMaxScore
    AnswersOf <- MCAnswersOf
    AnswerScore <- MCAnswerScore
    AnswerWeights <- MCAnswerWeights
    GradedPoints <- MCGradedPoints
    GradedWeights <- MCGradedWeights
    Categories <- MCCategories
    OtherScores <- MCOtherScores
INVARIANT FullMarksAreFullScore
