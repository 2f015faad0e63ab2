SPECIFICATION FairPageSpec
CONSTANTS
    none = none
    None = none
    Turns = 2
    MaxTokens = 2
CHECK_DEADLOCK FALSE
INVARIANTS AnswersUnderQuestions OneStream
PROPERTIES StreamingEnds
