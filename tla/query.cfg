SPECIFICATION Spec
CONSTANTS
    Swaps <- SomeSwaps
    Stores <- SomeStores
    Questions <- SomeQuestions
    DefaultLimit = 2
INVARIANTS PagesAnswerQuestion
CHECK_DEADLOCK FALSE
