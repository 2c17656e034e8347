SPECIFICATION Spec
CONSTANTS
    Swaps <- SomeSwaps
    Stores <- SomeStores
    Questions <- SomeQuestions
    DefaultLimit = 2
INVARIANTS GatewayAnswersSwaps
CHECK_DEADLOCK FALSE
