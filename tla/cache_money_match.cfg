CONSTANTS
    Positions = {0}
    Contexts <- MoneyAndLastGame
    Decisions <- NoDecisions
    Tables = {"Kazaross"}
    Efficiencies = {"Janowski"}
    Variations = {"standard"}
    Sizes = {4}
    Hash <- SomeHash
SPECIFICATION CacheSpec
INVARIANT
    CacheAnswers
