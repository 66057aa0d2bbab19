CONSTANTS
    Positions = {0}
    Contexts <- SomeContexts
    Decisions <- Decision
    Tables = {"Kazaross", "Woolsey"}
    Efficiencies = {"Janowski", "own"}
    Variations = {"standard"}
    Sizes = {0, 2, 3}
    Hash <- SomeHash
SPECIFICATION CacheSpec
INVARIANTS
    LookupsInTable
    CacheAnswers
