SPECIFICATION VotesSpec
CONSTANTS
    Gauges <- McGauges
    Name <- McName
    Symbols <- McSymbols
    Kind <- McKind
    Removed = {"g3"}
    PriorityGauges <- McPriorityGauges
    Scores = {0, 1, 7, 600}
    Mortal = {"g4"}
    MaxEpochs = 2
INVARIANTS VotesAccepted SharesFollowLabels WholePowerUsed
