\* Every job size up to 1200 ranks.
SPECIFICATION DimsSpec
CONSTANT MaxRanks = 1200
INVARIANTS GridUsesEveryRank NearlySquare
\* The function returns and nothing follows.
CHECK_DEADLOCK FALSE
