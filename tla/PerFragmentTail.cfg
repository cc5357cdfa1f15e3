SPECIFICATION FairSpec
CONSTANTS
    K = 3
    ShortMax = 1
    Totals = {0, 1, 2, 3, 4, 5, 6, 7, 8, 9, 10, 11, 12, 13, 14, 15, 16, 17, 18, 19, 20, 21, 22, 23, 24, 25, 26, 27}
    MaxTrailing = 0
INVARIANT EncodesEverything
