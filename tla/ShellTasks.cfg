CONSTANTS
    a = a
    b = b
    c = c
    Targets = {a, b, c}
    Ranfiles <- MCRanfiles
    Lines <- MCLines
    MaxDepth = 6
SPECIFICATION FairSpec
INVARIANTS Consistent Ordered
PROPERTIES ChosenByLast Ends
