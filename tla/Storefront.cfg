\* Up to three changes of the stock and three requests of a customer's two tabs, four in
\* all; a checkout names a line up to twice.
SPECIFICATION Spec
CONSTANTS
    MaxDelta = 1
    MaxChanges = 3
    Skus = {cup, lid}
    Handlers = {tab1, tab2}
    MaxAsked = 3
    MaxNamed = 2
    MaxTotal = 4
INVARIANTS  NeverMoreThanAsked
SYMMETRY TabSymmetry
CHECK_DEADLOCK FALSE
