\* Items made and drafted, edited and ordered; two handlers and two workers at once.
SPECIFICATION Spec
CONSTANTS
    s1 = s1  s2 = s2  w1 = w1  w2 = w2
    Sessions = {s1, s2}
    Workers = {w1, w2}
    Items = {"i1", "i2"}
    OptionForms <- Forms
    Units = {"box"}
    Sizes = {1}
    Registers <- OldCodes
    Mixes <- ThreeMixes
    Suppliers = {"ncc", "abc"}
    Quantities = {2}
    Began <- OneSupplier
INVARIANTS CodesAgree RefusedWhenOutrun
PROPERTY SyncIsOnce
SYMMETRY Symmetric
CHECK_DEADLOCK FALSE
