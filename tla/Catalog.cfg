\* An item, two categories, a group with one Option, two commands in flight.
SPECIFICATION Spec
CONSTANTS
    Txns = {t1, t2}
    Items = {1}
    Categories = {2, 3}
    Groups = {4}
    Parts = {5}
    ParentOf <- OptionOfGroup
    Terms = {0, 1}
    MaxRetired = 1
SYMMETRY Interchangeable
INVARIANTS
    ExclusionsProvided
    SoldAsListed
    EditsNeverDeadlock
PROPERTIES
    ReplacedWhole
CHECK_DEADLOCK FALSE
