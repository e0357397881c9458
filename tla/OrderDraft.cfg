\* Two lines of two drinks, then a round of one line, and one command on the menu.
SPECIFICATION Spec
CONSTANTS
    drinks = drinks
    tea = tea
    latte = latte
    juice = juice
    small = small
    large = large
    extras = extras
    milk = milk
    ice = ice
    oat = oat
    soy = soy
    l1 = l1
    l2 = l2
    Absent = Absent
    Categories = {drinks}
    Items = {tea, latte, juice}
    Sizes = {small, large}
    Groups = {extras, milk}
    Options = {ice, oat, soy}
    CategoryOf <- InDrinks
    ItemOf <- OfLatte
    GroupOf <- InGroup
    Unmade = {juice, large, extras, ice, soy}
    FirstPrice <- Prices
    FirstRule <- NeedsMilk
    FirstOffered <- MilkForLatte
    Amounts = {0, 1, 2}
    MaxChosen = 1
    MaxChanges = 1
    Notes = {hot}
    Lines = {l1, l2}
    RoundLines <- TwoThenOne
    MaxQuantity = 2
    MaxRounds = 2
SYMMETRY Interchangeable
INVARIANTS
    OneLinePerDrink
    CancelledIsTheLast
    ShownCanBeOrdered
PROPERTIES
    EditsLoseNothing
    ImplementsRoundBook
CHECK_DEADLOCK FALSE
