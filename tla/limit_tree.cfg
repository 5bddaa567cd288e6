SPECIFICATION Spec
CONSTANTS
    Orders = {o1, o2, o3, o4, o5, o6}
    Prices = {1, 2, 3, 4, 5, 6}
    Null   = Null
SYMMETRY TreeSymmetry
INVARIANTS
    SearchTree
PROPERTIES
    ImplementsSide
