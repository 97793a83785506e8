SPECIFICATION Spec
CONSTANTS
    Capacity = 3
    Items = {0, 1, 2}
    Zero = 0
INVARIANT PointersAgree
PROPERTY ImplementsDeque
