CONSTANT MaxVersion = 2
SPECIFICATION Spec
INVARIANTS TypeOK OneActive
PROPERTIES LeftOnTimeout ReserveUsed
