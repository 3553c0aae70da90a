SPECIFICATION StructuresSpec
CONSTANTS
  Items = {p1, p2, p3, p4, p5, p6}
  capacity = 5
  Null = Null
  Priorities = {0, 1, 2}
  Depth = 2
  Requests <- Sizes
SYMMETRY Interchangeable
INVARIANTS TypesOK EndsShown TreeIsWhatIsHeld
PROPERTIES ImplementsFIFO ImplementsPriorityQueue ImplementsMemory
