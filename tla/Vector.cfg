\* Two vectors of up to four elements, in blocks of 1, 2 and 4.
SPECIFICATION Spec
CONSTANTS
  Vectors = {v, w}
  Values = {a, b}
  Default = a
  Slots = 4
  MaxSize = 4
INVARIANTS ElementsAreApart BlocksAreReached OneSpareBlock ElementsAreDestroyed
PROPERTY ImplementsSequences
SYMMETRY VectorSymmetry
