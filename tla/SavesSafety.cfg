\* Two slots, three saves of an empty or a longer payload, faults at will.
CONSTANTS
  Slots = {s1, s2}
  Sizes = {0, 2}
  MaxSaves = 3
  Missing = Missing
  Blank = Blank
  Cut = Cut
SPECIFICATION Spec
SYMMETRY Interchangeable
INVARIANTS SavedReadsBack LabelNotOlder DataHasLabel DeletedIsGone
