SPECIFICATION Spec
CONSTANTS
  NULL = NULL
  GroupIds = {}
  PersonIds = {}
  Lengths = {0, 128, 255, 256}
  Widths = {1, 2}
  Pads = {0, 1}
  Years = {1899, 1900, 2100, 2101}
INVARIANT StatusesAreDocumented
