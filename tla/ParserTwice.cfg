CONSTANTS
  Func = {f}
  Source <- CallingTexts
SPECIFICATION Spec
INVARIANT ParsedOnce
