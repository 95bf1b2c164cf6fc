SPECIFICATION SpecPython
CONSTANTS
  Width = 3
  MaxExtent = 3
  Some = 3
  MaxNumber = 4
  None = None
  Shapes <- MCShapes
  Asked <- MCAsked
  Subscripts <- MCSubscripts
INVARIANTS ReadsWhatIsMeant PythonGetsTheSlice
CHECK_DEADLOCK FALSE
