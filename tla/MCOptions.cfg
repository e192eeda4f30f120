SPECIFICATION ParseOptions
CONSTANTS
  CommandLines <- MCCommandLines
  Number <- MCNumber
  Unset = Unset
INVARIANTS
  StartsAsTold
\* The command line has been read.
CHECK_DEADLOCK FALSE
