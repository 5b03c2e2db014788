\* Screens on which the characters of a line leave room and on which they do not; three CPUs
\* that print and panic, inside prints and inside the panic handler; every stack of up to five
\* functions, with up to two exceptions, and every place of their calls; every list of up to
\* four of eight tests.
SPECIFICATION ReportsSpec
CONSTANTS
  Screens <- MCScreens
  CPU = {c1, c2, c3}
  MaxPrints = 1
  MaxPanics = 2
  Begin = 2
  End = 8
  Symbols <- MCSymbols
  Functions <- MCFunctions
  Entries <- MCEntries
  Wrappers <- MCWrappers
  MaxDepth = 5
  Scripts <- MCScripts
  MaxTests = 4
INVARIANTS
  PanicsAtEdge
  BytesInside
  NothingOverdrawn
  TraceFaithful
  SummaryExact
PROPERTIES
  PanicReported
  Finishes
CHECK_DEADLOCK FALSE
