\* Two builds and a run of the harness; the inputs are edited at any time.
SPECIFICATION PSpec
CONSTANTS
  f = f
  g = g
  p1 = p1
  p2 = p2
  r1 = r1
  None = None
  Tree = {f, g}
  Preparer = {p1, p2}
  Runner = {r1}
INVARIANTS
  PTypeOK
  PartialIsJournaled
  
  PublishedIsWhole
 
