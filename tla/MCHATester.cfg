\* HAtester.py on a connection failure: two nodes, two troubles, Ctrl-C not pressed.
CONSTANTS
  Nodes = {1, 2}
  MasterNode = 2
  MaxTroubles = 2
  MaxInterrupts = 0
  NoNode = 0
SPECIFICATION HASpec
INVARIANTS
  ConnectionIsRetried
