SPECIFICATION PostSpec
CONSTANTS
  t1 = t1
  t2 = t2
  port = port
  bridge = bridge
  plain = plain
  NoDevice = NoDevice
  Calls <- MCCalls
  Ports <- MCPorts
  Bridges <- MCBridges
  Plain <- MCPlain
  MaxRules = 1
  MaxDrift = 3
SYMMETRY Symmetry
INVARIANT PortsReleasedToo
CHECK_DEADLOCK FALSE
