SPECIFICATION Spec
CONSTANTS
  B = 2
  U16Tokens <- MCU16Tokens
  Ip <- MCIp
  Bodies <- MCBodies
INVARIANTS NonRoutableIsDropped
