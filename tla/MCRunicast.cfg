CONSTANTS
  NumIds = 4
  MaxRxmits = {1,2}
  MacSize = 2
  AirSize = 2
  MaxPackets = 4
  NULL = NULL
SPECIFICATION RunicastFairSpec
 
PROPERTY SendEnds
