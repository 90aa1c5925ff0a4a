SPECIFICATION Spec
CONSTANTS
  Modulus = 16
  First = 14
  Target = 2
  Capacity = 3
  Dtmf <- OneEvent
  Packets = 5
  Copies = 2
  Overtake = 2
INVARIANTS TypeOK Sorted
PROPERTIES PlayedInOrder LossIsMissingInOrder
