\* Three handshakes that cross, one Init delivered twice.
CONSTANTS
  a = a  b = b  a1 = a1  a2 = a2  b1 = b1
  Nodes = {a, b}
  Inits = {a1, a2, b1}
  Owner <- Initiator
  Peer <- Responder
  Copies <- Twice
  Configs <- Kinds
  CURRENT <- Current
  Starts = {"Initial", "Waiting", "Active"}
SPECIFICATION FairSpec
INVARIANTS SameSecrets CompletedPair MachineFollows
PROPERTIES HandshakeCompletes
CHECK_DEADLOCK FALSE
