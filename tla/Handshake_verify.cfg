\* One handshake, with what the handlers sign or signed again.
CONSTANTS
  a = a  b = b  a1 = a1  a2 = a2  b1 = b1
  Nodes = {a, b}
  Inits = {a1}
  Owner <- Owner1
  Peer <- Peer1
  Copies <- Copies1
  Configs <- Kinds
  CURRENT <- Current
  Starts = {"Initial", "Waiting", "Active"}
SPECIFICATION FairSpec
PROPERTIES InitAnswered
CHECK_DEADLOCK FALSE
