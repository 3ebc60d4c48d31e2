---------------------------- MODULE MCHandshake ----------------------------
(***************************************************************************)
(* Small instances of Handshake: a initiates twice, b once.                *)
(***************************************************************************)
EXTENDS Handshake, TLC

CONSTANTS a, b, a1, a2, b1

V(major, minor) == [major |-> major, minor |-> minor]
Current == V(1, 0)

Initiator == (a1 :> a) @@ (a2 :> a) @@ (b1 :> b)
Responder == (a1 :> b) @@ (a2 :> b) @@ (b1 :> a)
Twice     == (a1 :> 2) @@ (a2 :> 1) @@ (b1 :> 1)

\* One handshake by itself.
Owner1 == a1 :> a
Peer1  == a1 :> b
Copies1  == a1 :> 2

\* Each can talk to its like and Wide to Narrow, which lists no CURRENT: but not
\* Narrow to Wide, which takes the CURRENT that Narrow prefers and does not list.
Wide   == [versions |-> <<V(1, 0), V(1, 1)>>, required |-> {"dag"}, offered |-> {"dag"}]
Narrow == [versions |-> <<V(1, 1)>>, required |-> {"dag"}, offered |-> {"dag", "dark"}]
Kinds  == {Wide, Narrow}
=============================================================================
