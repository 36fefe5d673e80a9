------------------------- MODULE MCStatelessSession -------------------------
EXTENDS StatelessSession, TLC

\* One client: its handshake, the handshake again, a call.
CONSTANTS c1, i1, i2, k1, n1, d1, d2

Owners  == (i1 :> c1) @@ (i2 :> c1) @@ (k1 :> c1)
Clients == (c1 :> n1)
=============================================================================
