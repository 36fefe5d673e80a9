--------------------------- MODULE MCSessionEvents --------------------------
EXTENDS SessionEvents, TLC

\* Handshakes h1 and h2 come on one connection, h2 without a session; the
\* queued tool call q1 and the reserved call d1 belong to two sessions that
\* push each other out of lazySessions.
CONSTANTS h1, h2, q1, d1, s1, k1, k2, a1, a2

Conns  == (h1 :> s1) @@ (h2 :> s1)
Keys   == (h1 :> k1) @@ (h2 :> NoKey) @@ (q1 :> k2) @@ (d1 :> k1)
Actors == (h1 :> a1) @@ (h2 :> NoActor) @@ (q1 :> a2) @@ (d1 :> a1)
=============================================================================
