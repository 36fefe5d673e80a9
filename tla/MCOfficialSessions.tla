------------------------- MODULE MCOfficialSessions -------------------------
EXTENDS OfficialSessions, TLC

\* s1 is a session without an id (stdio) on which the handshake names
\* conversation k1 and a tool call names none; s2 has an id, and modern requests
\* of both share k1; n1 comes without a session.
CONSTANTS s1, s2, i1, t1, m1, t2, n1, k1, x2, e1, d1, p1, c1, c2

Bare == [method |-> "tools/call", session |-> NoSession, modern |-> FALSE,
         headers |-> FALSE, client |-> None, conversation |-> None,
         repair |-> None, seed |-> None, echo |-> None]

Forms ==
    (i1 :> [Bare EXCEPT !.method = "initialize", !.session = s1,
                        !.conversation = k1, !.client = c1])
 @@ (t1 :> [Bare EXCEPT !.session = s1])
 @@ (m1 :> [Bare EXCEPT !.method = "other", !.session = s1, !.modern = TRUE,
                        !.conversation = k1, !.client = c2])
 @@ (t2 :> [Bare EXCEPT !.session = s2, !.modern = TRUE, !.conversation = k1])
 @@ (n1 :> [Bare EXCEPT !.method = "other", !.modern = TRUE,
                        !.headers = TRUE, !.seed = d1, !.echo = e1])

Sids  == (s1 :> None) @@ (s2 :> x2)
Mints == {<<e1, d1>>}
=============================================================================
