--------------------------- MODULE MCNodeRegistry ---------------------------
(* Instances of NodeRegistry, and of AccessControl, for TLC. *)
EXTENDS NodeRegistry, TLC

CONSTANTS h1, h2, v1, v2, t1, t2, none, k1, k2, nokey

TwoThreads == {h1, h2}
TwoValues == {v1, v2}
MCSymmetry == Permutations(TwoThreads) \cup Permutations(TwoValues)

\* Two spellings of one certificate, and another certificate.
MCPrints == {"AB:CD", "abcd", "EF:00"}
MCNoPrint == ""
MCNormal(p) == CASE p = "AB:CD" -> "abcd" [] p = "EF:00" -> "ef00" [] OTHER -> p

Env(tokens, allowed, secret) == [tokens |-> tokens, allowed |-> allowed, secret |-> secret]

Claims == {[user |-> "u", roles |-> r, issued |-> 0] : r \in {{"agent"}, {"auditor", "operator"}}}
Signatures == {Sign(k1, c, "abcd") : c \in Claims}
                 \cup {Sign(k2, CHOOSE c \in Claims : TRUE, "abcd")}

\* What the requests of the nodes carry: a token, or what the proxy signed.
Plain(t) == [token |-> t, print |-> MCNoPrint, claim |-> none, signature |-> none]
Proxied(c) == [token |-> none, print |-> "AB:CD", claim |-> c, signature |-> Sign(k1, c, "abcd")]
MCCallers == {Plain(t1), Plain(none)} \cup {Proxied(c) : c \in Claims}
MCDeployments ==
    {Env([v \in Variables |-> IF v = 3 THEN t1 ELSE none], {}, nokey),
     Env([v \in Variables |-> IF v = 2 THEN t1 ELSE none], {"abcd"}, k1),
     Env([v \in Variables |-> none], {}, nokey)}

\* Two tokens for the first three variables in all ways, with and without an
\* allow list and a proxy; any combination of what a request may carry.
MCEnvironments ==
    MCDeployments \cup {Env([v \in Variables |-> IF v <= 3 THEN tokens[v] ELSE none], allowed, secret) :
        tokens \in [1 .. 3 -> {t1, t2, none}], allowed \in {{}, {"AB:CD"}}, secret \in {k1, nokey}}
MCRequests ==
    MCCallers \cup [token : {t1, t2, none}, print : {"abcd", "EF:00", MCNoPrint},
                    claim : Claims \cup {none}, signature : Signatures \cup {none}]
=============================================================================
