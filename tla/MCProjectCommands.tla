------------------------- MODULE MCProjectCommands -------------------------
(* One project with two targets, two configurations, a few commands. *)
EXTENDS ProjectCommands

CONSTANTS r1, s1, a1, w1, v1, k1, g1, g2

OneRoot == [p \in Proc |-> r1]
\* The first configuration lists both targets, the second only the first.
Lists == [g \in Config |-> IF g = g1 THEN {1, 2} ELSE {1}]

\* A sync implies --update-lock.
Cmd(k, t, a) == [kind |-> k, target |-> t, all |-> a, update |-> k = "sync"]
Commands == [c \in Invocation |->
               CASE c = s1 -> Cmd("sync", None, FALSE)
                 [] c = a1 -> Cmd("apply", 1, FALSE)
                 [] c = w1 -> Cmd("revert", None, TRUE)
                 [] c = k1 -> Cmd("compile", 1, FALSE)
                 [] c = v1 -> Cmd("preview", None, FALSE)]
=============================================================================
