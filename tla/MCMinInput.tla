----------------------------- MODULE MCMinInput -----------------------------
(* Every quote function over the amounts of the instance. *)
EXTENDS MinInput

CONSTANT MaxOutput   \* bound on the quoted outputs

MCPow2   == [n \in 0 .. Iterations |-> 2 ^ n]
MCQuotes == [1 .. MaxAmount -> 0 .. MaxOutput]
=============================================================================
