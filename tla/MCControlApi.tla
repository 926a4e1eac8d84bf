---------------------------- MODULE MCControlApi ----------------------------
(* Three concurrent requests on one agent with two domains and one endpoint. *)
EXTENDS ControlApi, TLC

CONSTANTS c1, c2, c3, d1, d2, e1

ThreeCalls == {c1, c2, c3}
TwoDomains == {d1, d2}
OneEndpoint == {e1}
FirstDomain == {d1}
AllFaults == {"disk", "config", "service", "crash"}
\* What is unknown is asked for once by each handler that rejects it.
Ask == {r \in Requests : r.on = Unknown => r.value \in {"grant", "up", "fail", "none"} /\ r.op # "unpin"}

CallSymmetry == Permutations(Call)
=============================================================================
