----------------------------- MODULE MCRunloopLab -----------------------------
(* Small instances of RunloopLab for TLC. *)
EXTENDS RunloopLab, TLC

CONSTANTS d1, d2

TwoDevboxes == {d1, d2}

Line(name, target, flags) == [name |-> name, target |-> target, flags |-> flags]

\* Every command as the Makefile calls it, and with the flags that change its course.
CommandLines ==
  {Line(name, NoDevbox, {}) : name \in Names}
  \union {Line("down", d, {"keep-containers"}) : d \in {NoDevbox, d1}}
  \union {Line("redeploy", d1, {})}
  \union {Line("up", NoDevbox, {flag}) : flag \in {"no-policy", "no-blueprint", "rebuild-images"}}
  \union {Line("e2e", NoDevbox, {"keep"}), Line("e2e", NoDevbox, {"rebuild", "snapshot"}), Line("e2e", d1, {})}
=============================================================================
