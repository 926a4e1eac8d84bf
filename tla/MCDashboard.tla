---------------------------- MODULE MCDashboard -----------------------------
(* A small instance of Dashboard for TLC: an act of two scenarios. *)
EXTENDS Dashboard

CONSTANTS t1, t2, s1, s2

TwoTasks == {t1, t2}
TwoScenarios == {s1, s2}
OneAct == {<<s1, s2>>}
=============================================================================
