---------------------------- MODULE MCAdminSession ----------------------------
(* Instances of AdminSession for TLC. *)
EXTENDS AdminSession, TLC

CONSTANTS t1, t2, s1, dashboard, logs, api, users, static, key, jwt

\* The tabs are interchangeable: no action or property names one.
TabSymmetry == Permutations(Tab)
=============================================================================
