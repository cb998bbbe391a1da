---------------------------- MODULE MCDockerPool ----------------------------
(* Two calls for one session, of which either may create, wait, fail and   *)
(* leave while Close goes through the entries.                             *)
EXTENDS DockerPool, TLC

CONSTANTS c1, c2, s1

MCSessionOf == (c1 :> s1) @@ (c2 :> s1)
=============================================================================
