----------------------------- MODULE MCTaskQueue -----------------------------
(* Three messages of one conversation and two slots: a worker may retire   *)
(* while another is born for the third message, and only the code keeps    *)
(* the two apart.                                                          *)
EXTENDS TaskQueue, TLC

CONSTANTS a1, m1, m2, m3

MCAddressOf == (m1 :> a1) @@ (m2 :> a1) @@ (m3 :> a1)
=============================================================================
