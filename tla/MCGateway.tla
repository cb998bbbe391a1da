------------------------------ MODULE MCGateway ------------------------------
(* Small instances of Gateway.  Safety: two deliveries of one platform     *)
(* message, so that the second is a retry, and a delivery without an ID in *)
(* the same conversation, so that all three compete for one queue, whose   *)
(* worker retires and is born again.  Liveness: two conversations compete  *)
(* for one slot and for a bus that is full with one reply; the account of  *)
(* the second one has no channel.                                          *)
EXTENDS Gateway, TLC

CONSTANTS a1, a2, k1, m1, m2, m3

MCAddressOf == (m1 :> a1) @@ (m2 :> a1) @@ (m3 :> a1)

MCKeyOf == (m1 :> k1) @@ (m2 :> k1) @@ (m3 :> NoKey)

MCLiveAddressOf == (m1 :> a1) @@ (m3 :> a2)

MCLiveKeyOf == (m1 :> k1) @@ (m3 :> NoKey)
=============================================================================
