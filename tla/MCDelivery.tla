----------------------------- MODULE MCDelivery -----------------------------
(* Small instances of Delivery.                                            *)
EXTENDS Delivery

\* Two processes of one paired device.
OneDevice == ("c1" :> "d1") @@ ("c2" :> "d1")

\* One client, one device.
OneClient == ("c1" :> "d1")
=============================================================================
