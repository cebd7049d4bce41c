-------------------------- MODULE MCDeliveryBroker --------------------------
(***************************************************************************)
(* Two deliveries with two attempts and two concurrent report handlers:    *)
(* reports of both leases, repeated and conflicting ones, overlap.         *)
(***************************************************************************)
EXTENDS DeliveryBroker, TLC

MCDelivery == 1 .. 2

MCKey == {"k1", "k2"}

MCKeyOf == <<"k1", "k2">>

MCProvider == {"discord"}

MCProviderOf == <<"discord", "discord">>

MCSymmetry == Permutations(Handler)
=============================================================================
