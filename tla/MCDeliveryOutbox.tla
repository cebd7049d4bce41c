-------------------------- MODULE MCDeliveryOutbox --------------------------
(***************************************************************************)
(* A small instance of the outbox: three deliveries for one provider with  *)
(* room for two, and a second delivery of the first key for another one.   *)
(***************************************************************************)
EXTENDS DeliveryOutbox

MCProvider == {"discord", "cli"}

MCKey == {"k1", "k2", "k3"}

MCDelivery == 1 .. 4

MCKeyOf == <<"k1", "k1", "k2", "k3">>

MCProviderOf == <<"discord", "cli", "discord", "discord">>
=============================================================================
