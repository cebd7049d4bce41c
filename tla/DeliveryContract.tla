-------------------------- MODULE DeliveryContract --------------------------
(***************************************************************************)
(* What the outbox promises for each delivery, whatever the backend and    *)
(* whatever order clients poll and report in: the delivery state machine   *)
(* of contracts/delivery_transitions.py as a client sees it.  Deliveries   *)
(* are independent; one poll may move several of them at once.             *)
(***************************************************************************)
EXTENDS Naturals

CONSTANTS Delivery, MaxAttempts, Durable

VARIABLES
    state,         \* where each delivery is in its life
    sends          \* how often a client was told to perform it

contractVars == <<state, sends>>

Settled == {"SUCCEEDED", "FAILED_PERMANENT", "CANCELLED", "BLOCKED"}

\* From state s with n sends to state t with m sends.
Legal(s, n, t, m) ==
    \/ s = t /\ n = m
    \/ s = "ABSENT" /\ t = "PENDING" /\ m = 0
    \/ s \in {"PENDING", "LEASED"} /\ t = "LEASED" /\ n < MaxAttempts /\ m = n + 1
    \/ s = "LEASED" /\ t = "PENDING" /\ n < MaxAttempts /\ m = n
    \/ s = "LEASED" /\ t \in Settled \ {"FAILED_PERMANENT"} /\ m = n
    \/ s = "LEASED" /\ t = "FAILED_PERMANENT" /\ n = MaxAttempts /\ m = n
    \/ ~Durable /\ s # "ABSENT" /\ t = "LOST" /\ m = 0

ContractInit ==
    /\ state = [d \in Delivery |-> "ABSENT"]
    /\ sends = [d \in Delivery |-> 0]

ContractNext ==
    /\ \A d \in Delivery : Legal(state[d], sends[d], state'[d], sends'[d])
    /\ state' \in [Delivery -> Settled \cup {"ABSENT", "PENDING", "LEASED", "LOST"}]
    /\ sends' \in [Delivery -> 0 .. MaxAttempts]

ContractSpec == ContractInit /\ [][ContractNext]_contractVars

=============================================================================
