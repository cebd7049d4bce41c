------------------------------ MODULE MCGateway ------------------------------
(***************************************************************************)
(* What apps and adapters send to the runtime, one scene each: reports of  *)
(* deliveries to the broker, calls through the authentication and the      *)
(* mapper, and the activity and presence signals the runtime's state is    *)
(* made of.  A behaviour stays in its scene.                               *)
(***************************************************************************)
EXTENDS MCDeliveryBroker, Ingress, RuntimeState

VARIABLE scene

gatewayVars == <<scene, vars, ingressVars, stateVars>>

-----------------------------------------------------------------------------
Token(client, kind, provider, allowed, scopes, caps) ==
    [client |-> client, kind |-> kind, provider |-> provider, allowed |-> allowed,
     scopes |-> scopes, caps |-> caps]

Adapter ==
    Token("bot", "trusted_adapter", "chat", {"chat"},
          {"observation.submit.trusted", "delivery.poll"}, {"integrate_activity"})

Web == Token("web", "external_client", None, {"web"}, {"observation.submit"}, {})

Admin == Token("admin", "admin", None, {"*"}, {"admin.runtime"}, {})

MCTokens ==
    {Adapter, Web, Admin,
     Token("wild", "trusted_adapter", "chat", {"*"}, {"observation.submit.trusted"}, {})}

Ann == [provider |-> "chat", subject |-> "ann"]

Bob == [provider |-> "web", subject |-> "bob"]

Call(token, account, name, actor) ==
    [token |-> token, kind |-> "actor_message", payload |-> "actor_message", dated |-> TRUE,
     account |-> account, name |-> name, spaceRef |-> None, space |-> None, actor |-> actor,
     accountId |-> None, spaceId |-> None, subject |-> None]

\* Two calls for one account under two names, calls for another provider's
\* account, calls that name an internal id, and one whose payload does not fit.
MCCalls ==
    {Call(Adapter, Ann, "Ann", None), Call(Adapter, Ann, "Anna", None),
     Call(Web, Bob, "Bob", None), Call(Web, Ann, "Ann", None),
     Call(Web, None, None, StableActorId(StableAccountId(Ann))),
     Call(Admin, None, None, StableActorId(StableAccountId(Ann))),
     [Call(Adapter, Ann, "Ann", None) EXCEPT !.kind = "presence_signal"]}

MCDeliveryCalls == [token : {Adapter, Web, Admin}, rpc : {"poll"}, provider : {"chat", "web"}]

-----------------------------------------------------------------------------
Signal(id, kind, event, seq, at) ==
    [id |-> id, kind |-> kind, actor |-> "ann", space |-> "room", event |-> event, seq |-> seq,
     at |-> at, status |-> None, expires |-> None,
     caps |-> {"integrate_activity", "update_space_occupancy"}]

\* A start, its stop twice under two observation ids, a join, and a presence.
MCSignals ==
    {Signal("o1", "actor_input_started", "e1", 1, 0), Signal("o2", "actor_input_stopped", "e2", 2, 1),
     Signal("o3", "actor_input_stopped", "e2", 2, 1), Signal("o4", "voice_joined", None, None, 1),
     [Signal("o5", "presence", None, None, 0) EXCEPT
         !.space = None, !.status = "online", !.expires = 2, !.caps = {"integrate_presence"}]}

-----------------------------------------------------------------------------
\* Nobody calls, and nothing is signalled.
IngressAtRest ==
    /\ durableAccounts = FALSE /\ accounts = {} /\ calls = {}
    /\ answered = <<>> /\ envelopes = {} /\ handedOn = {}

StateAtRest ==
    /\ durableJournal = FALSE /\ time = 0 /\ deliveries = <<>> /\ restarts = 0
    /\ journal = <<>> /\ inFlight = {} /\ latestActivity = <<>> /\ presence = <<>>
    /\ occupants = <<>> /\ snapshots = <<>> /\ latestSnapshots = <<>> /\ context = None
    /\ offered = [k \in Keys |-> {}] /\ updates = [e \in Events |-> 0] /\ forgotten = updates

MCInit ==
    /\ Init
    /\ \/ scene = "reports" /\ IngressAtRest /\ StateAtRest
       \/ scene = "calls" /\ IngressInit /\ StateAtRest
       \/ scene = "signals" /\ IngressAtRest /\ StateInit

\* The bounds of the signals are met: nothing more happens.
Rest == scene = "signals" /\ UNCHANGED gatewayVars

MCNext ==
    \/ scene = "reports" /\ Next /\ UNCHANGED <<scene, ingressVars, stateVars>>
    \/ scene = "calls" /\ IngressNext /\ UNCHANGED <<scene, vars, stateVars>>
    \/ scene = "signals" /\ StateNext /\ UNCHANGED <<scene, vars, ingressVars>>
    \/ Rest

MCSpec == MCInit /\ [][MCNext]_gatewayVars
=============================================================================
