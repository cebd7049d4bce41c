------------------------------ MODULE Ingress -------------------------------
(***************************************************************************)
(* How a gRPC call becomes an observation: the interceptor turns a bearer  *)
(* token into a principal, the policy checks what the principal claims,    *)
(* the mapper turns the message into an observation and resolves the       *)
(* external account it names, and the envelope carries what the runtime    *)
(* may do with it.                                                         *)
(*                                                                         *)
(* Accounts are looked up and then stored in two calls, so calls that name *)
(* one account interleave.  They are a SQLite table or a dictionary.       *)
(***************************************************************************)
EXTENDS Naturals, FiniteSets, Optional

CONSTANTS
    Tokens,         \* entries of the token file: [client, kind, provider, allowed, scopes, caps]
    Calls,          \* messages: records as in CallFields
    DeliveryCalls,  \* [token, rpc, provider]: provider is the polled one or the delivery's
    AuthRequired,   \* auth.mode = required
    AllowLoopback,  \* auth.allow_unauthenticated_loopback
    MaxCalls        \* bound: calls in progress at once

CallFields ==
    {"token", "kind", "payload", "dated", "account", "name", "spaceRef", "space",
     "actor", "accountId", "spaceId", "subject"}

ASSUME CallShape == \A c \in Calls : DOMAIN c = CallFields

VARIABLES
    durableAccounts,    \* accounts are in SQLite
    accounts,           \* account profiles, one per external reference
    calls,              \* calls between two steps of the mapper
    answered,           \* calls that were answered, with the outcome
    envelopes,          \* history: envelopes handed to the runtime
    handedOn             \* history: the delivery call last handed to the broker

ingressVars == <<durableAccounts, accounts, calls, answered, envelopes, handedOn>>

-----------------------------------------------------------------------------
Scopes ==
    {"runtime.info.read", "observation.submit", "observation.submit.trusted", "delivery.poll",
     "delivery.report", "transcript.read", "transcript.cleanup", "admin.runtime"}

TrustedAdapterScopes ==
    {"runtime.info.read", "observation.submit.trusted", "delivery.poll", "delivery.report"}

ExternalClientForbiddenScopes ==
    {"observation.submit.trusted", "delivery.poll", "delivery.report", "transcript.cleanup", "admin.runtime"}

TrustedAdapterCapabilities ==
    {"integrate_activity", "integrate_presence", "update_space_occupancy"}

External == {"external_client", "trusted_adapter"}

\* _validate_static_token_profile: an entry outside the profile of its kind is
\* refused when the file is read.
ValidProfile(e) ==
    CASE e.kind = "trusted_adapter" ->
            /\ e.provider # None
            /\ e.provider \in e.allowed
            /\ "*" \notin e.allowed
            /\ e.scopes \subseteq TrustedAdapterScopes
            /\ e.caps \subseteq TrustedAdapterCapabilities
      [] e.kind = "external_client" ->
            /\ e.scopes \cap ExternalClientForbiddenScopes = {}
            /\ e.caps = {}
            /\ "*" \notin e.allowed
      [] OTHER -> e.kind = "admin" \/ "admin.runtime" \notin e.scopes

\* local_dev_principal.
LocalDev ==
    [client |-> "local_dev", kind |-> "local_dev", provider |-> None,
     allowed |-> {"*"}, scopes |-> Scopes, caps |-> {}]

\* StaticBearerTokenVerifier: the entry of the token, if there is one.
Verified(token) ==
    IF token \in Tokens /\ ValidProfile(token) THEN token ELSE None

\* _principal_from_metadata.
PrincipalOf(c) ==
    IF AuthRequired \/ c.token # None THEN Verified(c.token)
    ELSE IF AllowLoopback THEN LocalDev ELSE None

HasScope(p, scope) ==
    scope \in p.scopes \/ (p.kind = "admin" /\ "admin.runtime" \in p.scopes)

\* _require_provider.
ProviderAllowed(p, provider) ==
    IF "*" \in p.allowed THEN p.kind \notin External ELSE provider \in p.allowed

\* _validate_external_ingress_principal_profile.
IngressProfileOK(p) ==
    p.kind \in External =>
        /\ "*" \notin p.allowed
        /\ p.kind = "external_client" => p.caps = {}
        /\ p.kind = "trusted_adapter" =>
             /\ p.provider # None
             /\ p.provider \in p.allowed
             /\ p.caps \subseteq TrustedAdapterCapabilities

RefProvider(ref) == IF ref = None THEN None ELSE ref.provider

\* Mutant: internal ids are taken from every kind of principal.
AnyIdentityClaim(p, c) == TRUE

\* validate_external_ingress_identity_claims.
IdentityClaimsOK(p, c) ==
    p.kind \in External => c.actor = None /\ c.accountId = None /\ c.spaceId = None

\* validate_observation_provider_claims.
ProviderClaimsOK(p, c) ==
    /\ c.account # None /\ c.spaceRef # None => c.account.provider = c.spaceRef.provider
    /\ \A ref \in {c.account, c.spaceRef} \ {None} : ProviderAllowed(p, ref.provider)

\* require_submit_observation.
MaySubmit(p, c) ==
    /\ IngressProfileOK(p)
    /\ IF p.kind = "trusted_adapter"
       THEN /\ HasScope(p, "observation.submit.trusted")
            /\ c.account # None \/ c.spaceRef # None
       ELSE HasScope(p, "observation.submit")
    /\ ProviderClaimsOK(p, c)
    /\ IdentityClaimsOK(p, c)

\* require_poll_app_actions; for a report the scope is checked first and the
\* provider once the broker has named it (require_delivery_report_*).
MayDeliver(p, c) ==
    /\ IngressProfileOK(p)
    /\ p.kind \in {"trusted_adapter", "admin"}
    /\ HasScope(p, IF c.rpc = "poll" THEN "delivery.poll" ELSE "delivery.report")
    /\ ProviderAllowed(p, c.provider)

\* _validate_observation_kind_and_payload.
KindMatchesPayload(c) == c.payload = c.kind

\* _resolve_actor_from_context: an actor or an account, not both.
ActorUnambiguous(c) ==
    /\ ~(c.actor # None /\ c.account # None)
    /\ ~(c.account # None /\ c.accountId # None)

\* _resolve_space_from_context.
SpaceUnambiguous(c) == ~(c.spaceRef # None /\ c.spaceId # None)

\* _resolve_account_ref.
AccountNamed(c) == c.account # None => c.name # None

\* The errors of observation_from_proto and of the context it maps, up to the
\* resolution of the account.
WellFormed(c) ==
    /\ KindMatchesPayload(c)
    /\ c.dated
    /\ ActorUnambiguous(c)
    /\ SpaceUnambiguous(c)
    /\ AccountNamed(c)

\* _require_presence_subject and _require_activity_subject.
HasSubject(c) ==
    c.kind = "presence_signal" \/ c.subject = "actor_scoped" =>
        c.account # None \/ c.actor # None \/ c.accountId # None

-----------------------------------------------------------------------------
IngressInit ==
    /\ durableAccounts \in BOOLEAN
    /\ accounts = {}
    /\ calls = {}
    /\ answered = [c \in Calls |-> None]
    /\ envelopes = {}
    /\ handedOn = {}

Answer(c, status) == answered' = [answered EXCEPT ![c] = status]

\* SubmitObservation up to the look-up of the account.
ReceiveCall(c) ==
    /\ answered[c] = None
    /\ \A k \in calls : k.call # c
    /\ Cardinality(calls) < MaxCalls
    /\ LET p == PrincipalOf(c)
           found == {a \in accounts : c.account # None /\ a.ref = c.account}
       IN  CASE p = None -> Answer(c, "unauthenticated") /\ UNCHANGED calls
             [] p # None /\ ~MaySubmit(p, c) -> Answer(c, "permission_denied") /\ UNCHANGED calls
             [] p # None /\ MaySubmit(p, c) /\ ~(WellFormed(c) /\ HasSubject(c)) ->
                    Answer(c, "invalid_argument") /\ UNCHANGED calls
             [] OTHER -> /\ calls' = calls \cup
                                {[call |-> c, principal |-> p,
                                  profile |-> IF found = {} THEN None ELSE CHOOSE a \in found : TRUE]}
                         /\ UNCHANGED answered
    /\ UNCHANGED <<durableAccounts, accounts, envelopes, handedOn>>

\* PollAppActions and ReportActionResult up to the broker.
ServeDelivery(c) ==
    /\ PrincipalOf(c) # None
    /\ MayDeliver(PrincipalOf(c), c)
    /\ handedOn' = {[call |-> c, principal |-> PrincipalOf(c)]}
    /\ UNCHANGED <<durableAccounts, accounts, calls, answered, envelopes>>

\* stable_account_id and stable_actor_id: digests.
StableAccountId(ref) == <<"account", ref>>

StableActorId(account) == <<"actor", account>>

\* The profile resolve_identity stores: a new one, or the one it read with the
\* name of this call.
ProfileFor(k) ==
    IF k.profile = None
    THEN [id |-> StableAccountId(k.call.account), ref |-> k.call.account, name |-> k.call.name, linked |-> None]
    ELSE [k.profile EXCEPT !.name = k.call.name]

\* put of both stores: an id keeps its reference, a reference keeps its id.
PutConflict(a) == \E b \in accounts : (b.id = a.id) # (b.ref = a.ref)

PutAccount(a) == accounts' = {b \in accounts : b.id # a.id} \cup {a}

\* The capabilities of the envelope: those of a trusted adapter's token, none
\* for other clients (the ingress profile of the mapper is external_client).
EnvelopeOf(k, actor) ==
    [kind |-> k.principal.kind,
     call |-> k.call,
     actor |-> actor,
     authenticated |-> k.principal.kind = "trusted_adapter",
     caps |-> IF k.principal.kind = "trusted_adapter" THEN k.principal.caps ELSE {},
     route |-> IF k.principal.kind = "trusted_adapter"
               THEN OrElse(RefProvider(k.call.account), RefProvider(k.call.spaceRef)) ELSE None]

\* The rest of resolve_identity, and the envelope.
ResolveAndSubmit(k) ==
    /\ k \in calls
    /\ calls' = calls \ {k}
    /\ IF k.call.account = None
       THEN /\ envelopes' = envelopes \cup {EnvelopeOf(k, k.call.actor)}
            /\ Answer(k.call, "ok")
            /\ UNCHANGED accounts
       ELSE LET a == ProfileFor(k)
            IN  IF a # k.profile /\ PutConflict(a)
                THEN Answer(k.call, "internal") /\ UNCHANGED <<accounts, envelopes>>
                ELSE /\ IF a # k.profile THEN PutAccount(a) ELSE UNCHANGED accounts
                     /\ envelopes' = envelopes \cup
                            {EnvelopeOf(k, OrElse(a.linked, StableActorId(a.id)))}
                     /\ Answer(k.call, "ok")
    /\ UNCHANGED <<durableAccounts, handedOn>>

\* The process restarts: calls in progress end, a dictionary is empty again.
IngressRestart ==
    /\ accounts # {} \/ calls # {}
    /\ calls' = {}
    /\ accounts' = IF durableAccounts THEN accounts ELSE {}
    /\ UNCHANGED <<durableAccounts, answered, envelopes, handedOn>>

IngressNext ==
    \/ \E c \in Calls : ReceiveCall(c)
    \/ \E k \in calls : ResolveAndSubmit(k)
    \/ \E c \in DeliveryCalls : ServeDelivery(c)
    \/ IngressRestart

IngressSpec == IngressInit /\ [][IngressNext]_ingressVars

-----------------------------------------------------------------------------
\* The token file, the policy and the mapper agree: whoever an external client or
\* an adapter speaks for was resolved from a reference of a provider its token
\* allows, the same reference is the same actor on every call and after every
\* restart, only an adapter's token brings capabilities, of the profile, and nobody
\* polls or reports the deliveries of a provider their token does not allow.
IngressSpeaksForItsProvider ==
    /\ \A e \in envelopes : e.kind \in External =>
         /\ e.actor # None => e.call.account # None /\ e.call.account.provider \in e.call.token.allowed
         /\ e.call.spaceId = None
         /\ e.caps \subseteq TrustedAdapterCapabilities
         /\ e.kind = "external_client" => e.caps = {} /\ ~e.authenticated
    /\ \A e, f \in envelopes :
         e.call.account # None /\ e.call.account = f.call.account => e.actor = f.actor
    /\ \A g \in handedOn :
         /\ g.principal.kind \in {"trusted_adapter", "admin"}
         /\ g.principal.kind = "trusted_adapter" => g.call.provider \in g.call.token.allowed
    /\ \A a, b \in accounts : a.id = b.id \/ a.ref = b.ref => a = b
=============================================================================
