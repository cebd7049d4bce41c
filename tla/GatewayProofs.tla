---------------------------- MODULE GatewayProofs ----------------------------
(***************************************************************************)
(* What enters the runtime, for any set of clients, calls and signals: the *)
(* ingress speaks for no provider but its own, and the runtime's state     *)
(* takes in an activity event once and never goes back to an older one.    *)
(***************************************************************************)
EXTENDS Ingress, RuntimeState, SetInduction

-----------------------------------------------------------------------------
(***************************************************************************)
(* The ingress.  What it promises of an envelope was decided steps before, *)
(* when the call was checked: the calls in progress have to carry it, and  *)
(* so has the account read for them, which may have been replaced since.   *)
(***************************************************************************)
Checked(c, p) ==
    /\ p = PrincipalOf(c) /\ p # None
    /\ MaySubmit(p, c)

IsAccount(a) ==
    /\ DOMAIN a = {"id", "ref", "name", "linked"}
    /\ a.id = StableAccountId(a.ref)
    /\ a.linked = None

\* An envelope says who its principal is and names the actor of its account.
SpeaksFor(e, p) ==
    /\ e.kind = p.kind
    /\ e.authenticated = (p.kind = "trusted_adapter")
    /\ e.caps = IF p.kind = "trusted_adapter" THEN p.caps ELSE {}
    /\ e.actor = IF e.call.account = None THEN e.call.actor
                 ELSE StableActorId(StableAccountId(e.call.account))

IngressInv ==
    /\ \A k \in calls :
         /\ Checked(k.call, k.principal)
         /\ k.profile # None => IsAccount(k.profile) /\ k.profile.ref = k.call.account
    /\ \A a \in accounts : IsAccount(a)
    /\ \A a, b \in accounts : a.ref = b.ref => a = b
    /\ \A e \in envelopes :
         /\ Checked(e.call, PrincipalOf(e.call))
         /\ SpeaksFor(e, PrincipalOf(e.call))
    /\ \A g \in handedOn :
         g.principal = PrincipalOf(g.call) /\ g.principal # None /\ MayDeliver(g.principal, g.call)

\* stable_account_id tells references apart.
LEMMA StableIds == \A r, s : StableAccountId(r) = StableAccountId(s) => r = s
  BY DEF StableAccountId

\* The profile a call stores names the account of the call.
LEMMA ProfileIsAccount ==
    ASSUME IngressInv, NEW k \in calls, k.call.account # None
    PROVE  IsAccount(ProfileFor(k)) /\ ProfileFor(k).ref = k.call.account
  <1>1. CASE k.profile = None
    BY <1>1 DEF ProfileFor, IsAccount
  <1>2. CASE k.profile # None
    <2>1. IsAccount(k.profile) /\ k.profile.ref = k.call.account
      BY <1>2 DEF IngressInv
    <2>2. ProfileFor(k) = [k.profile EXCEPT !.name = k.call.name]
      BY <1>2 DEF ProfileFor
    <2> QED
      BY <2>1, <2>2 DEF IsAccount
  <1> QED
    BY <1>1, <1>2

LEMMA ReceiveCallInv ==
    ASSUME IngressInv, NEW c \in Calls, ReceiveCall(c)
    PROVE  IngressInv'
  <1> DEFINE p == PrincipalOf(c)
             found == {a \in accounts : c.account # None /\ a.ref = c.account}
             new == [call |-> c, principal |-> p,
                     profile |-> IF found = {} THEN None ELSE CHOOSE a \in found : TRUE]
  <1>1. UNCHANGED <<accounts, envelopes, handedOn>>
    BY DEF ReceiveCall
  <1>2. calls' = calls \/ (calls' = calls \cup {new} /\ p # None /\ MaySubmit(p, c))
    BY DEF ReceiveCall
  <1>3. Checked(c, p) <=> p # None /\ MaySubmit(p, c)
    BY DEF Checked
  <1>4. new.call = c /\ new.principal = p
    OBVIOUS
  <1>5. new.profile # None => new.profile \in accounts /\ new.profile.ref = c.account
    OBVIOUS
  <1> HIDE DEF new, p
  <1>6. \A k \in calls' :
           /\ Checked(k.call, k.principal)
           /\ k.profile # None => IsAccount(k.profile) /\ k.profile.ref = k.call.account
    BY <1>2, <1>3, <1>4, <1>5 DEF IngressInv
  <1> QED
    BY <1>1, <1>6 DEF IngressInv, Checked, PrincipalOf, MaySubmit, MayDeliver

LEMMA ResolveAndSubmitInv ==
    ASSUME IngressInv, NEW k \in calls, ResolveAndSubmit(k)
    PROVE  IngressInv'
  <1> DEFINE a == ProfileFor(k)
             actor == IF k.call.account = None THEN k.call.actor
                      ELSE StableActorId(StableAccountId(k.call.account))
             put == {b \in accounts : b.id # a.id} \cup {a}
  <1>1. calls' = calls \ {k} /\ handedOn' = handedOn
    BY DEF ResolveAndSubmit
  <1>2. k.call.account # None => IsAccount(a) /\ a.ref = k.call.account
    BY ProfileIsAccount
  <1>3. envelopes' \in {envelopes, envelopes \cup {EnvelopeOf(k, actor)}}
    <2>1. k.call.account # None => OrElse(a.linked, StableActorId(a.id)) = actor
      BY <1>2 DEF OrElse, IsAccount
    <2> QED
      BY <2>1 DEF ResolveAndSubmit
  <1>4. accounts' = accounts \/ (k.call.account # None /\ accounts' = put)
    BY DEF ResolveAndSubmit, PutAccount
  <1>5. \A b \in accounts' : IsAccount(b)
    BY <1>2, <1>4 DEF IngressInv
  <1>6. \A b, d \in accounts' : b.ref = d.ref => b = d
    BY <1>2, <1>4 DEF IngressInv, IsAccount
  <1>7. \A e \in envelopes' :
           Checked(e.call, PrincipalOf(e.call)) /\ SpeaksFor(e, PrincipalOf(e.call))
    <2>1. Checked(k.call, k.principal) /\ k.principal = PrincipalOf(k.call)
      BY DEF IngressInv, Checked
    <2>2. EnvelopeOf(k, actor).call = k.call
      BY DEF EnvelopeOf
    <2>3. SpeaksFor(EnvelopeOf(k, actor), k.principal)
      BY DEF EnvelopeOf, SpeaksFor
    <2> QED
      BY <1>3, <2>1, <2>2, <2>3 DEF IngressInv
  <1> HIDE DEF put
  <1> QED
    BY <1>1, <1>5, <1>6, <1>7 DEF IngressInv

LEMMA IngressNextInv == IngressInv /\ [IngressNext]_ingressVars => IngressInv'
  <1> SUFFICES ASSUME IngressInv, [IngressNext]_ingressVars PROVE IngressInv'
    OBVIOUS
  <1>1. CASE \E c \in Calls : ReceiveCall(c)
    BY <1>1, ReceiveCallInv
  <1>2. CASE \E k \in calls : ResolveAndSubmit(k)
    BY <1>2, ResolveAndSubmitInv
  <1>3. CASE \E c \in DeliveryCalls : ServeDelivery(c)
    BY <1>3 DEF ServeDelivery, IngressInv
  <1>4. CASE IngressRestart
    BY <1>4 DEF IngressRestart, IngressInv
  <1>5. CASE UNCHANGED ingressVars
    BY <1>5 DEF ingressVars, IngressInv
  <1> QED
    BY <1>1, <1>2, <1>3, <1>4, <1>5 DEF IngressNext

\* A principal of an external kind is the entry of the token that was sent.
LEMMA ExternalIsToken ==
    ASSUME NEW c, PrincipalOf(c) # None, PrincipalOf(c).kind \in External
    PROVE  PrincipalOf(c) = c.token
  BY DEF PrincipalOf, Verified, LocalDev, External

\* Authentication, authorization and identity resolution together: what the
\* runtime is told an external client or an adapter said is what its token lets
\* it say, whatever other calls and restarts happen while it is resolved.
THEOREM IngressIsFaithful == IngressSpec => []IngressSpeaksForItsProvider
  <1>1. IngressInit => IngressInv
    BY DEF IngressInit, IngressInv
  <1>2. IngressInv => IngressSpeaksForItsProvider
    <2> SUFFICES ASSUME IngressInv PROVE IngressSpeaksForItsProvider
      OBVIOUS
    <2>1. ASSUME NEW e \in envelopes, e.kind \in External
          PROVE  /\ e.actor # None =>
                       e.call.account # None /\ e.call.account.provider \in e.call.token.allowed
                 /\ e.call.spaceId = None
                 /\ e.caps \subseteq TrustedAdapterCapabilities
                 /\ e.kind = "external_client" => e.caps = {} /\ ~e.authenticated
      <3> DEFINE p == PrincipalOf(e.call)
      <3>1. Checked(e.call, p) /\ SpeaksFor(e, p)
        BY DEF IngressInv
      <3>2. p = e.call.token /\ MaySubmit(p, e.call)
        BY <2>1, <3>1, ExternalIsToken DEF Checked, SpeaksFor
      <3> HIDE DEF p
      <3>3. IngressProfileOK(p) /\ ProviderClaimsOK(p, e.call) /\ IdentityClaimsOK(p, e.call)
        BY <3>2 DEF MaySubmit
      <3>4. e.call.actor = None /\ e.call.spaceId = None
        BY <2>1, <3>1, <3>3 DEF IdentityClaimsOK, SpeaksFor
      <3>5. e.call.account # None => e.call.account.provider \in p.allowed
        BY <2>1, <3>1, <3>3 DEF ProviderClaimsOK, ProviderAllowed, SpeaksFor
      <3>6. p.kind = "trusted_adapter" => p.caps \subseteq TrustedAdapterCapabilities
        BY <3>3 DEF IngressProfileOK, External
      <3> QED
        BY Zenon, <3>1, <3>2, <3>4, <3>5, <3>6 DEF SpeaksFor
    <2>2. ASSUME NEW e \in envelopes, NEW f \in envelopes,
                 e.call.account # None, e.call.account = f.call.account
          PROVE  e.actor = f.actor
      BY <2>2 DEF IngressInv, SpeaksFor
    <2>3. ASSUME NEW g \in handedOn
          PROVE  /\ g.principal.kind \in {"trusted_adapter", "admin"}
                 /\ g.principal.kind = "trusted_adapter" => g.call.provider \in g.call.token.allowed
      <3>1. /\ g.principal = PrincipalOf(g.call) /\ g.principal # None
            /\ MayDeliver(g.principal, g.call)
        BY DEF IngressInv
      <3>2. g.principal.kind = "trusted_adapter" => g.principal = g.call.token
        BY <3>1, ExternalIsToken DEF External
      <3> QED
        BY <3>1, <3>2 DEF MayDeliver, ProviderAllowed, External
    <2>4. \A a, b \in accounts : a.id = b.id \/ a.ref = b.ref => a = b
      BY StableIds DEF IngressInv, IsAccount
    <2> QED
      BY <2>1, <2>2, <2>3, <2>4 DEF IngressSpeaksForItsProvider
  <1> QED
    BY <1>1, <1>2, IngressNextInv, PTL DEF IngressSpec

-----------------------------------------------------------------------------
(***************************************************************************)
(* The journal and what was projected from it.  An event that reached the  *)
(* projections, or is about to, is either still in the journal or was      *)
(* dropped from it once more often than before; the journal holds it once. *)
(***************************************************************************)
Held(e) == {i \in DOMAIN journal : EventOf(journal[i]) = e}

Pending(e) ==
    {f \in inFlight : f.pc = "project" /\ f.accepted /\ EventOf(f.signal) = e}

FlightFields == {"signal", "received", "accepted", "pc", "n"}

FlightOK ==
    /\ IsFiniteSet(inFlight)
    /\ \A f \in inFlight :
         /\ DOMAIN f = FlightFields
         /\ f.signal \in Signals
         /\ f.pc = "project" => f.signal \in Activities

JournalInv ==
    /\ journal \in Seq(Activities)
    /\ updates \in [Events -> Nat]
    /\ forgotten \in [Events -> Int]
    /\ FlightOK
    /\ \A i, j \in DOMAIN journal : EventOf(journal[i]) = EventOf(journal[j]) => i = j
    /\ \A e \in Events :
         updates[e] + Cardinality(Pending(e)) <= Cardinality(Held(e)) + forgotten[e]

LEMMA AtMostOne ==
    ASSUME NEW S, \A x, y \in S : x = y
    PROVE  IsFiniteSet(S) /\ Cardinality(S) \in {0, 1}
  <1>1. CASE S = {}
    BY <1>1, FS_EmptySet
  <1>2. CASE S # {}
    <2>1. PICK x \in S : TRUE
      BY <1>2
    <2>2. S = {x}
      BY <2>1
    <2> QED
      BY <2>2, FS_Singleton
  <1> QED
    BY <1>1, <1>2

LEMMA PositionsFinite ==
    ASSUME NEW s \in Seq(Activities), NEW e
    PROVE  /\ IsFiniteSet({i \in DOMAIN s : EventOf(s[i]) = e})
           /\ Cardinality({i \in DOMAIN s : EventOf(s[i]) = e}) \in Nat
  <1>1. DOMAIN s = 1..Len(s) /\ Len(s) \in Nat
    OBVIOUS
  <1>2. IsFiniteSet(1..Len(s))
    BY <1>1, FS_Interval
  <1>3. IsFiniteSet({i \in DOMAIN s : EventOf(s[i]) = e})
    BY <1>1, <1>2, FS_Subset
  <1> QED
    BY <1>3, FS_CardinalityType

LEMMA PendingFinite ==
    ASSUME FlightOK, NEW e
    PROVE  IsFiniteSet(Pending(e)) /\ Cardinality(Pending(e)) \in Nat
  <1>1. IsFiniteSet(Pending(e))
    BY FS_Subset DEF FlightOK, Pending
  <1> QED
    BY <1>1, FS_CardinalityType

\* append: the event is there once, in the place after all others.
LEMMA Appended ==
    ASSUME JournalInv, NEW s \in Activities, ~Journaled(s), NEW e
    PROVE  /\ Append(journal, s) \in Seq(Activities)
           /\ \A i, j \in DOMAIN Append(journal, s) :
                EventOf(Append(journal, s)[i]) = EventOf(Append(journal, s)[j]) => i = j
           /\ Cardinality({i \in DOMAIN Append(journal, s) : EventOf(Append(journal, s)[i]) = e})
                = Cardinality(Held(e)) + IF e = EventOf(s) THEN 1 ELSE 0
  <1> DEFINE t == Append(journal, s)
             n == Len(journal)
  <1>1. journal \in Seq(Activities) /\ n \in Nat /\ DOMAIN journal = 1..n
    BY DEF JournalInv
  <1>2. /\ t \in Seq(Activities) /\ DOMAIN t = 1..(n + 1)
        /\ t[n + 1] = s /\ \A i \in 1..n : t[i] = journal[i]
    BY <1>1
  <1>3. \A i \in 1..n : EventOf(journal[i]) # EventOf(s)
    BY <1>1 DEF Journaled
  <1> HIDE DEF t, n
  <1>4. \A i, j \in DOMAIN t : EventOf(t[i]) = EventOf(t[j]) => i = j
    <2>1. \A i \in DOMAIN t : i = n + 1 \/ i \in 1..n
      BY <1>1, <1>2
    <2> QED
      BY <1>1, <1>2, <1>3, <2>1 DEF JournalInv
  <1>5. Cardinality({i \in DOMAIN t : EventOf(t[i]) = e})
          = Cardinality(Held(e)) + IF e = EventOf(s) THEN 1 ELSE 0
    <2>1. IsFiniteSet(Held(e)) /\ Cardinality(Held(e)) \in Nat
      BY Zenon, <1>1, PositionsFinite DEF Held
    <2>2. CASE e = EventOf(s)
      <3>1. {i \in DOMAIN t : EventOf(t[i]) = e} = Held(e) \cup {n + 1}
        BY <1>1, <1>2, <2>2 DEF Held
      <3>2. n + 1 \notin Held(e)
        BY <1>1 DEF Held
      <3>3. Cardinality(Held(e) \cup {n + 1}) = Cardinality(Held(e)) + 1
        BY <2>1, <3>2, FS_AddElement, Zenon
      <3> QED
        BY <2>2, <3>1, <3>3
    <2>3. CASE e # EventOf(s)
      <3>1. {i \in DOMAIN t : EventOf(t[i]) = e} = Held(e)
        BY <1>1, <1>2, <2>3 DEF Held
      <3> QED
        BY <2>1, <2>3, <3>1
    <2> QED
      BY <2>2, <2>3
  <1> QED
    BY Zenon, <1>2, <1>4, <1>5 DEF t

\* _evict_overflow drops from the front.
LEMMA Evicted ==
    ASSUME NEW s \in Seq(Activities),
           \A i, j \in DOMAIN s : EventOf(s[i]) = EventOf(s[j]) => i = j
    PROVE  /\ Evict(s) \in Seq(Activities)
           /\ \A i, j \in DOMAIN Evict(s) :
                EventOf(Evict(s)[i]) = EventOf(Evict(s)[j]) => i = j
  <1>1. CASE Evict(s) = s
    BY <1>1
  <1>2. CASE Evict(s) = Tail(s) /\ s # <<>>
    <2>1. /\ Tail(s) \in Seq(Activities) /\ Len(s) \in Nat /\ Len(s) > 0
          /\ DOMAIN s = 1..Len(s) /\ DOMAIN Tail(s) = 1..(Len(s) - 1)
          /\ \A i \in 1..(Len(s) - 1) : Tail(s)[i] = s[i + 1]
      BY <1>2
    <2>2. \A i \in 1..(Len(s) - 1) : i \in Nat /\ i + 1 \in DOMAIN s
      BY <2>1
    <2>3. \A i, j \in DOMAIN Tail(s) : EventOf(Tail(s)[i]) = EventOf(Tail(s)[j]) => i = j
      <3> SUFFICES ASSUME NEW i \in DOMAIN Tail(s), NEW j \in DOMAIN Tail(s),
                          EventOf(Tail(s)[i]) = EventOf(Tail(s)[j])
                   PROVE  i = j
        OBVIOUS
      <3>1. /\ i \in Nat /\ j \in Nat /\ i + 1 \in DOMAIN s /\ j + 1 \in DOMAIN s
            /\ EventOf(s[i + 1]) = EventOf(s[j + 1])
        BY <2>1, <2>2
      <3>2. i + 1 = j + 1
        BY <3>1
      <3> QED
        BY <3>1, <3>2
    <2> QED
      BY <1>2, <2>1, <2>3
  <1>3. Evict(s) = s \/ (Evict(s) = Tail(s) /\ s # <<>>)
    <2>1. Len(s) \in Nat /\ MaxEvents \in Nat
      BY StateBounds
    <2> QED
      BY <2>1 DEF Evict
  <1> QED
    BY <1>1, <1>2, <1>3

LEMMA ReceiveActivityInv ==
    ASSUME JournalInv, NEW s \in Activities, ReceiveActivity(s)
    PROVE  JournalInv'
  <1>1. PICK next : (next = journal \/ next = AppendEvent(s)) /\ TakeIn(s, next)
    BY DEF ReceiveActivity
  <1>2. updates' = updates
    BY DEF ReceiveActivity
  <1> DEFINE HeldIn(q, e) == {i \in DOMAIN q : EventOf(q[i]) = e}
             new == [signal |-> s, received |-> time, accepted |-> next # journal,
                     pc |-> "project", n |-> deliveries[s]]
  <1>3. next = journal \/ (~Journaled(s) /\ next = Append(journal, s))
    BY <1>1 DEF AppendEvent
  <1>4. /\ next \in Seq(Activities)
        /\ \A i, j \in DOMAIN next : EventOf(next[i]) = EventOf(next[j]) => i = j
        /\ \A e : Cardinality(HeldIn(next, e)) =
                    Cardinality(Held(e)) + IF next # journal /\ e = EventOf(s) THEN 1 ELSE 0
    <2>1. CASE next = journal
      <3>1. \A e : Cardinality(Held(e)) \in Nat
        BY Zenon, PositionsFinite DEF Held, JournalInv
      <3>2. \A e : HeldIn(next, e) = Held(e)
        BY <2>1 DEF Held
      <3> HIDE DEF HeldIn
      <3>3. \A e : Cardinality(HeldIn(next, e)) =
                    Cardinality(Held(e)) + IF next # journal /\ e = EventOf(s) THEN 1 ELSE 0
        BY <2>1, <3>1, <3>2
      <3> QED
        BY <2>1, <3>3 DEF JournalInv
    <2>2. CASE ~Journaled(s) /\ next = Append(journal, s)
      <3>1. next # journal
        BY <2>2 DEF JournalInv
      <3> QED
        BY Zenon, <2>2, <3>1, Appended
    <2> QED
      BY <1>3, <2>1, <2>2
  <1>5. /\ journal' \in Seq(Activities)
        /\ \A i, j \in DOMAIN journal' : EventOf(journal'[i]) = EventOf(journal'[j]) => i = j
    BY <1>1, <1>4, Evicted DEF TakeIn
  <1>6. \A e : Cardinality(HeldIn(next, e)) \in Nat /\ Cardinality(Held(e)') \in Nat
    BY Zenon, <1>4, <1>5, PositionsFinite DEF Held
  <1>7. /\ forgotten' \in [Events -> Int]
        /\ \A e \in Events : Cardinality(Held(e)') + forgotten'[e]
                               = Cardinality(HeldIn(next, e)) + forgotten[e]
    <2>1. \A e : Held(e)' = HeldIn(Evict(next), e)
      BY <1>1 DEF Held, TakeIn
    <2>2. forgotten' = [e \in Events |->
                          forgotten[e] + Cardinality(HeldIn(next, e)) - Cardinality(Held(e)')]
      BY <1>1, <2>1 DEF TakeIn
    <2> HIDE DEF HeldIn
    <2> QED
      BY <1>6, <2>2 DEF JournalInv
  <1>8. FlightOK'
    <2>1. inFlight' = inFlight \cup {new}
      BY <1>1 DEF TakeIn
    <2>2. IsFiniteSet(inFlight')
      BY Zenon, <2>1, FS_AddElement DEF JournalInv, FlightOK
    <2>3. DOMAIN new = FlightFields /\ new.signal = s /\ s \in Signals
      BY DEF FlightFields, Activities
    <2> HIDE DEF new
    <2> QED
      BY <2>1, <2>2, <2>3 DEF JournalInv, FlightOK
  <1>9. ASSUME NEW e \in Events
        PROVE  /\ Cardinality(Pending(e)') \in Nat
               /\ Cardinality(Pending(e)') <=
                    Cardinality(Pending(e)) + IF next # journal /\ e = EventOf(s) THEN 1 ELSE 0
    <2>1. IsFiniteSet(Pending(e)) /\ Cardinality(Pending(e)) \in Nat
      BY PendingFinite DEF JournalInv
    <2>2. CASE next # journal /\ e = EventOf(s)
      <3>1. Pending(e)' \subseteq Pending(e) \cup {new}
        BY <1>1 DEF Pending, TakeIn
      <3> HIDE DEF new
      <3>2. /\ IsFiniteSet(Pending(e) \cup {new})
            /\ Cardinality(Pending(e) \cup {new}) =
                 IF new \in Pending(e) THEN Cardinality(Pending(e)) ELSE Cardinality(Pending(e)) + 1
        BY <2>1, FS_AddElement, Zenon
      <3>3. /\ Cardinality(Pending(e)') <= Cardinality(Pending(e) \cup {new})
            /\ Cardinality(Pending(e)') \in Nat
        BY <3>1, <3>2, FS_Subset, FS_CardinalityType
      <3> QED
        BY <2>1, <2>2, <3>2, <3>3
    <2>3. CASE ~(next # journal /\ e = EventOf(s))
      <3>1. ~(new.accepted /\ EventOf(new.signal) = e)
        BY Zenon, <2>3
      <3>2. inFlight' = inFlight \cup {new}
        BY <1>1 DEF TakeIn
      <3> HIDE DEF new
      <3>3. Pending(e)' \subseteq Pending(e)
        BY <3>1, <3>2 DEF Pending
      <3>4. /\ Cardinality(Pending(e)') <= Cardinality(Pending(e))
            /\ Cardinality(Pending(e)') \in Nat
        BY <2>1, <3>3, FS_Subset, FS_CardinalityType
      <3> QED
        BY <2>1, <2>3, <3>4
    <2> QED
      BY <2>2, <2>3
  <1>10. ASSUME NEW e \in Events
         PROVE  updates'[e] + Cardinality(Pending(e)') <= Cardinality(Held(e)') + forgotten'[e]
    <2> DEFINE one == IF next # journal /\ e = EventOf(s) THEN 1 ELSE 0
    <2>1. Cardinality(Pending(e)) \in Nat /\ updates[e] \in Nat /\ forgotten[e] \in Int /\ one \in Nat
      BY PendingFinite DEF JournalInv
    <2>2. updates[e] + Cardinality(Pending(e)) <= Cardinality(Held(e)) + forgotten[e]
      BY DEF JournalInv
    <2>3. Cardinality(Held(e)) \in Nat
      BY Zenon, PositionsFinite DEF Held, JournalInv
    <2>4. Cardinality(HeldIn(next, e)) = Cardinality(Held(e)) + one
      BY <1>4
    <2>5. Cardinality(Pending(e)') <= Cardinality(Pending(e)) + one /\ Cardinality(Pending(e)') \in Nat
      BY <1>9
    <2>6. Cardinality(Held(e)') + forgotten'[e] = Cardinality(HeldIn(next, e)) + forgotten[e]
      BY <1>7
    <2>7. Cardinality(Held(e)') \in Nat /\ forgotten'[e] \in Int
      BY Zenon, <1>6, <1>7
    <2> HIDE DEF one, HeldIn
    <2> QED
      BY <1>2, <2>1, <2>2, <2>3, <2>4, <2>5, <2>6, <2>7
  <1> QED
    BY <1>2, <1>5, <1>7, <1>8, <1>10 DEF JournalInv

\* A step that leaves the journal alone and lets no observation become pending.
LEMMA PendingShrinks ==
    ASSUME JournalInv, FlightOK', UNCHANGED <<journal, forgotten, updates>>,
           \A e \in Events : Pending(e)' \subseteq Pending(e)
    PROVE  JournalInv'
  <1> SUFFICES ASSUME NEW e \in Events
               PROVE  updates'[e] + Cardinality(Pending(e)') <= Cardinality(Held(e)') + forgotten'[e]
    BY DEF JournalInv
  <1>1. IsFiniteSet(Pending(e)) /\ Cardinality(Pending(e)) \in Nat
    BY PendingFinite DEF JournalInv
  <1>2. Cardinality(Pending(e)') <= Cardinality(Pending(e)) /\ Cardinality(Pending(e)') \in Nat
    BY <1>1, FS_Subset, FS_CardinalityType
  <1>3. Held(e)' = Held(e) /\ Cardinality(Held(e)) \in Nat
    BY Zenon, PositionsFinite DEF Held, JournalInv
  <1>4. /\ updates[e] \in Nat /\ forgotten[e] \in Int
        /\ updates[e] + Cardinality(Pending(e)) <= Cardinality(Held(e)) + forgotten[e]
    BY DEF JournalInv
  <1> QED
    BY <1>1, <1>2, <1>3, <1>4

\* Project: the event moves from the pending ones to the projections.
LEMMA ProjectInv ==
    ASSUME JournalInv, NEW f \in inFlight, Project(f)
    PROVE  JournalInv'
  <1> DEFINE done == [f EXCEPT !.pc = "assemble"]
  <1>1. /\ f.pc = "project" /\ f.signal \in Activities /\ f.signal \in Signals
        /\ DOMAIN f = FlightFields
        /\ inFlight' = (inFlight \ {f}) \cup {done}
        /\ UNCHANGED <<journal, forgotten>>
    BY DEF Project, JournalInv, FlightOK
  <1>2. DOMAIN done = FlightFields /\ done.signal = f.signal /\ done.pc = "assemble"
    BY <1>1 DEF FlightFields
  <1> HIDE DEF done
  <1>3. FlightOK'
    <2>1. IsFiniteSet(inFlight')
      BY Zenon, <1>1, FS_AddElement, FS_RemoveElement DEF JournalInv, FlightOK
    <2> QED
      BY <1>1, <1>2, <2>1 DEF JournalInv, FlightOK
  <1>4. \A e : Pending(e)' = Pending(e) \ {f}
    BY <1>1, <1>2 DEF Pending
  <1>5. CASE ~f.accepted
    <2>1. updates' = updates
      BY <1>5 DEF Project, ProjectActivity
    <2> QED
      BY <1>1, <1>3, <1>4, <2>1, PendingShrinks
  <1>6. CASE f.accepted
    <2>1. updates' = [updates EXCEPT ![EventOf(f.signal)] = @ + 1]
      BY <1>6 DEF Project, ProjectActivity
    <2>2. EventOf(f.signal) \in Events
      BY <1>1 DEF Events
    <2>3. updates' \in [Events -> Nat]
      BY <2>1, <2>2 DEF JournalInv
    <2>4. ASSUME NEW e \in Events
          PROVE  updates'[e] + Cardinality(Pending(e)') <= Cardinality(Held(e)') + forgotten'[e]
      <3>1. IsFiniteSet(Pending(e)) /\ Cardinality(Pending(e)) \in Nat
        BY PendingFinite DEF JournalInv
      <3>2. Held(e)' = Held(e) /\ Cardinality(Held(e)) \in Nat
        BY Zenon, <1>1, PositionsFinite DEF Held, JournalInv
      <3>3. /\ updates[e] \in Nat /\ forgotten[e] \in Int /\ forgotten' = forgotten
            /\ updates[e] + Cardinality(Pending(e)) <= Cardinality(Held(e)) + forgotten[e]
        BY <1>1 DEF JournalInv
      <3>4. CASE e = EventOf(f.signal)
        <4>1. f \in Pending(e)
          BY <1>1, <1>6, <3>4 DEF Pending
        <4>2. Cardinality(Pending(e) \ {f}) = Cardinality(Pending(e)) - 1
          BY <3>1, <4>1, FS_RemoveElement, Zenon
        <4>3. updates'[e] = updates[e] + 1
          BY <2>1, <2>2, <3>4 DEF JournalInv
        <4>4. Cardinality(Pending(e)') = Cardinality(Pending(e)) - 1
          BY <1>4, <4>2
        <4> QED
          BY <3>1, <3>2, <3>3, <4>3, <4>4
      <3>5. CASE e # EventOf(f.signal)
        <4>1. Pending(e)' = Pending(e)
          BY <1>4, <3>5 DEF Pending
        <4>2. updates'[e] = updates[e]
          BY <2>1, <3>5 DEF JournalInv
        <4> QED
          BY <3>1, <3>2, <3>3, <4>1, <4>2
      <3> QED
        BY <3>4, <3>5
    <2> QED
      BY <1>1, <1>3, <2>3, <2>4 DEF JournalInv
  <1> QED
    BY <1>5, <1>6

\* The presence of an actor and the context of a turn take nothing from the journal.
LEMMA OtherTurnsInv ==
    ASSUME JournalInv,
           \/ \E s \in Signals : ReceivePresence(s)
           \/ \E f \in inFlight : Assemble(f)
           \/ ReadInteractions
           \/ StateTick
           \/ UNCHANGED stateVars
    PROVE  JournalInv'
  <1>1. CASE \E s \in Signals : ReceivePresence(s)
    <2>1. PICK s \in Signals : ReceivePresence(s)
      BY <1>1
    <2> DEFINE new == [signal |-> s, received |-> time, accepted |-> FALSE,
                       pc |-> "assemble", n |-> deliveries[s]]
    <2>2. inFlight' = inFlight \cup {new} /\ UNCHANGED <<journal, forgotten, updates>>
      BY SMTT(30), <2>1 DEF ReceivePresence
    <2>3. DOMAIN new = FlightFields /\ new.signal = s /\ new.pc = "assemble"
      BY DEF FlightFields
    <2> HIDE DEF new
    <2>4. IsFiniteSet(inFlight')
      BY <2>2, FS_AddElement DEF JournalInv, FlightOK
    <2>5. FlightOK'
      BY <2>2, <2>3, <2>4 DEF JournalInv, FlightOK
    <2>6. \A e : Pending(e)' \subseteq Pending(e)
      BY <2>2, <2>3 DEF Pending
    <2> QED
      BY <2>2, <2>5, <2>6, PendingShrinks
  <1>2. CASE \E f \in inFlight : Assemble(f)
    <2>1. PICK f \in inFlight : inFlight' = inFlight \ {f} /\ UNCHANGED <<journal, forgotten, updates>>
      BY <1>2 DEF Assemble
    <2>2. FlightOK'
      BY <2>1, FS_RemoveElement DEF JournalInv, FlightOK
    <2>3. \A e : Pending(e)' \subseteq Pending(e)
      BY SMTT(30), <2>1 DEF Pending
    <2> QED
      BY <2>1, <2>2, <2>3, PendingShrinks
  <1>3. CASE ReadInteractions \/ StateTick \/ UNCHANGED stateVars
    <2>1. UNCHANGED <<journal, forgotten, updates, inFlight>>
      BY <1>3 DEF ReadInteractions, StateTick, stateVars
    <2> QED
      BY <2>1 DEF JournalInv, FlightOK, Pending, Held
  <1> QED
    BY <1>1, <1>2, <1>3

\* A restart drops the journal with the process, or keeps it: what it drops counts
\* as forgotten, and nothing is pending.
LEMMA StateRestartInv ==
    ASSUME JournalInv, StateRestart
    PROVE  JournalInv'
  <1>1. /\ inFlight' = {} /\ updates' = updates
        /\ forgotten' = [e \in Events |->
             forgotten[e] + IF durableJournal THEN 0 ELSE Cardinality(Held(e))]
        /\ journal' = IF durableJournal THEN journal ELSE <<>>
    BY DEF StateRestart, Held
  <1>2. FlightOK'
    BY <1>1, FS_EmptySet DEF FlightOK
  <1>3. \A e : Cardinality(Held(e)) \in Nat
    BY Zenon, PositionsFinite DEF Held, JournalInv
  <1>4. forgotten' \in [Events -> Int]
    BY <1>1, <1>3 DEF JournalInv
  <1>5. /\ journal' \in Seq(Activities)
        /\ \A i, j \in DOMAIN journal' : EventOf(journal'[i]) = EventOf(journal'[j]) => i = j
    BY <1>1 DEF JournalInv
  <1>6. ASSUME NEW e \in Events
        PROVE  updates'[e] + Cardinality(Pending(e)') <= Cardinality(Held(e)') + forgotten'[e]
    <2>1. Pending(e)' = {}
      BY <1>1 DEF Pending
    <2>2. Cardinality(Pending(e)') = 0
      BY <2>1, FS_EmptySet
    <2>3. Cardinality(Pending(e)) \in Nat
      BY PendingFinite DEF JournalInv
    <2>4. /\ updates[e] \in Nat /\ forgotten[e] \in Int
          /\ updates[e] + Cardinality(Pending(e)) <= Cardinality(Held(e)) + forgotten[e]
      BY DEF JournalInv
    <2>5. CASE durableJournal
      <3>1. Held(e)' = Held(e)
        BY <1>1, <2>5 DEF Held
      <3>2. forgotten'[e] = forgotten[e]
        BY <1>1, <2>4, <2>5
      <3> QED
        BY <1>1, <1>3, <2>2, <2>3, <2>4, <3>1, <3>2
    <2>6. CASE ~durableJournal
      <3>1. Held(e)' = {}
        BY <1>1, <2>6 DEF Held
      <3>2. Cardinality(Held(e)') = 0
        BY <3>1, FS_EmptySet
      <3>3. forgotten'[e] = forgotten[e] + Cardinality(Held(e))
        BY <1>1, <2>6
      <3> QED
        BY <1>1, <1>3, <2>2, <2>3, <2>4, <3>2, <3>3
    <2> QED
      BY <2>5, <2>6
  <1> QED
    BY <1>1, <1>2, <1>4, <1>5, <1>6 DEF JournalInv

\* append, _evict_overflow, IntegrityError: an activity event reaches the projections
\* once for every time the journal took it in, whatever is redelivered under another
\* observation id, evicted, or lost with the process.
THEOREM EventsAreAppliedOnce == StateSpec => []EventsApplyOnce
  <1>1. StateInit => JournalInv
    <2> SUFFICES ASSUME StateInit PROVE JournalInv
      OBVIOUS
    <2>1. /\ journal = <<>> /\ inFlight = {} /\ updates = [e \in Events |-> 0]
          /\ forgotten = [e \in Events |-> 0]
      BY DEF StateInit
    <2>2. FlightOK
      BY <2>1, FS_EmptySet DEF FlightOK
    <2>3. \A e : Held(e) = {} /\ Pending(e) = {}
      BY <2>1 DEF Held, Pending
    <2>4. \A e : Cardinality(Held(e)) = 0 /\ Cardinality(Pending(e)) = 0
      BY <2>3, FS_EmptySet
    <2> QED
      BY <2>1, <2>2, <2>4 DEF JournalInv
  <1>2. JournalInv /\ [StateNext]_stateVars => JournalInv'
    <2> SUFFICES ASSUME JournalInv, [StateNext]_stateVars PROVE JournalInv'
      OBVIOUS
    <2>1. ASSUME NEW s \in Signals, ReceiveActivity(s) PROVE JournalInv'
      <3>1. s \in Activities
        BY <2>1 DEF ReceiveActivity
      <3> QED
        BY <2>1, <3>1, ReceiveActivityInv
    <2>2. ASSUME NEW f \in inFlight, Project(f) PROVE JournalInv'
      BY <2>2, ProjectInv
    <2> QED
      BY <2>1, <2>2, OtherTurnsInv, StateRestartInv DEF StateNext
  <1>3. JournalInv => EventsApplyOnce
    <2> SUFFICES ASSUME JournalInv, NEW e \in Events PROVE updates[e] <= 1 + forgotten[e]
      BY DEF EventsApplyOnce
    <2>1. Cardinality(Held(e)) \in {0, 1}
      BY AtMostOne DEF Held, JournalInv
    <2>2. Cardinality(Pending(e)) \in Nat
      BY PendingFinite DEF JournalInv
    <2> QED
      BY <2>1, <2>2 DEF JournalInv
  <1> QED
    BY <1>1, <1>2, <1>3, PTL DEF StateSpec

(***************************************************************************)
(* The order of the interaction snapshots.                                 *)
(***************************************************************************)
\* The order the tuples of _is_older_snapshot are compared in, spelled out.
Before(a, b) ==
    \/ a.at < b.at
    \/ a.at = b.at /\ a.received < b.received

LEMMA LexLess2 ==
    ASSUME NEW a1 \in Int, NEW a2 \in Int, NEW b1 \in Int, NEW b2 \in Int
    PROVE  LexLess(<<a1, a2>>, <<b1, b2>>) <=> (a1 < b1 \/ (a1 = b1 /\ a2 < b2))
  BY DEF LexLess

LEMMA LexLess3 ==
    ASSUME NEW a1 \in Int, NEW a2 \in Int, NEW a3 \in Int,
           NEW b1 \in Int, NEW b2 \in Int, NEW b3 \in Int
    PROVE  LexLess(<<a1, a2, a3>>, <<b1, b2, b3>>)
             <=> (a1 < b1 \/ (a1 = b1 /\ (a2 < b2 \/ (a2 = b2 /\ a3 < b3))))
  BY DEF LexLess

LEMMA OlderMeans ==
    ASSUME NEW a \in Snapshots, NEW b \in Snapshots
    PROVE  /\ (a.seq = None \/ b.seq = None) =>
                /\ IsOlder(a, b) <=> Before(a, b)
                /\ SameOrder(a, b) <=> (a.at = b.at /\ a.received = b.received)
           /\ (a.seq # None /\ b.seq # None) =>
                /\ IsOlder(a, b) <=> (a.seq < b.seq \/ (a.seq = b.seq /\ Before(a, b)))
                /\ SameOrder(a, b) <=> (a.seq = b.seq /\ a.at = b.at /\ a.received = b.received)
  <1>1. /\ a.at \in Int /\ a.received \in Int /\ b.at \in Int /\ b.received \in Int
        /\ a.seq \in Int \cup {None} /\ b.seq \in Int \cup {None}
    BY DEF Snapshots
  <1>2. CASE a.seq = None \/ b.seq = None
    <2>1. OrderKey(a, b) = <<a.at, a.received>> /\ OrderKey(b, a) = <<b.at, b.received>>
      BY <1>2 DEF OrderKey
    <2>2. IsOlder(a, b) <=> Before(a, b)
      BY <1>1, <2>1, LexLess2 DEF IsOlder, Before
    <2> QED
      BY <1>2, <2>1, <2>2 DEF SameOrder
  <1>3. CASE a.seq # None /\ b.seq # None
    <2>1. /\ OrderKey(a, b) = <<a.seq, a.at, a.received>>
          /\ OrderKey(b, a) = <<b.seq, b.at, b.received>>
      BY <1>3 DEF OrderKey
    <2>2. IsOlder(a, b) <=> (a.seq < b.seq \/ (a.seq = b.seq /\ Before(a, b)))
      <3> DEFINE a1 == a.seq  a2 == a.at  a3 == a.received
                 b1 == b.seq  b2 == b.at  b3 == b.received
      <3>1. a1 \in Int /\ a2 \in Int /\ a3 \in Int /\ b1 \in Int /\ b2 \in Int /\ b3 \in Int
        BY <1>1, <1>3
      <3> HIDE DEF a1, a2, a3, b1, b2, b3
      <3>2. LexLess(<<a1, a2, a3>>, <<b1, b2, b3>>)
              <=> (a1 < b1 \/ (a1 = b1 /\ (a2 < b2 \/ (a2 = b2 /\ a3 < b3))))
        BY <3>1, LexLess3
      <3> USE DEF a1, a2, a3, b1, b2, b3
      <3> QED
        BY <2>1, <3>2, Zenon DEF IsOlder, Before
    <2> QED
      BY <1>3, <2>1, <2>2 DEF SameOrder
  <1> QED
    BY <1>2, <1>3

\* Among snapshots that are all numbered or none of them, being older is an order.
Numbered(S) == \A x \in S : x.seq # None
Unnumbered(S) == \A x \in S : x.seq = None

LEMMA OlderIsAnOrder ==
    ASSUME NEW a \in Snapshots, NEW b \in Snapshots, NEW c \in Snapshots,
           Numbered({a, b, c}) \/ Unnumbered({a, b, c})
    PROVE  /\ ~IsOlder(a, a)
           /\ IsOlder(a, b) => ~IsOlder(b, a)
           /\ IsOlder(a, b) /\ IsOlder(b, c) => IsOlder(a, c)
           /\ IsOlder(a, b) \/ IsOlder(b, a) \/ SameOrder(a, b)
           /\ SameOrder(a, b) => ~IsOlder(b, a)
           /\ SameContent(a, b) => SameOrder(a, b)
  <1>1. /\ \A x \in {a, b, c} : x \in Snapshots
        /\ \A x \in {a, b, c} : x.at \in Int /\ x.received \in Int /\ x.seq \in Int \cup {None}
    BY DEF Snapshots
  <1>2. CASE Numbered({a, b, c})
    <2>1. \A x, y \in {a, b, c} :
             /\ IsOlder(x, y) <=> (x.seq < y.seq \/ (x.seq = y.seq /\ Before(x, y)))
             /\ SameOrder(x, y) <=> (x.seq = y.seq /\ x.at = y.at /\ x.received = y.received)
      BY <1>1, <1>2, OlderMeans DEF Numbered
    <2>2. \A x \in {a, b, c} : x.seq \in Int
      BY <1>1, <1>2 DEF Numbered
    <2> QED
      BY <1>1, <2>1, <2>2 DEF Before, SameContent
  <1>3. CASE Unnumbered({a, b, c})
    <2>1. \A x, y \in {a, b, c} :
             /\ IsOlder(x, y) <=> Before(x, y)
             /\ SameOrder(x, y) <=> (x.at = y.at /\ x.received = y.received)
      BY SMTT(30), <1>1, <1>3, OlderMeans DEF Unnumbered
    <2> QED
      BY <1>1, <2>1 DEF Before, SameContent
  <1> QED
    BY <1>2, <1>3

\* What the projections of the interactions are built from: the newest snapshot is
\* one of those the process applied, and none of them is newer.
NewestOf(latest, S) ==
    Numbered(S) \/ Unnumbered(S) => \A x \in S : ~IsOlder(latest, x)

ProjectionInv ==
    /\ time \in Nat
    /\ \A f \in inFlight : DOMAIN f = FlightFields /\ f.signal \in Signals /\ f.received \in Int
    /\ \A f \in inFlight : f.pc = "project" => f.signal \in Activities
    /\ latestSnapshots \in [Keys -> Snapshots \cup {None}]
    /\ offered \in [Keys -> SUBSET Snapshots]
    /\ \A k \in Keys : IF offered[k] = {} THEN latestSnapshots[k] = None
                       ELSE latestSnapshots[k] \in offered[k]
    /\ \A k \in Keys : NewestOf(latestSnapshots[k], offered[k])

\* interaction_snapshot_from_event makes a snapshot of every start and stop.
LEMMA SnapshotTyped ==
    ASSUME NEW s \in Signals, NEW now \in Int
    PROVE  SnapshotOf(s, now) \in Snapshots
  <1>1. s.seq \in Int \cup {None} /\ s.expires \in Int \cup {None} /\ s.at \in Int /\ MaxTtl \in Nat
    BY SignalShape, StateBounds
  <1>2. BoundedExpiry(s, now) \in Int
    BY <1>1 DEF BoundedExpiry, Least
  <1>3. Transition(s.kind).active \in BOOLEAN
    BY DEF Transition
  <1> QED
    BY Zenon, <1>1, <1>2, <1>3 DEF SnapshotOf, Snapshots

\* InMemoryInteractionActivityProjectionStore.apply, on one key.
LEMMA ApplyKeepsNewest ==
    ASSUME NEW S \in SUBSET Snapshots, NEW latest, NEW snap \in Snapshots,
           IF S = {} THEN latest = None ELSE latest \in S,
           NewestOf(latest, S),
           NEW next, next = IF Decision(snap, latest) = "accept" THEN snap ELSE latest
    PROVE  next \in S \cup {snap} /\ NewestOf(next, S \cup {snap})
  <1>1. None \notin Snapshots
    BY SignalShape
  <1>2. CASE S = {}
    <2>1. next = snap
      BY <1>2 DEF Decision
    <2>2. Numbered({snap}) \/ Unnumbered({snap}) => ~IsOlder(snap, snap)
      <3>1. {snap} = {snap, snap, snap}
        OBVIOUS
      <3> QED
        BY <3>1, OlderIsAnOrder
    <2> QED
      BY <1>2, <2>1, <2>2 DEF NewestOf, Numbered, Unnumbered
  <1>3. CASE S # {}
    <2>1. latest \in S /\ latest \in Snapshots /\ latest # None
      BY <1>1, <1>3
    <2>2. ASSUME Numbered(S \cup {snap}) \/ Unnumbered(S \cup {snap}), NEW x \in S \cup {snap}
          PROVE  ~IsOlder(next, x)
      <3>1. x \in Snapshots
        OBVIOUS
      <3>2. \A y \in S : ~IsOlder(latest, y)
        BY <2>2 DEF NewestOf, Numbered, Unnumbered
      <3>3. \A a, b, c \in {latest, snap, x} : Numbered({a, b, c}) \/ Unnumbered({a, b, c})
        BY <2>1, <2>2 DEF Numbered, Unnumbered
      <3>4. \A a, b, c \in {latest, snap, x} :
              /\ ~IsOlder(a, a)
              /\ IsOlder(a, b) => ~IsOlder(b, a)
              /\ IsOlder(a, b) /\ IsOlder(b, c) => IsOlder(a, c)
              /\ IsOlder(a, b) \/ IsOlder(b, a) \/ SameOrder(a, b)
              /\ SameOrder(a, b) => ~IsOlder(b, a)
              /\ SameContent(a, b) => SameOrder(a, b)
        <4> SUFFICES ASSUME NEW a \in {latest, snap, x}, NEW b \in {latest, snap, x},
                            NEW c \in {latest, snap, x}
                     PROVE  /\ ~IsOlder(a, a)
                            /\ IsOlder(a, b) => ~IsOlder(b, a)
                            /\ IsOlder(a, b) /\ IsOlder(b, c) => IsOlder(a, c)
                            /\ IsOlder(a, b) \/ IsOlder(b, a) \/ SameOrder(a, b)
                            /\ SameOrder(a, b) => ~IsOlder(b, a)
                            /\ SameContent(a, b) => SameOrder(a, b)
          OBVIOUS
        <4>1. /\ a \in Snapshots /\ b \in Snapshots /\ c \in Snapshots
              /\ Numbered({a, b, c}) \/ Unnumbered({a, b, c})
          BY SMTT(30), <2>1, <3>1, <3>3
        <4> QED
          BY SMTT(30), <4>1, OlderIsAnOrder
      <3>5. CASE x = snap
        BY SMTT(30), <2>1, <3>4, <3>5 DEF Decision
      <3>6. CASE x \in S
        BY <2>1, <3>2, <3>4, <3>6 DEF Decision
      <3> QED
        BY <3>5, <3>6
    <2>3. next \in S \cup {snap}
      BY <2>1
    <2> QED
      BY <2>2, <2>3 DEF NewestOf
  <1> QED
    BY <1>2, <1>3

\* Project: a start or a stop is offered to the order of its key.
LEMMA ProjectProjection ==
    ASSUME ProjectionInv, NEW f \in inFlight, Project(f)
    PROVE  ProjectionInv'
  <1> DEFINE done == [f EXCEPT !.pc = "assemble"]
  <1>1. /\ f.signal \in Activities /\ f.signal \in Signals /\ f.received \in Int
        /\ DOMAIN f = FlightFields
        /\ inFlight' = (inFlight \ {f}) \cup {done}
        /\ time' = time
    BY DEF Project, ProjectionInv
  <1>2. /\ DOMAIN done = FlightFields /\ done.signal = f.signal /\ done.pc = "assemble"
        /\ done.received = f.received
    BY <1>1 DEF FlightFields
  <1> HIDE DEF done
  <1>3. /\ time' \in Nat
        /\ \A g \in inFlight' : DOMAIN g = FlightFields /\ g.signal \in Signals /\ g.received \in Int
        /\ \A g \in inFlight' : g.pc = "project" => g.signal \in Activities
    BY SMTT(30), <1>1, <1>2 DEF ProjectionInv
  <1>4. CASE ~(f.accepted /\ IsTransition(f.signal.kind))
    <2>1. UNCHANGED <<latestSnapshots, offered>>
      BY SMTT(30), <1>4 DEF Project, ProjectActivity
    <2> QED
      BY <1>3, <2>1 DEF ProjectionInv
  <1>5. CASE f.accepted /\ IsTransition(f.signal.kind)
    <2> DEFINE snap == SnapshotOf(f.signal, f.received)
               key == SnapshotKey(f.signal)
               next == IF Decision(snap, latestSnapshots[key]) = "accept"
                       THEN snap ELSE latestSnapshots[key]
    <2>1. ApplySnapshot(snap, key) /\ offered' = [offered EXCEPT ![key] = @ \cup {snap}]
      BY SMTT(30), <1>5 DEF Project, ProjectActivity
    <2>2. key \in Keys
      BY <1>1, <1>5 DEF Keys, SnapshotKey
    <2>3. snap \in Snapshots
      BY <1>1, SnapshotTyped
    <2> HIDE DEF snap, key
    <2>4. latestSnapshots' = [latestSnapshots EXCEPT ![key] = next]
      BY SMTT(30), <2>1, <2>2 DEF ApplySnapshot, ProjectionInv
    <2>5. next \in offered[key] \cup {snap} /\ NewestOf(next, offered[key] \cup {snap})
      <3>1. /\ offered[key] \in SUBSET Snapshots
            /\ IF offered[key] = {} THEN latestSnapshots[key] = None
               ELSE latestSnapshots[key] \in offered[key]
            /\ NewestOf(latestSnapshots[key], offered[key])
        BY <2>2 DEF ProjectionInv
      <3> QED
        BY <2>3, <3>1, ApplyKeepsNewest
    <2> HIDE DEF next
    <2>6. latestSnapshots' \in [Keys -> Snapshots \cup {None}] /\ offered' \in [Keys -> SUBSET Snapshots]
      BY SMTT(30), <2>1, <2>2, <2>3, <2>4, <2>5 DEF ProjectionInv
    <2>7. ASSUME NEW k \in Keys
          PROVE  /\ IF offered'[k] = {} THEN latestSnapshots'[k] = None
                    ELSE latestSnapshots'[k] \in offered'[k]
                 /\ NewestOf(latestSnapshots'[k], offered'[k])
      <3>1. CASE k = key
        <4>1. latestSnapshots'[k] = next /\ offered'[k] = offered[key] \cup {snap}
          BY SMTT(30), <2>1, <2>2, <2>4, <3>1 DEF ProjectionInv
        <4> QED
          BY <2>5, <4>1
      <3>2. CASE k # key
        <4>1. latestSnapshots'[k] = latestSnapshots[k] /\ offered'[k] = offered[k]
          BY <2>1, <2>4, <3>2 DEF ProjectionInv
        <4> QED
          BY <4>1 DEF ProjectionInv
      <3> QED
        BY <3>1, <3>2
    <2> QED
      BY Zenon, <1>3, <2>6, <2>7 DEF ProjectionInv, NewestOf, Numbered, Unnumbered, IsOlder, OrderKey, LexLess
  <1> QED
    BY <1>4, <1>5

LEMMA OtherProjection ==
    ASSUME ProjectionInv,
           \/ \E s \in Signals : ReceiveActivity(s) \/ ReceivePresence(s)
           \/ \E f \in inFlight : Assemble(f)
           \/ ReadInteractions
           \/ StateTick
           \/ StateRestart
           \/ UNCHANGED stateVars
    PROVE  ProjectionInv'
  <1>1. CASE \E s \in Signals : ReceiveActivity(s)
    <2>1. PICK s \in Signals : ReceiveActivity(s)
      BY <1>1
    <2>2. PICK next : TakeIn(s, next)
      BY SMTT(30), <2>1 DEF ReceiveActivity
    <2> DEFINE new == [signal |-> s, received |-> time, accepted |-> next # journal,
                       pc |-> "project", n |-> deliveries[s]]
    <2>3. /\ inFlight' = inFlight \cup {new} /\ UNCHANGED <<latestSnapshots, offered, time>>
          /\ s \in Activities
      BY Zenon, <2>1, <2>2 DEF ReceiveActivity, TakeIn
    <2>4. time \in Int
      BY SMTT(30) DEF ProjectionInv
    <2>5. DOMAIN new = FlightFields /\ new.signal = s /\ new.received \in Int
      BY <2>4 DEF FlightFields
    <2> HIDE DEF new
    <2> QED
      BY <2>3, <2>5 DEF ProjectionInv
  <1>2. CASE \E s \in Signals : ReceivePresence(s)
    <2>1. PICK s \in Signals : ReceivePresence(s)
      BY SMTT(30), <1>2
    <2> DEFINE new == [signal |-> s, received |-> time, accepted |-> FALSE,
                       pc |-> "assemble", n |-> deliveries[s]]
    <2>2. inFlight' = inFlight \cup {new} /\ UNCHANGED <<latestSnapshots, offered, time>>
      BY <2>1 DEF ReceivePresence
    <2>3. time \in Int
      BY SMTT(30) DEF ProjectionInv
    <2>4. DOMAIN new = FlightFields /\ new.signal = s /\ new.received \in Int /\ new.pc = "assemble"
      BY <2>3 DEF FlightFields
    <2> HIDE DEF new
    <2> QED
      BY <2>2, <2>4 DEF ProjectionInv
  <1>3. CASE (\E f \in inFlight : Assemble(f)) \/ ReadInteractions \/ StateTick \/ UNCHANGED stateVars
    <2>1. inFlight' \subseteq inFlight /\ UNCHANGED <<latestSnapshots, offered>>
      BY SMTT(30), <1>3 DEF Assemble, ReadInteractions, StateTick, stateVars
    <2>2. time' = time \/ time' = time + 1
      BY <1>3 DEF Assemble, ReadInteractions, StateTick, stateVars
    <2>3. time' \in Nat
      BY SMTT(30), <2>2 DEF ProjectionInv
    <2> QED
      BY SMTT(30), <2>1, <2>3 DEF ProjectionInv
  <1>4. CASE StateRestart
    <2>1. /\ inFlight' = {} /\ time' = time
          /\ latestSnapshots' = [k \in Keys |-> None] /\ offered' = [k \in Keys |-> {}]
      BY <1>4 DEF StateRestart
    <2> QED
      BY Zenon, <2>1 DEF ProjectionInv, NewestOf
  <1> QED
    BY SMTT(30), <1>1, <1>2, <1>3, <1>4

\* InMemoryInteractionActivityProjectionStore.apply: late, repeated and reordered
\* starts and stops never roll a projection back, for every source that numbers all
\* of its events or none of them.
THEOREM NewestInteractionIsKept == StateSpec => []NewestInteractionWins
  <1>1. StateInit => ProjectionInv
    BY DEF StateInit, ProjectionInv, NewestOf
  <1>2. ProjectionInv /\ [StateNext]_stateVars => ProjectionInv'
    BY SMTT(30), ProjectProjection, OtherProjection DEF StateNext
  <1>3. ProjectionInv => NewestInteractionWins
    BY DEF ProjectionInv, NewestInteractionWins, NewestOf, Numbered, Unnumbered
  <1> QED
    BY <1>1, <1>2, <1>3, PTL DEF StateSpec
=============================================================================
