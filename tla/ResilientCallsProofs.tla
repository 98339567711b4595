-------------------------- MODULE ResilientCallsProofs --------------------------
(***************************************************************************)
(* For any number of agents, profiles, providers and retries: a key is     *)
(* only sent to the provider that issued it, a profile is only blamed for  *)
(* its own key, and a call turns to a cooling profile only if it must.     *)
(***************************************************************************)
EXTENDS ResilientCalls, TLAPS

\* A profile's provider, where it is known, is the one that issued its key.
Located == \A p \in Profiles : provider[p] \in {None, Home[p]}

\* The manager's client is bound to the active profile, whose provider is known.
BoundToActive ==
    bound # None =>
        /\ active # None
        /\ bound = Client(active, Home[active])
        /\ provider[active] = Home[active]

\* A call under way uses a client, and the profile it will blame is its key's.
HoldsItsKey(c) ==
    /\ client[c] \in Clients
    /\ AtHome(client[c])
    /\ profile[c] # None =>
         profile[c] = client[c].key /\ provider[profile[c]] = client[c].provider
Holding == \A c \in Callers : Calling(c) => HoldsItsKey(c)

\* A call that sleeps has an attempt left.
Rested == \A c \in Callers : at[c] = "backoff" => attempt[c] <= MaxRetries

IndInv == TypeOK /\ Located /\ BoundToActive /\ Holding /\ Rested

-----------------------------------------------------------------------------
(* The initial state.                                                      *)

LEMMA InitInd == Init => IndInv
<1> SUFFICES ASSUME Init PROVE IndInv
  OBVIOUS
<1> USE ResilienceAssumption DEF Init
<1>1. TypeOK
  BY DEF TypeOK, Clients, Profiles
<1>2. Located /\ BoundToActive /\ Holding /\ Rested
  BY DEF Located, BoundToActive, Holding, Rested, Calling
<1> QED
  BY <1>1, <1>2 DEF IndInv

-----------------------------------------------------------------------------
(* The start of a call.                                                    *)

\* What Begin asks of the client and of the profile it is remembered for, p;
\* prov is the providers after the step.
Fits(k, p) ==
    /\ k \in Clients /\ AtHome(k)
    /\ p \in Profiles \cup {None}
    /\ p # None => k = Client(p, Home[p])

LEMMA HostFits ==
    ASSUME TypeOK, NEW c \in Callers
    PROVE  /\ host[c] \in Clients /\ AtHome(host[c])
           /\ host[c].provider \in Providers
           /\ host[c].key \in Profiles \cup {None}
  BY DEF TypeOK, HostClients, Clients, AtHome

LEMMA ClientFits ==
    ASSUME NEW p \in Profiles
    PROVE  Fits(Client(p, Home[p]), p)
  BY ResilienceAssumption DEF Fits, Client, Clients, AtHome

\* A call that begins keeps the invariant, if the provider of the profile it
\* is remembered for is known by then.
LEMMA BeginInd ==
    ASSUME IndInv, NEW c \in Callers, NEW k, NEW p,
           Fits(k, p), Begin(c, k, p),
           provider' \in [Profiles -> Providers \cup {None}],
           \A q \in Profiles : provider'[q] \in {None, Home[q]},
           \A q \in Profiles : provider[q] # None => provider'[q] = provider[q],
           p # None => provider'[p] = Home[p],
           p = None /\ k.key # None => provider'[k.key] = k.provider
    PROVE  IndInv'
<1> USE ResilienceAssumption DEF IndInv, Begin
<1>1. FindProfile(k) \in Profiles \cup {None} /\ (FindProfile(k) # None => FindProfile(k) = k.key)
  BY DEF FindProfile, Fits, Clients
<1>2. /\ profile'[c] \in Profiles \cup {None}
      /\ profile'[c] # None => profile'[c] = k.key /\ provider'[profile'[c]] = k.provider
  BY <1>1 DEF TypeOK, Fits, Client
<1>3. TypeOK'
  BY <1>2 DEF TypeOK, Fits
<1>4. Located'
  BY DEF Located
<1>5. BoundToActive'
  <2>1. CASE p = None
    BY <2>1 DEF BoundToActive, TypeOK, Client
  <2>2. CASE p # None
    BY <2>2 DEF Fits, BoundToActive
  <2> QED
    BY <2>1, <2>2
<1>6. Holding'
  <2> SUFFICES ASSUME NEW d \in Callers, Calling(d)'
               PROVE  HoldsItsKey(d)'
    BY DEF Holding
  <2>1. CASE d = c
    BY <2>1, <1>2 DEF HoldsItsKey, Fits, AtHome, TypeOK
  <2>2. CASE d # c
    <3>1. /\ Calling(d) /\ client'[d] = client[d] /\ profile'[d] = profile[d]
      BY <2>2 DEF Calling, TypeOK
    <3>2. HoldsItsKey(d) /\ profile[d] \in Profiles \cup {None}
      BY <3>1 DEF Holding, TypeOK
    <3>3. client[d].provider # None
      BY <3>2 DEF HoldsItsKey, Clients
    <3> QED
      BY <3>1, <3>2, <3>3 DEF HoldsItsKey, AtHome
  <2> QED
    BY <2>1, <2>2
<1>7. Rested'
  BY DEF Rested, TypeOK
<1> QED
  BY <1>3, <1>4, <1>5, <1>6, <1>7

LEMMA PeerIs ==
    ASSUME NEW p, NEW v, NEW q \in Failover(p, v)
    PROVE  q \in Profiles /\ q # p /\ q \notin cooling /\ provider[q] = v
  BY DEF Failover, Peers

LEMMA StartInd ==
    ASSUME IndInv, NEW c \in Callers, StartCall(c)
    PROVE  IndInv'
<1> USE ResilienceAssumption DEF IndInv
<1>1. /\ host[c] \in Clients /\ AtHome(host[c])
      /\ host[c].provider \in Providers
      /\ host[c].key \in Profiles \cup {None}
  BY HostFits
<1>2. provider \in [Profiles -> Providers \cup {None}] /\ active \in Profiles \cup {None}
  BY DEF TypeOK
<1>3. ASSUME NEW q \in Profiles, provider[q] = host[c].provider
      PROVE  host[c].provider = Home[q]
  BY <1>1, <1>3 DEF Located
<1>4. CASE BeginActive(c)
  <2>1. active \in Profiles /\ host[c].provider = Home[active] /\ provider' = provider
    BY <1>2, <1>3, <1>4 DEF BeginActive, ActiveMatches
  <2>2. CASE Reusable(c) /\ Begin(c, bound, None)
    <3>1. bound = Client(active, Home[active]) /\ provider[active] = Home[active]
      BY <2>2 DEF Reusable, ActiveClient, BoundToActive
    <3>2. Fits(bound, None)
      BY <3>1, <2>1, ClientFits DEF Fits
    <3> QED
      BY <3>1, <3>2, <2>1, <2>2, <1>2, BeginInd DEF Located, Client
  <2>3. CASE Begin(c, Client(active, host[c].provider), active)
    BY <2>1, <2>3, <1>2, <1>4, ClientFits, BeginInd DEF Located, BeginActive, ActiveMatches
  <2>4. CASE BeginElsewhere(c, active)
    <3>1. PICK q \in Failover(active, host[c].provider) : Begin(c, Client(q, host[c].provider), q)
      BY <2>4 DEF BeginElsewhere
    <3>2. q \in Profiles /\ provider[q] = Home[q] /\ host[c].provider = Home[q]
      BY PeerIs, <1>3
    <3> QED
      BY <3>1, <3>2, <2>1, <1>2, ClientFits, BeginInd DEF Located
  <2> QED
    BY <1>4, <2>2, <2>3, <2>4 DEF BeginActive
<1>5. CASE BeginHost(c)
  <2> DEFINE p == FindProfile(host[c])
  <2>1. CASE p = None
    <3>1. provider' = provider /\ Begin(c, host[c], None)
      BY <1>2, <1>5, <2>1 DEF BeginHost, TypeOK
    <3>2. host[c].key = None
      BY <2>1, <1>1, <1>2 DEF FindProfile, Located, AtHome
    <3> QED
      BY <3>1, <3>2, <1>1, <1>2, BeginInd DEF Located, Fits
  <2>2. CASE p # None
    <3>1. p = host[c].key /\ p \in Profiles /\ host[c].provider = Home[p]
      BY <2>2, <1>1 DEF FindProfile, AtHome
    <3>2. provider' = [provider EXCEPT ![p] = host[c].provider]
      BY <1>5, <2>2 DEF BeginHost
    <3>3. /\ provider' \in [Profiles -> Providers \cup {None}]
          /\ \A q \in Profiles : provider'[q] \in {None, Home[q]}
          /\ \A q \in Profiles : provider[q] # None => provider'[q] = provider[q]
          /\ provider'[p] = Home[p]
      BY <3>1, <3>2, <1>1, <1>2 DEF Located
    <3>4. host[c] = Client(p, Home[p])
      BY <3>1, <1>1 DEF Clients, Client
    <3>5. CASE Begin(c, host[c], p)
      BY <3>1, <3>3, <3>4, <3>5, ClientFits, BeginInd
    <3>6. CASE Begin(c, host[c], None)
      <4>1. Fits(host[c], None)
        BY <1>1 DEF Fits
      <4> QED
        BY <4>1, <3>1, <3>3, <3>6, BeginInd
    <3>7. CASE BeginElsewhere(c, p)
      <4>1. PICK q \in Failover(p, host[c].provider) : Begin(c, Client(q, host[c].provider), q)
        BY <3>7 DEF BeginElsewhere
      <4>2. q \in Profiles /\ provider[q] = host[c].provider /\ host[c].provider = Home[q]
        BY PeerIs, <1>3
      <4>3. provider'[q] = Home[q]
        BY <4>2, <3>3, <1>1
      <4>4. Fits(Client(q, Home[q]), q) /\ Begin(c, Client(q, Home[q]), q)
        BY <4>1, <4>2, ClientFits
      <4> QED
        BY <4>2, <4>3, <4>4, <3>3, BeginInd
    <3> QED
      BY <1>5, <2>2, <3>5, <3>6, <3>7 DEF BeginHost
  <2> QED
    BY <2>1, <2>2
<1> QED
  BY <1>4, <1>5 DEF StartCall

-----------------------------------------------------------------------------
(* The other steps.                                                        *)

\* A step that leaves the manager's providers alone, keeps or drops its client,
\* and at most ends the call of c or moves it on.
LEMMA QuietInd ==
    ASSUME IndInv, NEW c \in Callers, TypeOK', UNCHANGED provider,
           bound' = None \/ (bound' = bound /\ active' = active),
           client' = client \/ client' = [client EXCEPT ![c] = None],
           profile' = profile \/ profile' = [profile EXCEPT ![c] = None],
           \A d \in Callers : Calling(d)' => Calling(d),
           Calling(c)' => client' = client /\ profile' = profile,
           Rested'
    PROVE  IndInv'
<1> USE DEF IndInv
<1>1. Located'
  BY DEF Located
<1>2. BoundToActive'
  BY DEF BoundToActive
<1>3. Holding'
  <2> SUFFICES ASSUME NEW d \in Callers, Calling(d)'
               PROVE  HoldsItsKey(d)'
    BY DEF Holding
  <2>1. client'[d] = client[d] /\ profile'[d] = profile[d] /\ Calling(d)
    BY DEF TypeOK
  <2> QED
    BY <2>1 DEF Holding, HoldsItsKey, AtHome
<1> QED
  BY <1>1, <1>2, <1>3

LEMMA LeavesInd ==
    ASSUME IndInv, NEW c \in Callers, Leaves(c), UNCHANGED <<host, provider, active>>,
           cooling' \subseteq Profiles,
           bound' \in {bound, None}
    PROVE  IndInv'
<1> USE DEF IndInv, Leaves
<1>1. TypeOK'
  BY ResilienceAssumption DEF TypeOK
<1>2. Rested'
  BY DEF Rested, TypeOK
<1>3. ~ Calling(c)' /\ \A d \in Callers : Calling(d)' => Calling(d)
  BY DEF Calling, TypeOK
<1> QED
  BY <1>1, <1>2, <1>3, QuietInd

LEMMA FailInd ==
    ASSUME IndInv, NEW c \in Callers, Fail(c)
    PROVE  IndInv'
<1> USE ResilienceAssumption DEF IndInv
<1>1. at[c] = "request" /\ host' = host
  BY DEF Fail
<1>2. PICK p \in {None, profile[c]}, overflow \in BOOLEAN :
        Blame(p) /\ (GiveUp(c, p) \/ Rotate(c, p) \/ GoOn(c, p, overflow))
  BY DEF Fail
<1>3. p \in Profiles \cup {None} /\ cooling' \subseteq Profiles /\ provider' = provider
  BY <1>2 DEF TypeOK, Blame
<1>4. HoldsItsKey(c)
  BY <1>1 DEF Holding, Calling
<1>5. CASE GiveUp(c, p)
  BY <1>1, <1>3, <1>5, LeavesInd DEF GiveUp
<1>6. CASE Rotate(c, p)
  <2>1. PICK q \in Failover(p, provider[p]) :
          /\ active' = q
          /\ bound' = Rotated(c, q)
          /\ client' = [client EXCEPT ![c] = Rotated(c, q)]
          /\ profile' = [profile EXCEPT ![c] = q]
    BY <1>6 DEF Rotate
  <2>2. q \in Profiles /\ provider[q] = client[c].provider /\ client[c].provider \in Providers
    BY <1>2, <1>4, <1>6, PeerIs DEF Rotate, HoldsItsKey, Clients
  <2>3. client[c].provider = Home[q]
    BY <2>2 DEF Located
  <2>4. Rotated(c, q) = Client(q, Home[q]) /\ Fits(Client(q, Home[q]), q)
    BY <2>2, <2>3, ClientFits DEF Rotated
  <2>5. TypeOK'
    <3>1. attempt' \in [Callers -> 1..MaxRetries + 1]
      BY <1>6 DEF Rotate, Last, Counted, TypeOK
    <3> QED
      BY <3>1, <1>1, <1>3, <1>6, <2>1, <2>2, <2>4 DEF TypeOK, Rotate, Fits
  <2>6. Located'
    BY <1>3 DEF Located
  <2>7. BoundToActive'
    BY <1>3, <2>1, <2>2, <2>3, <2>4 DEF BoundToActive
  <2>8. Holding'
    <3> SUFFICES ASSUME NEW d \in Callers, Calling(d)'
                 PROVE  HoldsItsKey(d)'
      BY DEF Holding
    <3>1. CASE d = c
      BY <1>3, <2>1, <2>2, <2>3, <2>4, <3>1 DEF HoldsItsKey, Fits, AtHome, TypeOK, Client
    <3>2. CASE d # c
      BY <1>3, <1>6, <2>1, <3>2 DEF Holding, HoldsItsKey, AtHome, TypeOK, Rotate, Calling
    <3> QED
      BY <3>1, <3>2
  <2>9. Rested'
    BY <1>1, <1>6 DEF Rested, Rotate, TypeOK
  <2> QED
    BY <2>5, <2>6, <2>7, <2>8, <2>9
<1>7. CASE GoOn(c, p, overflow)
  <2>1. attempt[c] <= MaxRetries /\ attempt[c] \in Nat
    BY <1>7 DEF GoOn, Last, TypeOK
  <2>2. TypeOK'
    BY <1>1, <1>3, <1>7, <2>1 DEF GoOn, TypeOK
  <2>3. Rested'
    BY <1>1, <1>7, <2>1 DEF GoOn, Rested, TypeOK
  <2>4. \A d \in Callers : Calling(d)' => Calling(d)
    BY <1>1, <1>7 DEF GoOn, Calling, TypeOK
  <2> QED
    BY <1>3, <1>7, <2>2, <2>3, <2>4, QuietInd DEF GoOn
<1> QED
  BY <1>2, <1>5, <1>6, <1>7

LEMMA NextInd == IndInv /\ [Next]_vars => IndInv'
<1> SUFFICES ASSUME IndInv, [Next]_vars PROVE IndInv'
  OBVIOUS
<1> USE ResilienceAssumption DEF IndInv
<1>1. ASSUME NEW c \in Callers, SwitchModel(c) PROVE IndInv'
  <2>1. TypeOK'
    BY <1>1 DEF TypeOK, SwitchModel, manager, call
  <2> QED
    BY <1>1, <2>1, QuietInd DEF SwitchModel, manager, call, Calling, Rested
<1>2. ASSUME NEW c \in Callers, Output(c) PROVE IndInv'
  <2>1. TypeOK' /\ Rested'
    BY <1>2 DEF TypeOK, Rested, Output, manager
  <2>2. \A d \in Callers : Calling(d)' => Calling(d)
    BY <1>2 DEF TypeOK, Calling, Output
  <2> QED
    BY <1>2, <2>1, <2>2, QuietInd DEF Output, manager
<1>3. ASSUME NEW c \in Callers, Return(c) \/ FailPartly(c) PROVE IndInv'
  <2>1. Leaves(c) /\ UNCHANGED <<host, manager>>
    BY <1>3 DEF Return, FailPartly
  <2> QED
    BY <2>1, LeavesInd DEF manager, TypeOK
<1>4. ASSUME NEW c \in Callers, Retry(c) PROVE IndInv'
  <2>1. attempt[c] <= MaxRetries /\ attempt[c] \in Nat
    BY <1>4 DEF Retry, Rested, TypeOK
  <2>2. TypeOK' /\ Rested'
    BY <1>4, <2>1 DEF TypeOK, Rested, Retry, manager
  <2>3. \A d \in Callers : Calling(d)' => Calling(d)
    BY <1>4 DEF TypeOK, Calling, Retry
  <2> QED
    BY <1>4, <2>2, <2>3, QuietInd DEF Retry, manager
<1>5. ASSUME NEW p \in Profiles, Expire(p) PROVE IndInv'
  <2>1. TypeOK' /\ Rested'
    BY <1>5 DEF TypeOK, Rested, Expire, call
  <2> QED
    BY <1>5, <2>1 DEF Expire, call, Located, BoundToActive, Holding, HoldsItsKey, Calling, AtHome
<1>6. ASSUME UNCHANGED vars PROVE IndInv'
  BY <1>6 DEF vars, manager, call, TypeOK, Located, BoundToActive, Holding, HoldsItsKey,
     Calling, AtHome, Rested
<1> QED
  BY <1>1, <1>2, <1>3, <1>4, <1>5, <1>6, StartInd, FailInd DEF Next, Ends

-----------------------------------------------------------------------------
(* The results.                                                            *)

LEMMA SpecInd == Spec => []IndInv
  BY InitInd, NextInd, PTL DEF Spec

\* The type invariant holds for any number of agents, profiles and retries.
THEOREM TypeCorrect == Spec => []TypeOK
<1>1. IndInv => TypeOK
  BY DEF IndInv
<1> QED
  BY <1>1, SpecInd, PTL

\* A key is never sent to another provider than its own (_active_llm,
\* get_failover_profile), whatever rotations, model switches and first uses of
\* legacy profiles the agents interleave.
THEOREM KeysStayHomeHolds == Spec => []KeysStayHome
<1>1. IndInv => KeysStayHome
  <2> SUFFICES ASSUME IndInv PROVE KeysStayHome
    OBVIOUS
  <2>1. ASSUME bound # None PROVE AtHome(bound)
    BY <2>1 DEF IndInv, BoundToActive, AtHome, Client
  <2> QED
    BY <2>1 DEF IndInv, Holding, HoldsItsKey, KeysStayHome
<1> QED
  BY <1>1, SpecInd, PTL

\* A profile starts to cool only for a failed request that carried its key,
\* however the calls of other agents moved the active profile meanwhile.
THEOREM BlameHolds == Spec => BlamesTheKeySent
<1> DEFINE Just ==
      \A p \in cooling' \ cooling :
        \E c \in Callers :
          /\ at[c] = "request" /\ client[c].key = p
          /\ <<at'[c], attempt'[c]>> # <<at[c], attempt[c]>>
<1>1. IndInv /\ [Next]_vars => [Just]_vars
  <2> SUFFICES ASSUME IndInv, Next PROVE Just
    OBVIOUS
  <2>1. ASSUME NEW c \in Callers, Fail(c) PROVE Just
    <3>1. at[c] = "request" /\ HoldsItsKey(c)
      BY <2>1 DEF Fail, IndInv, Holding, Calling
    <3>2. cooling' \ cooling \subseteq {profile[c]} \ {None}
      BY <2>1 DEF Fail, Blame
    <3>3. at'[c] # at[c] \/ attempt'[c] # attempt[c]
      <4>1. attempt \in [Callers -> 1..MaxRetries + 1] /\ at[c] = "request"
        BY <3>1 DEF IndInv, TypeOK
      <4>2. at \in [Callers -> {"idle", "request", "streaming", "backoff"}]
        BY DEF IndInv, TypeOK
      <4>3. attempt[c] + 1 # attempt[c]
        BY <4>1, ResilienceAssumption
      <4> QED
        BY <2>1, <4>1, <4>2, <4>3 DEF Fail, GiveUp, Rotate, GoOn, Leaves, Counted
    <3> QED
      BY <3>1, <3>2, <3>3 DEF HoldsItsKey
  <2>2. ASSUME NEW c \in Callers,
               StartCall(c) \/ SwitchModel(c) \/ Output(c) \/ Return(c) \/ FailPartly(c) \/ Retry(c)
        PROVE  cooling' = cooling
    BY <2>2 DEF StartCall, BeginActive, BeginHost, BeginElsewhere, Begin, SwitchModel, Output,
       Return, FailPartly, Retry, manager
  <2>3. ASSUME NEW p \in Profiles, Expire(p) PROVE cooling' \subseteq cooling
    BY <2>3 DEF Expire
  <2> QED
    BY <2>1, <2>2, <2>3 DEF Next, Ends
<1> QED
  BY <1>1, SpecInd, PTL DEF Spec, BlamesTheKeySent

\* A call turns to a profile that cools only if no other profile of its
\* provider is available, at its start as at a rotation.
THEOREM ChoosesAvailableHolds == Spec => ChoosesAvailable
<1> DEFINE Choice(c) ==
      Turns(c) /\ profile'[c] \in cooling' =>
        \A p \in Profiles \ cooling' : provider'[p] # client'[c].provider
<1> USE ResilienceAssumption
<1>1. ASSUME IndInv, NEW c \in Callers, StartCall(c), profile'[c] \in cooling'
      PROVE  \A p \in Profiles \ cooling' : provider'[p] # client'[c].provider
  <2>1. TypeOK /\ cooling' = cooling /\ profile'[c] \in cooling /\ cooling \subseteq Profiles
    BY <1>1 DEF IndInv, TypeOK, StartCall, BeginActive, BeginHost, BeginElsewhere, Begin
  <2>2. \A q, k : q \in Profiles /\ q \notin cooling => ~ Begin(c, k, q)
    BY <2>1 DEF Begin, TypeOK
  <2>3. \A p : ~ BeginElsewhere(c, p)
    BY <2>2, PeerIs DEF BeginElsewhere
  <2>4. ~ BeginActive(c)
    <3>1. ASSUME Reusable(c), Begin(c, bound, None) PROVE FALSE
      <4>1. active \notin cooling /\ bound.key = active
        BY <3>1 DEF Reusable, ActiveClient
      <4>2. profile'[c] \in {None, active}
        BY <2>1, <3>1, <4>1 DEF Begin, FindProfile, TypeOK
      <4> QED
        BY <2>1, <4>1, <4>2
    <3> QED
      BY <2>1, <2>2, <2>3, <3>1 DEF BeginActive, ActiveMatches, TypeOK
  <2> DEFINE p == FindProfile(host[c])
  <2>5. BeginHost(c)
    BY <1>1, <2>4 DEF StartCall
  <2>6. p \in Profiles \cup {None} /\ host[c].provider \in Providers
    BY <2>1, HostFits DEF FindProfile
  <2>7. p # None
    <3> SUFFICES ASSUME p = None PROVE FALSE
      OBVIOUS
    <3>1. Begin(c, host[c], None)
      BY <2>1, <2>5 DEF BeginHost
    <3> QED
      BY <2>1, <3>1 DEF Begin, TypeOK
  <2>8. p \in cooling /\ Peers(p, host[c].provider) = {} /\ Begin(c, host[c], None)
    BY <2>2, <2>3, <2>5, <2>6, <2>7 DEF BeginHost
  <2>9. provider' = [provider EXCEPT ![p] = host[c].provider] /\ client'[c] = host[c]
    BY <2>1, <2>5, <2>7, <2>8 DEF BeginHost, Begin, TypeOK
  <2> QED
    BY <2>1, <2>8, <2>9 DEF Peers, TypeOK
<1>2. ASSUME IndInv, NEW c \in Callers, Next, Turns(c), ~ StartCall(c)
      PROVE  profile'[c] \notin cooling'
  <2>1. TypeOK
    BY <1>2 DEF IndInv
  <2>2. ASSUME NEW d \in Callers, d # c,
               StartCall(d) \/ SwitchModel(d) \/ Output(d) \/ Return(d) \/ Ends(d)
        PROVE  FALSE
    BY <1>2, <2>1, <2>2 DEF Turns, Calling, TypeOK, StartCall, BeginActive, BeginHost,
       BeginElsewhere, Begin, SwitchModel, Output, Return, Ends, Fail, GiveUp, Rotate, GoOn,
       FailPartly, Retry, Leaves, call
  <2>3. ASSUME NEW p \in Profiles, Expire(p) PROVE FALSE
    BY <1>2, <2>3 DEF Turns, Calling, Expire, call
  <2>4. ~ (SwitchModel(c) \/ Output(c) \/ Return(c) \/ FailPartly(c) \/ Retry(c))
    BY <1>2, <2>1 DEF Turns, Calling, TypeOK, SwitchModel, Output, Return, FailPartly, Retry,
       Leaves, call
  <2>5. Fail(c)
    BY <1>2, <2>2, <2>3, <2>4 DEF Next, Ends
  <2>6. PICK p \in {None, profile[c]}, overflow \in BOOLEAN :
          Blame(p) /\ (GiveUp(c, p) \/ Rotate(c, p) \/ GoOn(c, p, overflow))
    BY <2>5 DEF Fail
  <2>7. ~ GiveUp(c, p) /\ ~ GoOn(c, p, overflow)
    BY <1>2, <2>1, <2>5 DEF Turns, Calling, TypeOK, GiveUp, GoOn, Leaves, Fail
  <2>8. PICK q \in Failover(p, provider[p]) : profile' = [profile EXCEPT ![c] = q]
    BY <2>6, <2>7 DEF Rotate
  <2> QED
    BY <2>1, <2>6, <2>8, PeerIs DEF Blame, TypeOK
<1>3. IndInv /\ [Next]_vars => [\A c \in Callers : Choice(c)]_vars
  BY <1>1, <1>2
<1> QED
  BY <1>3, SpecInd, PTL DEF Spec, ChoosesAvailable
=============================================================================
