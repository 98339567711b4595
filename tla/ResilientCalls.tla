----------------------------- MODULE ResilientCalls -----------------------------
(***************************************************************************)
(* Provider calls with retries (resilience/retry.py) of one or more agents *)
(* that share the credentials of a profile manager (resilience/profile.py).*)
(*                                                                         *)
(* A profile stands for its API key too.  A client of a provider is bound  *)
(* to a key; the host gives a call its own client, and the manager may     *)
(* have it replaced.  Every client is an LLM of pig_llm, which can be bound*)
(* to another key (with_profile): a rotation is never declined.  Which     *)
(* model is asked for, and how short the messages are made, is left out.   *)
(* A step ends where the code awaits; a blocking call is the special case  *)
(* without steps of others in between.                                     *)
(***************************************************************************)
EXTENDS Naturals, FiniteSets

CONSTANTS
    Callers,       \* agents that share the manager
    NumProfiles,   \* number of profiles, in the order of the manager's list
    Providers,
    Home,          \* the provider that issued a profile's key
    Legacy,        \* the profiles that were configured without a provider
    HostKeys,      \* the profiles whose keys the host uses itself
    MaxRetries,
    None

Profiles == 1..NumProfiles

ASSUME ResilienceAssumption ==
    /\ NumProfiles \in Nat /\ MaxRetries \in Nat
    /\ Home \in [Profiles -> Providers]
    /\ HostKeys \subseteq Profiles
    /\ None \notin Profiles /\ None \notin Providers

VARIABLES
    host,       \* the client of an agent
    provider,   \* the provider of a profile, None if it is not known
    cooling,    \* profiles whose cooldown is not over
    active,     \* the manager's active profile
    bound,      \* the manager's client for it
    at,         \* where an agent's call is
    attempt,    \* its present attempt
    client,     \* the client it uses, None between calls
    profile     \* the profile it holds that to be

manager == <<provider, cooling, active, bound>>
call    == <<at, attempt, client, profile>>
vars    == <<host, manager, call>>

Client(k, v) == [key |-> k, provider |-> v]
Clients      == [key : Profiles \cup {None}, provider : Providers]

\* A key that is no profile's is None; the others are used where they belong.
HostClients ==
    {k \in Clients : k.key # None => k.key \in HostKeys /\ Home[k.key] = k.provider}

Init ==
    /\ host \in [Callers -> HostClients]
    /\ provider = [p \in Profiles |-> IF p \in Legacy THEN None ELSE Home[p]]
    /\ cooling = {} /\ active = None /\ bound = None
    /\ at = [c \in Callers |-> "idle"]
    /\ attempt = [c \in Callers |-> 1]
    /\ client = [c \in Callers |-> None]
    /\ profile = [c \in Callers |-> None]

-----------------------------------------------------------------------------
(* The profile manager.                                                    *)

\* Seeded faults: the provider is not looked at; a cooling profile is taken.
Anyone(p, v)  == {q \in Profiles \ {p} : q \notin cooling}
Cooling(p, v) == {q \in Profiles \ {p} : provider[q] = v}
Peers(p, v)   == {q \in Profiles \ {p} : q \notin cooling /\ provider[q] = v}

\* get_failover_profile: the next in the list that can stand in for p, which
\* is of provider v.
Distance(p, q) == (q + NumProfiles - p) % NumProfiles
Failover(p, v) ==
    {q \in Peers(p, v) : \A r \in Peers(p, v) : Distance(p, q) <= Distance(p, r)}

FindProfile(k) ==
    IF k.key # None /\ provider[k.key] \in {None, k.provider} THEN k.key ELSE None

\* active_client
ActiveClient == IF active \in cooling THEN None ELSE bound

Expire(p) ==
    /\ p \in cooling
    /\ cooling' = cooling \ {p}
    /\ UNCHANGED <<host, provider, active, bound, call>>

-----------------------------------------------------------------------------
(* The client of a new call (_active_llm).                                 *)

\* A call of c begins with client k, which the manager may remember as the
\* client of p.
Begin(c, k, p) ==
    /\ at' = [at EXCEPT ![c] = "request"]
    /\ attempt' = [attempt EXCEPT ![c] = 1]
    /\ client' = [client EXCEPT ![c] = k]
    /\ profile' = [profile EXCEPT ![c] = IF p # None THEN p ELSE FindProfile(k)]
    /\ IF p = None THEN UNCHANGED <<active, bound>> ELSE active' = p /\ bound' = k
    /\ UNCHANGED <<host, cooling>>

\* Another client than the host's is used if p can be replaced.
BeginElsewhere(c, p) ==
    \E q \in Failover(p, host[c].provider) : Begin(c, Client(q, host[c].provider), q)

ActiveMatches(c) == active # None /\ provider[active] = host[c].provider

Reusable(c) ==
    /\ ActiveClient # None
    /\ ActiveClient.key = active /\ ActiveClient.provider = host[c].provider

\* The active profile serves the call, or one that can stand in for it.
BeginActive(c) ==
    /\ ActiveMatches(c)
    /\ \/ Reusable(c) /\ Begin(c, bound, None)
       \/ /\ ~ Reusable(c) /\ active \notin cooling
          /\ Begin(c, Client(active, host[c].provider), active)
       \/ active \in cooling /\ BeginElsewhere(c, active)
    /\ UNCHANGED provider

ActiveServes(c) ==
    /\ ActiveMatches(c)
    /\ active \in cooling => Peers(active, host[c].provider) # {}

\* Else the host's client does, unless its profile cools and another does not.
BeginHost(c) ==
    LET p == FindProfile(host[c])
    IN  /\ ~ ActiveServes(c)
        /\ \/ p = None /\ Begin(c, host[c], None)
           \/ p # None /\ p \notin cooling /\ Begin(c, host[c], p)
           \/ p \in cooling /\ BeginElsewhere(c, p)
           \/ /\ p \in cooling /\ Peers(p, host[c].provider) = {}
              /\ Begin(c, host[c], None)
        /\ provider' = IF p = None THEN provider
                       ELSE [provider EXCEPT ![p] = host[c].provider]

StartCall(c) == at[c] = "idle" /\ (BeginActive(c) \/ BeginHost(c))

\* Between turns the user picks another model, perhaps of another provider.
SwitchModel(c) ==
    /\ at[c] = "idle"
    /\ host' \in {[host EXCEPT ![c] = k] : k \in HostClients}
    /\ host' # host
    /\ UNCHANGED <<manager, call>>

-----------------------------------------------------------------------------
(* A call under way.                                                       *)

Leaves(c) ==
    /\ at' = [at EXCEPT ![c] = "idle"]
    /\ attempt' = [attempt EXCEPT ![c] = 1]
    /\ client' = [client EXCEPT ![c] = None]
    /\ profile' = [profile EXCEPT ![c] = None]

\* A stream gives output, which the caller shows.
Output(c) ==
    /\ at[c] = "request"
    /\ at' = [at EXCEPT ![c] = "streaming"]
    /\ UNCHANGED <<host, manager, attempt, client, profile>>

\* The call succeeds, its task is cancelled, or the record of its attempt
\* cannot be written.
Return(c) ==
    /\ at[c] # "idle"
    /\ Leaves(c)
    /\ UNCHANGED <<host, manager>>

\* Seeded fault: attempts are counted from 0.
OnePast(c) == attempt[c] = MaxRetries + 2
Last(c)    == attempt[c] = MaxRetries + 1

\* Seeded fault: another profile has attempts of its own.
Again(n)   == n
Counted(n) == n + 1

\* A failed attempt blames its profile for a rate limit, a refused key or a
\* broken connection.
Blame(p) ==
    /\ cooling' = cooling \cup ({p} \ {None})
    /\ UNCHANGED provider

\* Seeded fault: the request goes on with the client that failed.
Unrotated(c, q) == client[c]
Rotated(c, q)   == Client(q, client[c].provider)

\* The last attempt moves the manager to no other profile.
GiveUp(c, p) ==
    /\ Last(c)
    /\ Leaves(c)
    /\ UNCHANGED active
    /\ bound' = IF p # None /\ p = active THEN None ELSE bound

Rotate(c, p) ==
    /\ ~ Last(c) /\ p # None
    /\ \E q \in Failover(p, provider[p]) :
         /\ active' = q
         /\ bound' = Rotated(c, q)
         /\ client' = [client EXCEPT ![c] = Rotated(c, q)]
         /\ profile' = [profile EXCEPT ![c] = q]
    /\ attempt' = [attempt EXCEPT ![c] = Counted(@)]
    /\ UNCHANGED at

\* Without another profile the call goes on with its own: at once after an
\* overflow, with shorter messages or another model if there are any, or when
\* it has slept.
GoOn(c, p, overflow) ==
    /\ ~ Last(c) /\ (p # None => Peers(p, provider[p]) = {})
    /\ \/ /\ overflow
          /\ attempt' = [attempt EXCEPT ![c] = @ + 1]
          /\ UNCHANGED at
       \/ /\ at' = [at EXCEPT ![c] = "backoff"]
          /\ UNCHANGED attempt
    /\ bound' = IF p # None /\ p = active THEN None ELSE bound
    /\ UNCHANGED <<active, client, profile>>

\* An attempt fails before it gave output.  What the error says decides whether
\* the profile is blamed, and whether the context overflowed.
Fail(c) ==
    /\ at[c] = "request"
    /\ \E p \in {None, profile[c]}, overflow \in BOOLEAN :
         /\ Blame(p)
         /\ GiveUp(c, p) \/ Rotate(c, p) \/ GoOn(c, p, overflow)
    /\ UNCHANGED host

\* After output nothing is tried again, and nobody is blamed.
FailPartly(c) ==
    /\ at[c] = "streaming"
    /\ Leaves(c)
    /\ UNCHANGED <<host, manager>>

Retry(c) ==
    /\ at[c] = "backoff"
    /\ at' = [at EXCEPT ![c] = "request"]
    /\ attempt' = [attempt EXCEPT ![c] = @ + 1]
    /\ UNCHANGED <<host, manager, client, profile>>

-----------------------------------------------------------------------------
Ends(c) == Fail(c) \/ FailPartly(c) \/ Retry(c)

Next ==
    \/ \E c \in Callers :
         StartCall(c) \/ SwitchModel(c) \/ Output(c) \/ Return(c) \/ Ends(c)
    \/ \E p \in Profiles : Expire(p)

Spec == Init /\ [][Next]_vars

\* Attempts end, if only by a timeout, and sleepers wake up.
FairSpec == Spec /\ \A c \in Callers : WF_vars(Ends(c))

-----------------------------------------------------------------------------
(* Properties.                                                             *)

Calling(c) == at[c] # "idle"

TypeOK ==
    /\ host \in [Callers -> HostClients]
    /\ provider \in [Profiles -> Providers \cup {None}]
    /\ cooling \subseteq Profiles
    /\ active \in Profiles \cup {None}
    /\ bound \in Clients \cup {None}
    /\ at \in [Callers -> {"idle", "request", "streaming", "backoff"}]
    /\ attempt \in [Callers -> 1..MaxRetries + 1]
    /\ client \in [Callers -> Clients \cup {None}]
    /\ profile \in [Callers -> Profiles \cup {None}]

\* A key is sent to the provider that issued it and to no other, whoever
\* shares the manager, whatever fails, whichever model the user turns to, and
\* also if the profile was configured without a provider (retry.py 52, 111;
\* test_mixed_legacy_profiles_never_rotate_across_an_explicit_provider).
AtHome(k) == k.key # None => Home[k.key] = k.provider
KeysStayHome ==
    /\ \A c \in Callers : Calling(c) => AtHome(client[c])
    /\ bound # None => AtHome(bound)

\* A profile is blamed only by the call whose request carried its key, and when
\* that request has failed (retry.py 449), though the calls of other agents
\* rotate, and move the active profile, at the same time.
BlamesTheKeySent ==
    [][\A p \in cooling' \ cooling :
         \E c \in Callers :
             /\ at[c] = "request" /\ client[c].key = p
             /\ <<at'[c], attempt'[c]>> # <<at[c], attempt[c]>>]_vars

\* A call turns to a profile that cools only if its provider has no other.
Turns(c) == Calling(c)' /\ (~ Calling(c) \/ client'[c] # client[c])
ChoosesAvailable ==
    [][\A c \in Callers : Turns(c) /\ profile'[c] \in cooling' =>
         \A p \in Profiles \ cooling' : provider'[p] # client'[c].provider]_vars

\* Every call comes to an end.
EveryCallEnds == \A c \in Callers : Calling(c) ~> ~ Calling(c)
=============================================================================
