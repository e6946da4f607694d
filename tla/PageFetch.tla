------------------------------- MODULE PageFetch -------------------------------
(* src/policy/url-policy.ts and src/fetcher/http-client.ts: a page is fetched      *)
(* without a browser.  Every hop is checked against the allowed hosts and against   *)
(* all addresses its name has at that moment, and the connection goes to one of the *)
(* addresses that were checked, whatever the name resolves to by then.              *)
EXTENDS AddressClasses

CONSTANTS
    Policies,       \* [http, private, synthetic]: what the configuration allows, with what is
                    \* fetched, the redirects followed, and how often names and the time change
    Pages, Probes,  \* the urls that are asked for: of sites, and of single addresses
    AllowedHosts,   \* patterns [wild, labels]
    Names,          \* the host names there are, as sequences of labels
    Reserved,       \* names that stand for the machine itself: name -> reason
    DnsAnswers,     \* what a name may resolve to: sequences of addresses
    Start,          \* the first answer of every name
    TTL, CacheLimit, MaxFetches,
    MaxBody

VARIABLES
    policy, dns, rebinds, now,
    cache,      \* safeDnsCache, oldest entry first
    fetch,      \* the fetch under way
    fetches,
    connected   \* history: the address this fetch is connected to

fetchVars == <<policy, dns, rebinds, now, cache, fetch, fetches, connected>>

-----------------------------------------------------------------------------
isPrivateException(a) ==
    IF policy.synthetic /\ isSyntheticTunnelAddress(a) THEN classifyAddress(a) = "reserved"
    ELSE policy.private /\ classifyAddress(a) # "metadata"

Approved(a) == classifyAddress(a) = "public" \/ isPrivateException(a)

\* A wildcard stands for exactly one more label.
matchesHost(labels) ==
    \E p \in AllowedHosts :
        IF p.wild THEN Len(labels) = Len(p.labels) + 1 /\ Tail(labels) = p.labels
        ELSE labels = p.labels

HostReserved(labels) ==
    labels \in DOMAIN Reserved /\ (Reserved[labels] = "metadata" \/ ~policy.private)

-----------------------------------------------------------------------------
\* A url is a scheme and a host, either a name or an address, which then is one of
\* the allowed hosts.
Urls == IF policy.of = "sites" THEN Pages ELSE Probes

Named(url) == url.address = <<>>

SchemeAllowed(url) == url.scheme = "https" \/ policy.http

Idle == [at |-> "idle"]

FetchInit ==
    /\ policy \in Policies
    /\ dns = [n \in Names |-> Start] /\ rebinds = 0 /\ now = 0
    /\ cache = <<>> /\ fetch = Idle /\ fetches = 0 /\ connected = <<>>

Begin(url) ==
    /\ fetch = Idle /\ fetches < MaxFetches
    /\ fetches' = fetches + 1
    /\ fetch' = [at |-> "checking", url |-> url, hops |-> 0, pinned |-> <<>>, asked |-> 0,
                 aborted |-> FALSE, body |-> 0]
    /\ UNCHANGED <<policy, dns, rebinds, now, cache, connected>>

Ends == fetch' = Idle /\ connected' = <<>>

\* Everything of resolveAllowed up to the resolver.
Blocked(url) ==
    \/ ~SchemeAllowed(url)
    \/ Named(url) /\ (~matchesHost(url.name) \/ HostReserved(url.name))
    \/ ~Named(url) /\ ~Approved(url.address)

Fresh(name) == {i \in DOMAIN cache : cache[i].name = name /\ cache[i].expires > now}

Refuses ==
    /\ fetch.at = "checking" /\ Blocked(fetch.url)
    /\ fetch' = [fetch EXCEPT !.at = "refused"]
    /\ UNCHANGED <<policy, dns, rebinds, now, cache, fetches, connected>>

PinsLiteral ==
    /\ fetch.at = "checking" /\ ~Blocked(fetch.url) /\ ~Named(fetch.url)
    /\ fetch' = [fetch EXCEPT !.at = "pinned", !.pinned = <<fetch.url.address>>]
    /\ UNCHANGED <<policy, dns, rebinds, now, cache, fetches, connected>>

PinsCached ==
    /\ fetch.at = "checking" /\ ~Blocked(fetch.url) /\ Named(fetch.url)
    /\ \E i \in Fresh(fetch.url.name) :
           fetch' = [fetch EXCEPT !.at = "pinned", !.pinned = cache[i].addresses]
    /\ UNCHANGED <<policy, dns, rebinds, now, cache, fetches, connected>>

Resolves ==
    /\ fetch.at = "checking" /\ ~Blocked(fetch.url) /\ Named(fetch.url)
    /\ Fresh(fetch.url.name) = {}
    /\ fetch' = [fetch EXCEPT !.at = "resolving", !.asked = now]
    /\ UNCHANGED <<policy, dns, rebinds, now, cache, fetches, connected>>

\* One protected or missing address refuses the name.
AllApproved(answer) == answer # <<>> /\ \A i \in DOMAIN answer : Approved(answer[i])

\* The oldest entry makes room for a new one; the entry of a known name keeps its
\* place, unless it was the one to go.
Remember(name, addresses, expires) ==
    LET kept == IF Len(cache) >= CacheLimit THEN Tail(cache) ELSE cache
        entry == [name |-> name, addresses |-> addresses, expires |-> expires]
    IN  IF \E i \in DOMAIN kept : kept[i].name = name
        THEN [i \in DOMAIN kept |-> IF kept[i].name = name THEN entry ELSE kept[i]]
        ELSE Append(kept, entry)

Resolved ==
    /\ fetch.at = "resolving" /\ AllApproved(dns[fetch.url.name])
    /\ fetch' = [fetch EXCEPT !.at = "pinned", !.pinned = dns[fetch.url.name]]
    /\ cache' = Remember(fetch.url.name, dns[fetch.url.name], fetch.asked + TTL)
    /\ UNCHANGED <<policy, dns, rebinds, now, fetches, connected>>

\* A protected answer, none, or no resolver.
ResolveFails ==
    /\ fetch.at = "resolving"
    /\ fetch' = [fetch EXCEPT !.at = "refused"]
    /\ UNCHANGED <<policy, dns, rebinds, now, cache, fetches, connected>>

Mutant_Lookup_ResolvesAgain == IF Named(fetch.url) /\ dns[fetch.url.name] # <<>>
                               THEN dns[fetch.url.name][1] ELSE fetch.pinned[1]

\* The socket's lookup hook answers with the first approved address.
Lookup == fetch.pinned[1]

\* requestPinned: an aborted signal stops the request before it connects.
Connects ==
    /\ fetch.at = "pinned" /\ ~fetch.aborted
    /\ connected' = Lookup
    /\ fetch' = [fetch EXCEPT !.at = "waiting"]
    /\ UNCHANGED <<policy, dns, rebinds, now, cache, fetches>>

\* The answer's header: another location, followed while there are redirects left.
Redirected(url) ==
    /\ fetch.at = "waiting" /\ fetch.hops < policy.redirects
    /\ fetch' = [fetch EXCEPT !.at = "checking", !.url = url, !.hops = @ + 1, !.pinned = <<>>]
    /\ UNCHANGED <<policy, dns, rebinds, now, cache, fetches, connected>>

Reads ==
    /\ fetch.at = "waiting"
    /\ fetch' = [fetch EXCEPT !.at = "reading"]
    /\ UNCHANGED <<policy, dns, rebinds, now, cache, fetches, connected>>

Chunk ==
    /\ fetch.at = "reading" /\ ~fetch.aborted /\ fetch.body < MaxBody
    /\ fetch' = [fetch EXCEPT !.body = @ + 1]
    /\ UNCHANGED <<policy, dns, rebinds, now, cache, fetches, connected>>

\* The page is complete, or too long, the connection broke, there was one redirect
\* too many, or the policy had refused a hop; the timer is cleared either way.
Returns ==
    /\ \/ fetch.at \in {"waiting", "reading", "refused"}
       \/ fetch.at = "pinned" /\ fetch.aborted
    /\ Ends
    /\ UNCHANGED <<policy, dns, rebinds, now, cache, fetches>>

-----------------------------------------------------------------------------
\* The timeout or the caller aborts: a request or a body ends with it, a name that is
\* being resolved is waited for.
Abort ==
    /\ fetch # Idle /\ ~fetch.aborted
    /\ IF fetch.at \in {"waiting", "reading"} THEN Ends
       ELSE fetch' = [fetch EXCEPT !.aborted = TRUE] /\ UNCHANGED connected
    /\ UNCHANGED <<policy, dns, rebinds, now, cache, fetches>>

Rebind(name, answer) ==
    /\ rebinds < policy.rebinds /\ dns[name] # answer
    /\ dns' = [dns EXCEPT ![name] = answer]
    /\ rebinds' = rebinds + 1
    /\ UNCHANGED <<policy, now, cache, fetch, fetches, connected>>

FetchTick ==
    /\ now < policy.ticks
    /\ now' = now + 1
    /\ UNCHANGED <<policy, dns, rebinds, cache, fetch, fetches, connected>>

FetchProgress ==
    \/ Refuses \/ PinsLiteral \/ PinsCached \/ Resolves \/ Resolved \/ ResolveFails
    \/ Connects \/ Reads \/ Chunk \/ Returns
    \/ fetch # Idle /\ \E url \in Urls : Redirected(url)

FetchNext ==
    \/ FetchProgress \/ Abort \/ FetchTick
    \/ \E url \in Urls : Begin(url)
    \/ \E name \in Names, answer \in DnsAnswers : Rebind(name, answer)

-----------------------------------------------------------------------------
\* Whether the configuration allows a connection to an address.
Lawful(a) ==
    \/ Protections(a) = {}
    \/ policy.private /\ "metadata" \notin Protections(a)
    \/ policy.synthetic /\ Len(a) = 4 /\ Protections(a) = {"synthetic"}

\* No connection goes to a protected network, whatever names resolve to between the
\* check and the connection, and however many redirects lead there; the cloud's
\* metadata stay out of reach under every configuration; and an address is refused
\* only for a reason: the prefix tests agree with the ranges at every edge.
FetchStaysOut ==
    /\ connected # <<>> => Lawful(connected)
    /\ fetch.at = "refused" /\ ~Named(fetch.url) /\ SchemeAllowed(fetch.url) => ~Lawful(fetch.url.address)
    /\ Len(cache) <= CacheLimit
=============================================================================
