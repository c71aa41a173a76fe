-------------------------- MODULE MCResolverParts ---------------------------
(***************************************************************************)
(* The parts of the resolver that share no state with one another, one of  *)
(* them at a time: a behaviour is one of the chosen part, and the others   *)
(* stay where they begin.                                                  *)
(***************************************************************************)
EXTENDS TTLCache, IPLimiter, QuerySelector, UDPFrontEnd, UDPWire, EventIterator, DomainPage,
        ResolverNode, Configuration, RecordCommitment, TLC

CONSTANTS n1, n2, k1, k2, k3, ip1, ip2, ip3, d1, d2, d3, a1, a2, f1, f2, upLocal, upSepolia

VARIABLE part

(* The cache: two names, one of them with two keys.                        *)
nameOfKey == k1 :> n1 @@ k2 :> n1 @@ k3 :> n2

(* Selectors: three spellings of one known key, two others, one that is    *)
(* not known, and one that is not allowed.                                 *)
rawKeys == {"port", "PORT", " port", "transport", "service", "x", "x y"}
lowers == [k \in rawKeys |-> IF k = "PORT" THEN "port" ELSE k]
trimKeys == [k \in rawKeys |-> IF k = " port" THEN "port" ELSE k]
ranks == " port" :> 0 @@ "PORT" :> 1 @@ "port" :> 2 @@ "service" :> 3 @@ "transport" :> 4
         @@ "x" :> 5 @@ "x y" :> 6
goodKeys == {"port", "transport", "service", "x"}

(* Ports as written and not, a transport in both cases, and the rest.      *)
rawValues ==
    {"80", "080", " 80", "443", "0", "65536", "tcp", "TCP", "UDP", "QUIC", "HTTP", "SMTP", ""}
trims == [v \in rawValues |-> IF v = " 80" THEN "80" ELSE v]
uppers == [v \in rawValues |-> IF v = "tcp" THEN "TCP" ELSE v]
goodValues == rawValues \ {" 80", ""}
numbers ==
    [v \in rawValues |-> CASE v \in {"80", "080"} -> 80
                           [] v = "443" -> 443
                           [] v = "0" -> 0
                           [] v = "65536" -> 65536
                           [] OTHER -> NaN]
decimals == 80 :> "80" @@ 443 :> "443" @@ 0 :> "0"

(* Deployments: the artifact of the local network lacks the contract that  *)
(* was added last; the ones with "../" are others' of the same network.    *)
withOrWithoutUp ==
    local :> upLocal @@ upLocal :> local @@ sepolia :> upSepolia @@ upSepolia :> sepolia
deployed ==
    [p \in {local, upLocal, sepolia, upSepolia} |->
        [c \in Contracts |->
            IF p = local /\ c = "ResolverIncentives" THEN Empty ELSE <<p, c>>]]

(* Environments: what is told of the contracts and where the artifact is,  *)
(* the network, the showcase, and a port out of range.                     *)
environment(e) ==
    [v \in variables |-> IF v \in DOMAIN e THEN e[v] ELSE Unset]
environments ==
    {environment([CONTRACT_ADDRESS |-> a, REGISTRY_ADDRESS |-> b, DDNS_DEPLOYMENTS |-> d,
                  RPC_URL |-> n]) :
       a \in {Unset, Empty, a1}, b \in {Unset, a2}, d \in {Unset, local, upSepolia},
       n \in {"local", "sepolia"}}
    \cup {environment([DEPLOYMENTS |-> d, ENABLE_SHOWCASE |-> s, REST_PORT |-> q]) :
            d \in {sepolia, upLocal}, s \in {Unset, "true"}, q \in {Unset, 0, 8081, 65536}}
assignments ==
    {<<"CONTRACT_ADDRESS", a2>>, <<"CONTRACT_ADDRESS", Empty>>, <<"DDNS_DEPLOYMENTS", upLocal>>,
     <<"RPC_URL", "sepolia">>}

-----------------------------------------------------------------------------
cachePart == <<clock, cacheVars>>
pagePart == <<chainVars, page>>

(* A decoder that is not chosen has refused a packet.                      *)
WireDone ==
    /\ header = "packet too short" /\ packet = << >>
    /\ i = 0 /\ fields = << >> /\ result = header

(* Messages that are not chosen are too large to be committed to.          *)
TooLarge == messages = [m \in 1..2 |-> [n \in 1..(MaxPayload + 1) |-> 0]]

PartsInit ==
    /\ part \in {"cache", "limiter", "selectors", "udp", "wire", "iterator", "page", "node",
                 "config", "commitment"}
    /\ CacheStart /\ LimiterInit /\ UDPInit
    /\ PageInit /\ NodeInit
    /\ IF part = "commitment" THEN CommitInit ELSE TooLarge
    /\ IF part = "selectors" THEN SelectorInit ELSE raw = <<Bare>>
    /\ IF part = "wire" THEN WireInit ELSE WireDone
    /\ IF part = "iterator" THEN IterInit ELSE IterDone
    /\ IF part = "config" THEN ConfInit ELSE ConfDone

oldParts == <<cachePart, limiterVars, raw, udpVars, wireVars>>
newParts == <<iterVars, pagePart, nodeVars, confVars, messages>>

PartsNext ==
    /\ UNCHANGED part
    /\ \/ /\ UNCHANGED newParts
          /\ \/ part = "cache" /\ CacheNext /\ UNCHANGED <<limiterVars, raw, udpVars, wireVars>>
             \/ part = "limiter" /\ LimiterNext /\ UNCHANGED <<cachePart, raw, udpVars, wireVars>>
             \/ /\ part = "selectors" /\ SelectorNext
                /\ UNCHANGED <<cachePart, limiterVars, udpVars, wireVars>>
             \/ part = "udp" /\ UDPNext /\ UNCHANGED <<cachePart, limiterVars, raw, wireVars>>
             \/ part = "wire" /\ WireNext /\ UNCHANGED <<cachePart, limiterVars, raw, udpVars>>
       \/ /\ UNCHANGED oldParts
          /\ \/ part = "iterator" /\ IterNext /\ UNCHANGED <<pagePart, nodeVars, confVars, messages>>
             \/ part = "page" /\ PageNext /\ UNCHANGED <<iterVars, nodeVars, confVars, messages>>
             \/ part = "node" /\ NodeNext /\ UNCHANGED <<iterVars, pagePart, confVars, messages>>
             \/ part = "config" /\ ConfNext /\ UNCHANGED <<iterVars, pagePart, nodeVars, messages>>
             \/ /\ part = "commitment" /\ CommitNext
                /\ UNCHANGED <<iterVars, pagePart, nodeVars, confVars>>

partsVars == <<part, oldParts, newParts>>

PartsSpec == PartsInit /\ [][PartsNext]_partsVars /\ UDPFairness
=============================================================================
