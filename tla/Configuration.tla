---------------------------- MODULE Configuration ----------------------------
(***************************************************************************)
(* Where the programs take the contracts' addresses from: the resolver     *)
(* (resolver/internal/config) from the environment, a .env file and a      *)
(* deploy artifact, and the commands (ddns, ddns-lookup) from a flag, the  *)
(* artifact and the environment, in that order.                            *)
(***************************************************************************)
EXTENDS Integers, Sequences

CONSTANTS
    Unset, Empty,   \* a variable that is not set, and the empty string
    Refused,        \* stands for an error
    Paths,          \* where artifacts may be
    local, sepolia, \* contracts/deployments/localhost.json and sepolia.json
    upDown,         \* path -> the same one with "../" put before it or taken off
    contents,       \* path -> contract -> its address in the artifact, or Empty
    Environments,   \* environments that the programs may be started in
    Lines,          \* the assignments of .env files: <<variable, value>>
    MaxLines        \* bound of the model

Contracts == {"NamespaceDApp", "RecordSchemaRegistry", "ResolverRegistry", "ResolverIncentives"}

variable ==
    [NamespaceDApp        |-> "CONTRACT_ADDRESS",
     RecordSchemaRegistry |-> "REGISTRY_ADDRESS",
     ResolverRegistry     |-> "RESOLVER_REGISTRY_ADDRESS",
     ResolverIncentives   |-> "RESOLVER_INCENTIVES_ADDRESS"]

(* The numbers: their ranges and defaults.                                 *)
anyPositive == Nat \ {0}

limits ==
    [REST_PORT |-> 1..65535, UDP_PORT |-> 1..65535, BT_LISTEN_PORT |-> 0..65535,
     CACHE_SIZE |-> anyPositive, RATE_RPS |-> anyPositive, RATE_BURST |-> anyPositive]

(* The variables of the environment that the programs look at.            *)
variables ==
    {variable[c] : c \in Contracts} \cup DOMAIN limits
    \cup {"DEPLOYMENTS", "DDNS_DEPLOYMENTS", "RPC_URL", "DDNS_NETWORK", "ENABLE_SHOWCASE"}

(* A line of a .env file sets its variable, if only to nothing.            *)
ASSUME ConfAssumption ==
    /\ Unset # Empty /\ Empty # "sepolia" /\ Unset # "sepolia"
    /\ Empty \notin Paths /\ {local, sepolia} \subseteq Paths /\ upDown \in [Paths -> Paths]
    /\ \A e \in Environments : e = [v \in variables |-> e[v]]
    /\ \A l \in Lines : l[1] \in variables /\ l[2] # Unset
    /\ MaxLines \in Nat

VARIABLES
    given,      \* the environment as the programs are started
    environ,    \* the resolver's, as loadDotEnv leaves it
    dotEnv,     \* the assignments in .env
    line,       \* how many of them have been read
    artifacts,  \* the artifacts that exist
    cfg         \* the configuration: contract -> address, once it is known

confVars == <<given, environ, dotEnv, line, artifacts, cfg>>

unknown == [c \in Contracts |-> Unset]
refused == [c \in Contracts |-> Refused]
noAddresses == [c \in Contracts |-> Empty]

ConfInit ==
    /\ given \in Environments
    /\ environ = given
    /\ dotEnv \in UNION {[1..n -> Lines] : n \in 0..MaxLines}
    /\ line = 0
    /\ artifacts \in SUBSET Paths
    /\ cfg = unknown

(* Nothing is left to read or to build.                                    *)
ConfDone ==
    /\ given = CHOOSE e \in Environments : TRUE
    /\ environ = given /\ dotEnv = << >> /\ line = 0 /\ artifacts = {}
    /\ cfg = refused

-----------------------------------------------------------------------------
(* os.LookupEnv: set, even to nothing, is set.                             *)
unset(v) == environ[v] = Unset

loadDotEnv ==
    LET assignment == dotEnv[line + 1]
    IN  /\ line < Len(dotEnv)
        /\ line' = line + 1
        /\ environ' = IF unset(assignment[1])
                        THEN [environ EXCEPT ![assignment[1]] = assignment[2]]
                        ELSE environ
        /\ UNCHANGED <<given, dotEnv, artifacts, cfg>>

getEnv(v, def) == IF environ[v] \in {Unset, Empty} THEN def ELSE environ[v]

getEnvBool(v) == environ[v] \in {"1", "true", "yes", "on"}

inRange(v) == environ[v] \in {Unset, Empty} \/ environ[v] \in limits[v]

forSepolia == environ["RPC_URL"] = "sepolia" \/ environ["DDNS_NETWORK"] = "sepolia"

candidates ==
    IF forSepolia THEN <<sepolia, upDown[sepolia], local, upDown[local]>>
                  ELSE <<local, upDown[local], sepolia, upDown[sepolia]>>

least(S) == CHOOSE n \in S : \A m \in S : n <= m

firstExisting ==
    LET there == {n \in DOMAIN candidates : candidates[n] \in artifacts}
    IN  IF there = {} THEN Empty ELSE candidates[least(there)]

loadDeployments(path) ==
    CASE path = Empty -> noAddresses
      [] path # Empty /\ path \in artifacts -> contents[path]
      [] path # Empty /\ path \notin artifacts /\ upDown[path] \in artifacts -> contents[upDown[path]]
      [] OTHER -> noAddresses

(* The artifact is read if an address is missing, or for the showcase.     *)
FromEnv ==
    LET named    == getEnv("DEPLOYMENTS", getEnv("DDNS_DEPLOYMENTS", Empty))
        own(c)   == getEnv(variable[c], Empty)
        needed   == \/ own("NamespaceDApp") = Empty \/ own("RecordSchemaRegistry") = Empty
                    \/ getEnvBool("ENABLE_SHOWCASE")
        deployed == IF needed THEN loadDeployments(IF named = Empty THEN firstExisting ELSE named)
                              ELSE noAddresses
    IN  /\ cfg = unknown /\ line = Len(dotEnv)
        /\ cfg' = IF \A v \in DOMAIN limits : inRange(v)
                    THEN [c \in Contracts |->
                            IF c \in {"NamespaceDApp", "RecordSchemaRegistry"} /\ own(c) # Empty
                              THEN own(c) ELSE deployed[c]]
                    ELSE refused
        /\ UNCHANGED <<given, environ, dotEnv, line, artifacts>>

ConfNext == loadDotEnv \/ FromEnv

ConfSpec == ConfInit /\ [][ConfNext]_confVars

-----------------------------------------------------------------------------
(* The commands, which read no .env file.                                  *)
orElse(a, b) == IF a \in {Unset, Empty} THEN b ELSE a

(* Faulty variant: the variable is for the resolver only.                  *)
alwaysLocal == local

deploymentsFlag == orElse(given["DDNS_DEPLOYMENTS"], local)

addressOf(c, flag) ==
    LET deployed == IF deploymentsFlag \in artifacts THEN contents[deploymentsFlag][c] ELSE Empty
    IN  orElse(flag, orElse(deployed, orElse(given[variable[c]], Empty)))

resolveAddrs(c, flag) == addressOf(c, flag)
resolverRegistryAddr(flag) == addressOf("ResolverRegistry", flag)
incentivesAddr(flag) == addressOf("ResolverIncentives", flag)
namespaceAddr(flag) == addressOf("NamespaceDApp", flag)

-----------------------------------------------------------------------------
(* Properties.                                                             *)
configured == cfg \notin {unknown, refused}

assignedInFile(v) == {i \in DOMAIN dotEnv : dotEnv[i][1] = v}

(* What the programs were told of a variable: the environment's word, even *)
(* if it is an empty one, before the first one in the file.                *)
told(v) ==
    IF given[v] # Unset THEN given[v]
    ELSE IF assignedInFile(v) = {} THEN Empty
    ELSE dotEnv[least(assignedInFile(v))][2]

(* The commands and the resolver are about the same contracts.  Where      *)
(* nobody was told an address, and the artifact is named to all of them or *)
(* is that of the local network, a command that finds an address finds the *)
(* one in the resolver's configuration.  In any case the resolver uses the *)
(* addresses that it was told, real environment variables before the file, *)
(* and all others are from one artifact, which, if none is named, is one   *)
(* of the network that the resolver is to talk to, if there is one.        *)
SameDeployment ==
    configured =>
        /\ /\ \A c \in Contracts : told(variable[c]) = Empty
           /\ told("DEPLOYMENTS") = Empty /\ assignedInFile("DDNS_DEPLOYMENTS") = {}
           /\ given["DDNS_DEPLOYMENTS"] \notin {Unset, Empty} \/ ~forSepolia
           => /\ \A c \in {"NamespaceDApp", "RecordSchemaRegistry"} :
                   resolveAddrs(c, Empty) \in {Empty, cfg[c]}
              /\ namespaceAddr(Empty) \in {Empty, cfg["NamespaceDApp"]}
              /\ resolverRegistryAddr(Empty) \in {Empty, cfg["ResolverRegistry"]}
              /\ incentivesAddr(Empty) \in {Empty, cfg["ResolverIncentives"]}
        /\ \A c \in {"NamespaceDApp", "RecordSchemaRegistry"} :
             told(variable[c]) # Empty => cfg[c] = told(variable[c])
        /\ \E p \in artifacts \cup {Empty} :
             /\ \A c \in Contracts :
                  cfg[c] \in {told(variable[c]), IF p = Empty THEN Empty ELSE contents[p][c]}
             /\ /\ p # Empty /\ told("DEPLOYMENTS") = Empty /\ told("DDNS_DEPLOYMENTS") = Empty
                /\ told("RPC_URL") = "sepolia"
                /\ {sepolia, upDown[sepolia]} \cap artifacts # {}
                => p \in {sepolia, upDown[sepolia]}
=============================================================================
