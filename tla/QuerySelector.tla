--------------------------- MODULE QuerySelector ----------------------------
(***************************************************************************)
(* Selectors, from what a client or an owner writes to the canonical form  *)
(* under which records are stored and looked up                            *)
(* (resolver/internal/query/query.go, parseResolveQuery of                 *)
(* resolver/internal/server/rest.go).  A selector is a sequence of "k=v"   *)
(* fragments.  Keys and values are tokens; what strings.ToLower, TrimSpace,*)
(* ToUpper and strconv do to them is given by functions.                   *)
(***************************************************************************)
EXTENDS Naturals, Sequences, FiniteSets

CONSTANTS
    RawKeys, lower, trimKey,   \* keys as written; -> lower case, -> trimmed
    keyRank,                   \* key -> its place in byte order
    selKey,                    \* keys that match selKey's expression
    RawValues, trim, upper,    \* values as written; -> trimmed, -> upper case
    selVal,                    \* values that match selVal's expression
    atoi, itoa,                \* value -> number, NaN if none; number -> value
    NaN, Error,
    Bare,                      \* a fragment without "="
    MaxFragments               \* bound of the model

KnownTransports == {"UDP", "TCP", "QUIC"}
KnownServices == {"HTTP", "SMTP"}

Fragments == (RawKeys \X RawValues) \cup {Bare}

Known == {"port", "transport", "service"}
Ports == 1..65535

(* Selector keys have no upper case and no space, and all parameters have  *)
(* such keys.  Lowering a key makes no space and takes none away, and what *)
(* is in normal form stays as it is.                                       *)
ASSUME SelectorAssumption ==
    /\ lower \in [RawKeys -> RawKeys] /\ trimKey \in [RawKeys -> RawKeys]
    /\ \A k \in RawKeys : lower[lower[k]] = lower[k] /\ lower[trimKey[k]] = trimKey[lower[k]]
    /\ Known \subseteq selKey /\ selKey \subseteq RawKeys
    /\ \A k \in selKey : lower[k] = k /\ trimKey[k] = k
    /\ keyRank \in [RawKeys -> Nat]
    /\ \A j, k \in RawKeys : keyRank[j] = keyRank[k] => j = k
    /\ KnownTransports \cup KnownServices \subseteq RawValues
    /\ trim \in [RawValues -> RawValues] /\ upper \in [RawValues -> RawValues]
    /\ \A v \in RawValues : trim[trim[v]] = trim[v]
    /\ \A v \in KnownTransports \cup KnownServices : trim[v] = v /\ upper[v] = v
    /\ selVal \subseteq RawValues
    /\ atoi \in [RawValues -> Nat \cup {NaN}] /\ NaN \notin Nat
    /\ \A v \in RawValues : atoi[v] \in Ports =>
         LET p == itoa[atoi[v]] IN p \in RawValues /\ trim[p] = p /\ atoi[p] = atoi[v]
    /\ Bare \notin RawKeys \X RawValues
    /\ Error \notin RawValues /\ \A K \in SUBSET RawKeys : Error \notin [K -> RawValues]
    /\ MaxFragments \in Nat

VARIABLE raw     \* the selector as written so far

noErr(x) == x # Error

-----------------------------------------------------------------------------
keyOf(f) == lower[f[1]]

(* The pairs as a map; a second fragment with the same key is an error.    *)
ParsePairs(s) ==
    IF \/ \E i \in DOMAIN s : s[i] = Bare
       \/ \E i, j \in DOMAIN s : i # j /\ keyOf(s[i]) = keyOf(s[j])
      THEN Error
      ELSE [k \in {keyOf(s[i]) : i \in DOMAIN s} |->
              s[CHOOSE i \in DOMAIN s : keyOf(s[i]) = k][2]]

canonKey(k) == lower[trimKey[k]]

(* Faulty variant: the port is kept as it is written.                      *)
canonValueAsWritten(k, raw0) ==
    LET v == trim[raw0]
    IN  CASE k = "port"      -> IF atoi[v] \in Ports THEN v ELSE Error
          [] k = "transport" -> IF upper[v] \in KnownTransports THEN upper[v] ELSE Error
          [] k = "service"   -> IF upper[v] \in KnownServices THEN upper[v] ELSE Error
          [] OTHER           -> IF v \in selVal THEN v ELSE Error

(* The switch on the key: known keys have validated, normalised values.    *)
canonValue(k, raw0) ==
    LET v == trim[raw0]
    IN  CASE k = "port"      -> IF atoi[v] \in Ports THEN itoa[atoi[v]] ELSE Error
          [] k = "transport" -> IF upper[v] \in KnownTransports THEN upper[v] ELSE Error
          [] k = "service"   -> IF upper[v] \in KnownServices THEN upper[v] ELSE Error
          [] OTHER           -> IF v \in selVal THEN v ELSE Error

extended(map, k, v) == [x \in DOMAIN map \cup {k} |-> IF x = k THEN v ELSE map[x]]

(* One round of the loop; canon is the map built so far.                   *)
addPair(canon, key, value) ==
    LET k == canonKey(key)
        v == canonValue(k, value)
    IN  IF ~noErr(canon) \/ k \notin selKey \/ ~noErr(v) THEN Error
        ELSE IF k \in DOMAIN canon THEN Error
        ELSE extended(canon, k, v)

(* The orders in which one can range over a set of keys.                   *)
orders(S) ==
    {o \in [1..Cardinality(S) -> S] :
       /\ \A e \in S : \E n \in DOMAIN o : o[n] = e
       /\ \A m, n \in DOMAIN o : o[m] = o[n] => m = n}

sorted(keys) ==
    CHOOSE o \in orders(keys) : \A m, n \in DOMAIN o : m < n => keyRank[o[m]] < keyRank[o[n]]

join(canon) ==
    LET keys == sorted(DOMAIN canon) IN [n \in DOMAIN keys |-> <<keys[n], canon[keys[n]]>>]

canonicalAlong(order, pairs) ==
    LET canon[n \in 0..Len(order)] ==
            IF n = 0 THEN << >> ELSE addPair(canon[n - 1], order[n], pairs[order[n]])
        all == canon[Len(order)]
    IN  IF noErr(all) THEN join(all) ELSE Error

(* Some order; it is not the same each time.                               *)
CanonicalSelector(pairs) ==
    canonicalAlong(CHOOSE order \in orders(DOMAIN pairs) : TRUE, pairs)

ParseSelectorString(s) ==
    LET pairs == ParsePairs(s) IN IF noErr(pairs) THEN CanonicalSelector(pairs) ELSE Error

(* The selector= parameter and any of port=, transport= and service= that  *)
(* are not empty, here a function from those given to their values.        *)
parseResolveQuery(s, params) ==
    LET pairs == ParsePairs(s)
    IN  IF ~noErr(pairs) \/ DOMAIN pairs \cap DOMAIN params # {} THEN Error
        ELSE CanonicalSelector(
               [k \in DOMAIN pairs \cup DOMAIN params |->
                  IF k \in DOMAIN params THEN params[k] ELSE pairs[k]])

-----------------------------------------------------------------------------
(* Every selector up to a length.                                          *)
SelectorInit == raw = << >>

Write(f) == Len(raw) < MaxFragments /\ raw' = Append(raw, f)

SelectorNext == \E f \in Fragments : Write(f)

SelectorSpec == SelectorInit /\ [][SelectorNext]_raw

permutations ==
    {q \in [DOMAIN raw -> DOMAIN raw] :
       /\ \A i \in DOMAIN raw : \E j \in DOMAIN raw : q[j] = i
       /\ \A i, j \in DOMAIN raw : q[i] = q[j] => i = j}
reordered == {[i \in DOMAIN raw |-> raw[q[i]]] : q \in permutations}

(* What a fragment asks for.                                               *)
meaning(f) ==
    IF f = Bare THEN <<Bare>>
    ELSE LET k == canonKey(f[1])
             v == trim[f[2]]
         IN  <<k, CASE k = "port" -> <<atoi[v]>>
                    [] k \in {"transport", "service"} -> upper[v]
                    [] OTHER -> v>>

spellings == [f \in Fragments |-> {g \in Fragments : meaning(g) = meaning(f)}]

(* All ways to write a selector make the same selector, errors included:   *)
(* its fragments in another order; the map of pairs ranged over in another *)
(* order; a fragment spelled otherwise, wherever it stands; the canonical  *)
(* form itself, which is what the owner's command stores; and, as the      *)
(* comment on parseResolveQuery has it, a parameter, which merges with the *)
(* selector and must not duplicate a key of it, however that is spelled.   *)
SpellingIrrelevant ==
    LET c     == ParseSelectorString(raw)
        pairs == ParsePairs(raw)
    IN  /\ \A s \in reordered : ParseSelectorString(s) = c
        /\ noErr(pairs) => \A order \in orders(DOMAIN pairs) : canonicalAlong(order, pairs) = c
        /\ \A i \in DOMAIN raw : \A f \in spellings[raw[i]] :
             ParseSelectorString([raw EXCEPT ![i] = f]) = c
        /\ noErr(c) => ParseSelectorString(c) = c
        /\ (\A i \in DOMAIN raw : raw[i] # Bare) =>
             \A k \in Known, v \in RawValues \ {""} :
                 parseResolveQuery(raw, [x \in {k} |-> v]) =
                 ParseSelectorString(Append(raw, <<k, v>>))
=============================================================================
