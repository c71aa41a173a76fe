----------------------------- MODULE ContentType -----------------------------
(***************************************************************************)
(* Resource type validation (resolver/internal/contenttype): the type that *)
(* the record declares against the one that the bytes look like.           *)
(***************************************************************************)
EXTENDS Naturals

CONSTANTS
    MediaTypes,     \* media types as written: with parameters, in any case
    baseType,       \* as written -> without parameters, in lower case
    Textual         \* the bases that are text: text/*, scripts, JSON, XML, SVG

ASSUME ContentTypeAssumption ==
    /\ DOMAIN baseType = MediaTypes
    /\ \A t \in MediaTypes : baseType[t] \in MediaTypes /\ baseType[baseType[t]] = baseType[t]

isText(base) == base \in Textual

Validate(declared, detected) ==
    \/ baseType[declared] \in {"", "application/octet-stream"}
    \/ baseType[declared] = baseType[detected]
    \/ isText(baseType[declared]) /\ isText(baseType[detected])
=============================================================================
