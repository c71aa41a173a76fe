------------------------ MODULE RecordSchemaRegistry ------------------------
(***************************************************************************)
(* contracts/contracts/RecordSchemaRegistry.sol: the permissionless        *)
(* registry of record types.  keccak256 is taken to be injective, so a     *)
(* schema is stored under the type name itself.  A call that reverts is    *)
(* not a step.                                                             *)
(***************************************************************************)
EXTENDS Naturals, Sequences

CONSTANTS
    Types,       \* type names callers use, the built-in ones among them
    ValidTypes,  \* those of 1-32 bytes of [A-Za-z0-9_-]
    Fields,      \* field names callers use
    ValidFields, \* those of 1-32 bytes
    FieldLists,  \* the sequences of field names callers pass
    MAX_FIELDS

VARIABLES
    schemas,     \* _schemas: type name -> schema
    typeNames    \* _typeNames: every declared type, in order of declaration

schemaVars == <<schemas, typeNames>>

FieldSpec == [name : Fields, mandatory : BOOLEAN]

Schema == [exists : BOOLEAN, fields : Seq(FieldSpec)]

NoSchema == [exists |-> FALSE, fields |-> <<>>]

BuiltInOrder == <<"A", "AAAA", "MX", "SVC", "ResourceRef">>

BuiltInMandatory ==
    [A           |-> <<"address">>,
     AAAA        |-> <<"address">>,
     MX          |-> <<"host", "priority">>,
     SVC         |-> <<"target", "service", "transport">>,
     ResourceRef |-> <<"infoHash", "sha256", "contentType">>]

BuiltInOptional ==
    [A |-> <<>>, AAAA |-> <<>>, MX |-> <<>>, SVC |-> <<"port">>,
     ResourceRef |-> <<>>]

BuiltInTypes == {"A", "AAAA", "MX", "SVC", "ResourceRef"}

BuiltInFields ==
    {"address", "host", "priority", "target", "service", "transport",
     "port", "infoHash", "sha256", "contentType"}

ASSUME SchemaAssumption ==
    /\ BuiltInTypes \subseteq ValidTypes
    /\ ValidTypes \subseteq Types
    /\ BuiltInFields \subseteq ValidFields
    /\ ValidFields \subseteq Fields
    /\ FieldLists \subseteq Seq(Fields)
    /\ MAX_FIELDS \in Nat

-----------------------------------------------------------------------------
(* The field list a declaration stores: the mandatory fields first.        *)
specsOf(mandatory, optional) ==
    [i \in 1..(Len(mandatory) + Len(optional)) |->
        [name      |-> IF i <= Len(mandatory)
                         THEN mandatory[i] ELSE optional[i - Len(mandatory)],
         mandatory |-> i <= Len(mandatory)]]

checkNoDuplicates(fields) ==
    \A i, j \in DOMAIN fields : i # j => fields[i].name # fields[j].name

validateFieldNames(fields) ==
    \A i \in DOMAIN fields : fields[i].name \in ValidFields

typeExists(t) == schemas[t].exists

mandatoryFields(t) ==
    {schemas[t].fields[i].name :
        i \in {j \in DOMAIN schemas[t].fields : schemas[t].fields[j].mandatory}}

(* Faulty variant: a type without fields counts as not declared.           *)
mayRedeclare(name, mandatory, optional) ==
    LET fields == specsOf(mandatory, optional)
    IN  /\ name \in ValidTypes
        /\ Len(mandatory) + Len(optional) <= MAX_FIELDS
        /\ schemas[name].fields = <<>>
        /\ validateFieldNames(fields)
        /\ checkNoDuplicates(fields)

mayDeclare(name, mandatory, optional) ==
    LET fields == specsOf(mandatory, optional)
    IN  /\ name \in ValidTypes
        /\ Len(mandatory) + Len(optional) <= MAX_FIELDS
        /\ ~schemas[name].exists
        /\ validateFieldNames(fields)
        /\ checkNoDuplicates(fields)

declareType(name, mandatory, optional) ==
    /\ mayDeclare(name, mandatory, optional)
    /\ schemas' = [schemas EXCEPT ![name] =
                     [exists |-> TRUE, fields |-> specsOf(mandatory, optional)]]
    /\ typeNames' = Append(typeNames, name)

SchemaInit ==
    /\ schemas = [t \in Types |->
                    IF t \in BuiltInTypes
                      THEN [exists |-> TRUE,
                            fields |-> specsOf(BuiltInMandatory[t], BuiltInOptional[t])]
                      ELSE NoSchema]
    /\ typeNames = BuiltInOrder
=============================================================================
