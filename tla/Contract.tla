------------------------------- MODULE Contract -------------------------------
(***************************************************************************)
(* Contracts of domain/values.go and the validator of                      *)
(* inmemory/validators.go that every input and output goes through.  A     *)
(* value is known by its Go kind alone.                                    *)
(***************************************************************************)
EXTENDS Integers, Sequences

CONSTANTS
    FieldNames,
    NoMap           \* an input that is no map[string]any

\* Every numeric type is a "number", every slice type a "slice", nil is a nil
\* interface value, and "other" is any kind no declared type stands for.
Kinds == {"string", "number", "bool", "map", "slice", "nil", "other"}

\* "" accepts any value, and so does a type the validator has never heard of.
Types == {"", "string", "number", "boolean", "object", "array", "date"}

Field == [name : FieldNames, type : Types, required : BOOLEAN]
Contracts == Seq(Field)
Inputs == UNION {[D -> Kinds] : D \in SUBSET FieldNames} \union {NoMap}

Verdict == {"ok", "invalid", "panic"}

judge(ok) == IF ok THEN "ok" ELSE "invalid"

\* checkType; isSlice asks reflect for the type of nil, which has none.
checkType(type, kind) ==
    CASE type = "string"  -> judge(kind = "string")
      [] type = "number"  -> judge(kind = "number")
      [] type = "boolean" -> judge(kind = "bool")
      [] type = "object"  -> judge(kind = "map")
      [] type = "array"   -> IF kind = "nil" THEN "panic" ELSE judge(kind = "slice")
      [] OTHER            -> "ok"

checkField(f, input) ==
    IF f.name \in DOMAIN input THEN checkType(f.type, input[f.name])
    ELSE judge(~f.required)

returnsEarly(contract, input) ==    \* mutant
    IF contract = <<>> THEN "ok"
    ELSE IF input = NoMap THEN "invalid"
    ELSE checkField(contract[1], input)

\* The loop over the fields ends with the first that is not ok.
Validate(contract, input) ==
    LET stops == {i \in DOMAIN contract : checkField(contract[i], input) # "ok"}
        panics == \E i \in stops : /\ checkField(contract[i], input) = "panic"
                                  /\ \A j \in stops : i <= j
    IN  IF contract = <<>> THEN "ok"
        ELSE IF input = NoMap THEN "invalid"
        ELSE IF stops = {} THEN "ok"
        ELSE IF panics THEN "panic" ELSE "invalid"

-----------------------------------------------------------------------------
(* What a contract means to the author of a plugin, by ContractField's own *)
(* comments (domain/values.go:66-73).                                     *)

kindOf ==
    [string |-> "string", number |-> "number", boolean |-> "bool",
     object |-> "map", array |-> "slice"]

Conforms(contract, input) ==
    contract = <<>> \/
        /\ input # NoMap
        /\ \A i \in DOMAIN contract :
               LET f == contract[i]
               IN  /\ f.required => f.name \in DOMAIN input
                   /\ f.name \in DOMAIN input /\ f.type \in DOMAIN kindOf =>
                          input[f.name] = kindOf[f.type]
=============================================================================
