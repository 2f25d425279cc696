---------------------------- MODULE ServingProofs -----------------------------
(***************************************************************************)
(* Theorems about sessions that execute while plugins come and go, for     *)
(* every set of packages, contracts, requests, sessions and registering    *)
(* goroutines.  They build on the invariant of RegistryProofs.             *)
(***************************************************************************)
EXTENDS Serving, RegistryProofs

-----------------------------------------------------------------------------
(* The validator.                                                          *)

\* What the validator accepts conforms to the contract.
LEMMA ValidateSound ==
    ASSUME NEW contract \in Contracts, NEW i \in Inputs,
           Validate(contract, i) = "ok"
    PROVE  Conforms(contract, i)
<1> DEFINE stops == {k \in DOMAIN contract : checkField(contract[k], i) # "ok"}
<1>1. CASE contract = <<>>
  BY <1>1 DEF Conforms
<1>2. CASE contract # <<>>
  <2>1. i # NoMap
    BY <1>2 DEF Validate
  <2>2. stops = {}
    BY <1>2, <2>1 DEF Validate
  <2>3. ASSUME NEW k \in DOMAIN contract
        PROVE  /\ contract[k].required => contract[k].name \in DOMAIN i
               /\ contract[k].name \in DOMAIN i /\ contract[k].type \in DOMAIN kindOf =>
                      i[contract[k].name] = kindOf[contract[k].type]
    <3>1. checkField(contract[k], i) = "ok" /\ contract[k] \in Field
      BY <2>2 DEF Contracts
    <3>2. "ok" # "invalid" /\ "ok" # "panic"
      OBVIOUS
    <3>3. ASSUME contract[k].required
          PROVE  contract[k].name \in DOMAIN i
      BY <3>1, <3>2, <3>3 DEF checkField, judge
    <3>4. ASSUME contract[k].name \in DOMAIN i, contract[k].type \in DOMAIN kindOf
          PROVE  i[contract[k].name] = kindOf[contract[k].type]
      <4>1. checkType(contract[k].type, i[contract[k].name]) = "ok"
        BY <3>1, <3>4 DEF checkField
      <4>2. contract[k].type \in {"string", "number", "boolean", "object", "array"}
        BY <3>4 DEF kindOf
      <4> QED BY <3>2, <4>1, <4>2 DEF checkType, judge, kindOf
    <3> QED BY <3>3, <3>4
  <2> QED BY <2>1, <2>3 DEF Conforms
<1> QED BY <1>1, <1>2

\* A field that is in order: there if it must be, and of its declared type.
inOrder(f, i) ==
    /\ f.required => f.name \in DOMAIN i
    /\ f.name \in DOMAIN i /\ f.type \in DOMAIN kindOf =>
           i[f.name] = kindOf[f.type]

\* The validator has nothing against a field that is in order.
LEMMA InOrderPasses ==
    ASSUME NEW f \in Field, NEW i \in Inputs, i # NoMap, inOrder(f, i)
    PROVE  checkField(f, i) = "ok"
<1>1. CASE f.name \notin DOMAIN i
  BY <1>1 DEF inOrder, checkField, judge, Field
<1>2. CASE f.name \in DOMAIN i
  <2>1. f.type \in Types
    BY DEF Field
  <2>2. CASE f.type \in {"", "date"}
    BY <1>2, <2>2 DEF checkField, checkType
  <2>3. CASE f.type \in {"string", "number", "boolean", "object", "array"}
    <3>1. f.type \in DOMAIN kindOf
      BY <2>3 DEF kindOf
    <3>2. i[f.name] = kindOf[f.type]
      BY <1>2, <3>1 DEF inOrder
    <3> QED BY <1>2, <2>3, <3>2 DEF checkField, checkType, judge, kindOf
  <2> QED BY <2>1, <2>2, <2>3 DEF Types
<1> QED BY <1>1, <1>2

\* The only field the validator panics at is a nil declared an "array".
LEMMA PanicsAtNil ==
    ASSUME NEW f \in Field, NEW i \in Inputs, checkField(f, i) = "panic"
    PROVE  f.name \in DOMAIN i /\ f.type = "array" /\ i[f.name] = "nil"
<1>1. \A ok \in BOOLEAN : judge(ok) # "panic"
  BY DEF judge
<1>2. f.name \in DOMAIN i
  BY <1>1 DEF checkField, Field
<1>3. checkType(f.type, i[f.name]) = "panic"
  BY <1>2 DEF checkField
<1>4. f.type \in Types
  BY DEF Field
<1> QED BY <1>2, <1>3, <1>4 DEF checkType, judge, Types

\* The validator decides contracts: it accepts what conforms to one and
\* nothing else (Validate of inmemory/validators.go against the comments of
\* ContractField), and what it neither accepts nor refuses, because it panics,
\* has a nil where the contract declares an "array".
THEOREM ValidateDecides ==
    ASSUME NEW contract \in Contracts, NEW i \in Inputs
    PROVE  /\ Validate(contract, i) = "ok" <=> Conforms(contract, i)
           /\ Validate(contract, i) = "panic" =>
                  \E k \in DOMAIN contract :
                      /\ contract[k].name \in DOMAIN i
                      /\ contract[k].type = "array"
                      /\ i[contract[k].name] = "nil"
<1> DEFINE stops == {k \in DOMAIN contract : checkField(contract[k], i) # "ok"}
<1>1. \A k \in DOMAIN contract : contract[k] \in Field
  BY DEF Contracts
<1>2. ASSUME Conforms(contract, i)
      PROVE  Validate(contract, i) = "ok"
  <2>1. CASE contract = <<>>
    BY <2>1 DEF Validate
  <2>2. CASE contract # <<>>
    <3>1. i # NoMap /\ \A k \in DOMAIN contract : inOrder(contract[k], i)
      BY <1>2, <2>2 DEF Conforms, inOrder
    <3>2. stops = {}
      BY <1>1, <3>1, InOrderPasses
    <3> QED BY <2>2, <3>1, <3>2 DEF Validate
  <2> QED BY <2>1, <2>2
<1>3. ASSUME Validate(contract, i) = "panic"
      PROVE  \E k \in DOMAIN contract :
                 /\ contract[k].name \in DOMAIN i
                 /\ contract[k].type = "array"
                 /\ i[contract[k].name] = "nil"
  <2>1. PICK k \in DOMAIN contract : checkField(contract[k], i) = "panic"
    BY <1>3 DEF Validate
  <2> QED BY <1>1, <2>1, PanicsAtNil
<1> QED BY <1>2, <1>3, ValidateSound

-----------------------------------------------------------------------------
(* The inductive invariant.                                                *)

\* What is true of a session on each of its ways: through the gate and on, or
\* through the gate, an approval and a second lookup.
Way(u) ==
    /\ place[u] \in {"resolving", "awaiting", "approved", "building", "entered"} =>
           Validate(InputContract[first[u]], input[u]) = "ok"
    /\ place[u] \in {"idle", "resolving", "awaiting"} => u \notin approved
    /\ place[u] = "approved" => u \in approved
    /\ place[u] \in {"resolving", "awaiting"} => def[u] = first[u]
    /\ place[u] \in {"resolving", "awaiting", "approved"} => asked[u] \in Names(first[u])
    /\ place[u] = "awaiting" => first[u] \in Gated
    /\ u \in approved => first[u] \in Gated
    /\ place[u] \in {"building", "entered"} /\ u \notin approved =>
           def[u] = first[u] /\ def[u] \notin Gated
    /\ place[u] \in {"resolving", "building"} => need[u] \subseteq Needs[def[u]]

SessionInv == \A u \in Clients : Way(u)

ServingInv == RepositoryInv /\ STypeOK /\ SessionInv

LEMMA ServingInit == SInit => ServingInv
<1> SUFFICES ASSUME SInit
             PROVE  ServingInv
  OBVIOUS
<1>1. RepositoryInv
  BY RepositoryInit DEF SInit
<1>2. STypeOK
  BY DEF SInit, STypeOK, Phases
<1>3. SessionInv
  BY DEF SInit, SessionInv, Way
<1> QED BY <1>1, <1>2, <1>3 DEF ServingInv

\* A step of one session, given that it is right for that session.
LEMMA OneSession ==
    ASSUME ServingInv, STypeOK', NEW u \in Clients, Way(u)',
           UNCHANGED <<asked, input>>,
           \A v \in Clients \ {u} :
               /\ place'[v] = place[v] /\ def'[v] = def[v] /\ first'[v] = first[v]
               /\ need'[v] = need[v] /\ (v \in approved' <=> v \in approved)
    PROVE  STypeOK' /\ SessionInv'
BY DEF ServingInv, SessionInv, Way

\* What the repositories list is registered, or being registered, under one of
\* the names of its package.
LEMMA ListedHasName ==
    ASSUME ServingInv, NEW u \in Clients, owner[asked[u]] # None
    PROVE  asked[u] \in Names(owner[asked[u]])
BY DEF ServingInv, STypeOK, RepositoryInv, RepositoriesAgree

LEMMA SessionStepInv ==
    ASSUME ServingInv, NEW u \in Clients, SessionStep(u)
    PROVE  STypeOK' /\ SessionInv'
<1> USE ServingAssumption DEF in, move
<1>0. /\ STypeOK /\ Way(u)
      /\ owner \in [ActionNames \union CapabilityNames -> Packages \union {None}]
      /\ asked[u] \in ActionNames /\ owner[asked[u]] \in Packages \union {None}
      /\ None \notin Packages
  BY RegistryAssumption DEF ServingInv, SessionInv, STypeOK, RepositoryInv, TypeOK
<1>1. CASE Throttle(u)
  <2>1. STypeOK'
    BY <1>0, <1>1 DEF Throttle, STypeOK, Phases, Way
  <2>2. Way(u)'
    BY <1>0, <1>1 DEF Throttle, STypeOK, Way
  <2> QED BY <1>0, <1>1, <2>1, <2>2, OneSession DEF Throttle, STypeOK
<1>2. CASE Lookup(u)
  <2>1. STypeOK'
    BY <1>0, <1>2 DEF Lookup, STypeOK, Phases, Way
  <2>2. Way(u)'
    BY <1>0, <1>2, ListedHasName DEF Lookup, STypeOK, Way
  <2> QED BY <1>0, <1>2, <2>1, <2>2, OneSession DEF Lookup, STypeOK
<1>3. CASE ResolveNext(u)
  <2>1. STypeOK'
    BY <1>0, <1>3 DEF ResolveNext, STypeOK, Phases, Way
  <2>2. Way(u)'
    BY <1>0, <1>3 DEF ResolveNext, STypeOK, Way
  <2> QED BY <1>0, <1>3, <2>1, <2>2, OneSession DEF ResolveNext, STypeOK
<1>4. CASE Gate(u)
  <2>1. STypeOK'
    BY <1>0, <1>4 DEF Gate, STypeOK, Phases, Way
  <2>2. Way(u)'
    BY <1>0, <1>4 DEF Gate, STypeOK, Way
  <2> QED BY <1>0, <1>4, <2>1, <2>2, OneSession DEF Gate, STypeOK
<1>5. CASE Approve(u)
  <2>1. STypeOK'
    BY <1>0, <1>5 DEF Approve, STypeOK, Phases, Way
  <2>2. Way(u)'
    BY <1>0, <1>5 DEF Approve, STypeOK, Way
  <2> QED BY <1>0, <1>5, <2>1, <2>2, OneSession DEF Approve, STypeOK
<1>6. CASE Resume(u)
  <2>1. STypeOK'
    <3>1. CASE place' = [place EXCEPT ![u] = "notfound"] /\ UNCHANGED <<def, need>>
      BY <1>0, <1>6, <3>1 DEF Resume, STypeOK, Phases
    <3>2. CASE /\ owner[asked[u]] \in Packages
               /\ def' = [def EXCEPT ![u] = owner[asked[u]]]
               /\ need' = [need EXCEPT ![u] = Needs[owner[asked[u]]]]
               /\ place' = [place EXCEPT ![u] = "building"]
      <4>1. Needs[owner[asked[u]]] \subseteq CapabilityNames /\ first[u] \in Packages
        BY <1>0, <1>6, <3>2 DEF Resume, STypeOK
      <4>2. UNCHANGED <<asked, input, first, approved>>
        BY <1>6 DEF Resume
      <4> QED BY <1>0, <3>2, <4>1, <4>2 DEF STypeOK, Phases
    <3> QED BY <1>0, <1>6, <3>1, <3>2 DEF Resume
  <2>2. Way(u)'
    <3>1. CASE place' = [place EXCEPT ![u] = "notfound"] /\ UNCHANGED <<def, need>>
      BY <1>0, <1>6, <3>1 DEF Resume, STypeOK, Way
    <3>2. CASE /\ owner[asked[u]] # None
               /\ def' = [def EXCEPT ![u] = owner[asked[u]]]
               /\ need' = [need EXCEPT ![u] = Needs[owner[asked[u]]]]
               /\ place' = [place EXCEPT ![u] = "building"]
      <4>1. /\ u \in approved /\ first[u] \in Gated
            /\ Validate(InputContract[first[u]], input[u]) = "ok"
        BY <1>0, <1>6 DEF Resume, Way
      <4>2. /\ place'[u] = "building"
            /\ def'[u] = owner[asked[u]] /\ need'[u] = Needs[owner[asked[u]]]
            /\ UNCHANGED <<asked, input, first, approved>>
        BY <1>0, <1>6, <3>2 DEF Resume, STypeOK
      <4> QED BY <4>1, <4>2 DEF Way
    <3> QED BY <1>6, <3>1, <3>2 DEF Resume
  <2> QED BY <1>0, <1>6, <2>1, <2>2, OneSession DEF Resume, STypeOK
<1>7. CASE Enter(u)
  <2>1. STypeOK'
    BY <1>0, <1>7 DEF Enter, STypeOK, Phases, Way
  <2>2. Way(u)'
    BY <1>0, <1>7 DEF Enter, STypeOK, Way
  <2> QED BY <1>0, <1>7, <2>1, <2>2, OneSession DEF Enter, STypeOK
<1> QED
  BY <1>1, <1>2, <1>3, <1>4, <1>5, <1>6, <1>7 DEF SessionStep

LEMMA ServingStep ==
    ASSUME ServingInv, [SNext]_allVars
    PROVE  ServingInv'
<1>1. CASE Next /\ UNCHANGED session
  <2>1. RepositoryInv'
    BY <1>1, RepositoryStep DEF ServingInv
  <2>2. STypeOK' /\ SessionInv'
    BY <1>1 DEF ServingInv, STypeOK, SessionInv, Way, session
  <2> QED BY <2>1, <2>2 DEF ServingInv
<1>2. ASSUME NEW u \in Clients, SessionStep(u)
      PROVE  ServingInv'
  <2>1. UNCHANGED vars
    BY <1>2 DEF SessionStep, Throttle, Lookup, ResolveNext, Gate, Approve, Resume, Enter
  <2>2. RepositoryInv'
    BY <2>1, RepositoryStep DEF ServingInv
  <2> QED BY <1>2, <2>2, SessionStepInv DEF ServingInv
<1>3. CASE UNCHANGED allVars
  <2>1. UNCHANGED vars /\ UNCHANGED session
    BY <1>3 DEF allVars
  <2>2. RepositoryInv'
    BY <2>1, RepositoryStep DEF ServingInv
  <2>3. STypeOK' /\ SessionInv'
    BY <2>1 DEF ServingInv, STypeOK, SessionInv, Way, session
  <2> QED BY <2>2, <2>3 DEF ServingInv
<1> QED BY <1>1, <1>2, <1>3 DEF SNext

-----------------------------------------------------------------------------
(* What follows from it.                                                   *)

\* The variables of the sessions have their types, and a session past its
\* lookup goes by a definition.
THEOREM ServingTyped == SSpec => []STypeOK
<1>1. ServingInv /\ [SNext]_allVars => ServingInv'
  BY ServingStep
<1>2. ServingInv => STypeOK
  BY DEF ServingInv
<1> QED BY ServingInit, <1>1, <1>2, PTL DEF SSpec

\* What is executed went through the gate, whatever is registered and
\* deregistered under the session.
THEOREM RunsGated == SSpec => []RunsWhatWasGated
<1>1. ServingInv /\ [SNext]_allVars => ServingInv'
  BY ServingStep
<1>2. ServingInv => RunsWhatWasGated
  BY DEF ServingInv, SessionInv, Way, RunsWhatWasGated, in
<1> QED BY ServingInit, <1>1, <1>2, PTL DEF SSpec

\* An executor sees input that conforms to the contract it was validated with.
THEOREM EntersValid == SSpec => []EntersWithValidInput
<1>1. ServingInv /\ [SNext]_allVars => ServingInv'
  BY ServingStep
<1>2. ServingInv => EntersWithValidInput
  <2> SUFFICES ASSUME ServingInv, NEW u \in Clients, in(u, "entered"),
                      def[u] = first[u]
               PROVE  Conforms(InputContract[def[u]], input[u])
    BY DEF EntersWithValidInput
  <2>1. Validate(InputContract[def[u]], input[u]) = "ok"
    BY DEF ServingInv, SessionInv, Way, in
  <2>2. InputContract[def[u]] \in Contracts /\ input[u] \in Inputs
    BY ServingAssumption DEF ServingInv, STypeOK, in
  <2> QED BY <2>1, <2>2, ValidateSound
<1> QED BY ServingInit, <1>1, <1>2, PTL DEF SSpec

\* The capabilities a registered plugin brings for its own actions are found.
THEOREM OwnCapabilitiesFound == SSpec => RegisteredResolves
<1> DEFINE Found ==
        \A u \in Clients :
            place[u] # "unresolved" /\ place'[u] = "unresolved" /\ SelfContained(def[u]) =>
                ~Registered(def[u]) \/ busy(def[u], {"removing"})
<1>1. ASSUME ServingInv, [SNext]_allVars
      PROVE  [Found]_allVars
  <2> SUFFICES ASSUME NEW u \in Clients, place[u] # "unresolved",
                      place'[u] = "unresolved", SelfContained(def[u])
               PROVE  ~Registered(def[u]) \/ busy(def[u], {"removing"})
    BY DEF Found
  <2>1. PICK v \in Clients : SessionStep(v)
    BY <1>1 DEF SNext, allVars, session
  <2>2. /\ ResolveNext(v) /\ v = u
        /\ \E c \in need[u] : owner[c] = None
    BY <1>1, <2>1
       DEF ServingInv, STypeOK, SessionStep, Throttle, Lookup, ResolveNext, Gate,
           Approve, Resume, Enter, in, move
  <2>3. PICK c \in need[u] : owner[c] = None
    BY <2>2
  <2>4. def[u] \in Packages /\ c \in Names(def[u])
    BY <1>1, <2>2, <2>3
       DEF ServingInv, SessionInv, Way, STypeOK, ResolveNext, SelfContained, Names
  <2>5. def[u] # None
    BY <2>4, RegistryAssumption
  <2> QED BY <1>1, <2>3, <2>4, <2>5 DEF ServingInv, RepositoryInv, RepositoriesAgree
<1>2. ServingInv /\ [SNext]_allVars => ServingInv'
  BY ServingStep
<1> QED BY ServingInit, <1>1, <1>2, PTL DEF SSpec, RegisteredResolves

\* An approved session executes another definition than the one approved only
\* when the plugin of that one has gone or is going.
THEOREM ReplacementsExplained == SSpec => ReplacedOnlyWhenGone
<1> DEFINE Explained ==
        \A u \in Clients :
            in(u, "approved") /\ place'[u] = "building" /\ def'[u] # first[u] =>
                ~Registered(first[u]) \/ busy(first[u], {"removing"})
<1>1. ASSUME ServingInv, [SNext]_allVars
      PROVE  [Explained]_allVars
  <2> SUFFICES ASSUME NEW u \in Clients, place[u] = "approved",
                      place'[u] = "building", def'[u] # first[u]
               PROVE  ~Registered(first[u]) \/ busy(first[u], {"removing"})
    BY DEF Explained, in
  <2>1. PICK v \in Clients : SessionStep(v)
    BY <1>1 DEF SNext, allVars, session
  <2>2. def'[u] = owner[asked[u]]
    BY <1>1, <2>1
       DEF ServingInv, STypeOK, SessionStep, Throttle, Lookup, ResolveNext, Gate,
           Approve, Resume, Enter, in, move
  <2>3. /\ first[u] \in Packages /\ asked[u] \in Names(first[u])
        /\ owner[asked[u]] # first[u]
    BY <1>1, <2>2 DEF ServingInv, SessionInv, Way, STypeOK
  <2> QED BY <1>1, <2>3 DEF ServingInv, RepositoryInv, RepositoriesAgree
<1>2. ServingInv /\ [SNext]_allVars => ServingInv'
  BY ServingStep
<1> QED BY ServingInit, <1>1, <1>2, PTL DEF SSpec, ReplacedOnlyWhenGone
=============================================================================
