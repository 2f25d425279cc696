------------------------------- MODULE Serving --------------------------------
(***************************************************************************)
(* Sessions that execute while plugins come and go: the phases of Execute, *)
(* Resume and run (domain/execution.go) that read the repositories and the *)
(* executor registries of module Registry, with CapabilityResolution-      *)
(* Service and the validator in between.                                   *)
(*                                                                         *)
(* Execute looks the action up once and goes by that definition to the     *)
(* end; a session that was approved looks its name up again.  The          *)
(* capabilities are looked up one by one, twice.  Between any two lookups  *)
(* plugins may be registered and deregistered.                             *)
(***************************************************************************)
EXTENDS Registry, Contract

CONSTANTS
    Clients,        \* goroutines executing an action, one session each
    Needs,          \* requirements of a package's actions
    Binding,        \* the ref its actions are bound to
    Gated,          \* packages whose actions have external write effects
    InputContract,  \* contract of its actions
    Requests        \* inputs the callers send

ASSUME ServingAssumption ==
    /\ Needs \in [Packages -> SUBSET CapabilityNames]
    /\ Binding \in [Packages -> Refs]
    /\ \A c \in Packages : Binding[c] \in c.refs
    /\ Gated \subseteq Packages
    /\ InputContract \in [Packages -> Contracts]
    /\ Requests \subseteq Inputs

VARIABLES
    place,          \* how far each session is
    asked,          \* the name of its action
    input,          \* its input
    def,            \* the definition it goes by: whose it is
    first,          \* history: the definition it was validated and gated with
    need,           \* capabilities it has still to resolve
    approved        \* sessions somebody approved

session == <<place, asked, input, def, first, need, approved>>
allVars == <<vars, session>>

SInit ==
    /\ Init
    /\ place = [u \in Clients |-> "idle"]
    /\ asked \in [Clients -> ActionNames]
    /\ input \in [Clients -> Requests]
    /\ def = [u \in Clients |-> None]
    /\ first = [u \in Clients |-> None]
    /\ need = [u \in Clients |-> {}]
    /\ approved = {}

-----------------------------------------------------------------------------
in(u, where) == place[u] = where
move(u, where) == place' = [place EXCEPT ![u] = where]

\* The rate limiter says no, in Execute or in Resume, or the context does, before
\* or after the validation.
Throttle(u) ==
    /\ \/ place[u] \in {"idle", "approved"}
       \/ in(u, "resolving") /\ need[u] = Needs[def[u]]
    /\ move(u, "refused")
    /\ UNCHANGED <<vars, asked, input, def, first, need, approved>>

\* GetByName and Validate, which looks at nothing but the definition found.
Lookup(u) ==
    /\ in(u, "idle")
    /\ LET c == owner[asked[u]]
       IN  \/ /\ c = None
              /\ move(u, "notfound")
              /\ UNCHANGED <<def, first, need>>
           \/ /\ c # None
              /\ Validate(InputContract[c], input[u]) # "ok"
              /\ move(u, "refused")
              /\ UNCHANGED <<def, first, need>>
           \/ /\ c # None
              /\ Validate(InputContract[c], input[u]) = "ok"
              /\ def' = [def EXCEPT ![u] = c]
              /\ first' = [first EXCEPT ![u] = c]
              /\ need' = [need EXCEPT ![u] = Needs[c]]
              /\ move(u, "resolving")
    /\ UNCHANGED <<vars, asked, input, approved>>

\* One turn of the loop of Resolve.
ResolveNext(u) ==
    /\ place[u] \in {"resolving", "building"}
    /\ \E c \in need[u] :
           \/ /\ owner[c] = None
              /\ move(u, "unresolved")
              /\ UNCHANGED need
           \/ /\ owner[c] # None
              /\ need' = [need EXCEPT ![u] = @ \ {c}]
              /\ UNCHANGED place
    /\ UNCHANGED <<vars, asked, input, def, first, approved>>

\* run resolves once more before it builds the invoker.
rereads(u) ==           \* mutant
    /\ in(u, "resolving") /\ need[u] = {}
    /\ \/ /\ def[u] \in Gated
          /\ move(u, "awaiting")
          /\ UNCHANGED <<def, need>>
       \/ /\ def[u] \notin Gated /\ owner[asked[u]] # None
          /\ move(u, "building")
          /\ def' = [def EXCEPT ![u] = owner[asked[u]]]
          /\ need' = [need EXCEPT ![u] = Needs[owner[asked[u]]]]
    /\ UNCHANGED <<vars, asked, input, first, approved>>

Gate(u) ==
    /\ in(u, "resolving") /\ need[u] = {}
    /\ \/ /\ def[u] \in Gated
          /\ move(u, "awaiting")
          /\ UNCHANGED need
       \/ /\ def[u] \notin Gated
          /\ move(u, "building")
          /\ need' = [need EXCEPT ![u] = Needs[def[u]]]
    /\ UNCHANGED <<vars, asked, input, def, first, approved>>

Approve(u) ==
    /\ in(u, "awaiting")
    /\ approved' = approved \union {u}
    /\ move(u, "approved")
    /\ UNCHANGED <<vars, asked, input, def, first, need>>

\* Resume goes by what the name stands for now: no validation, no gate.
Resume(u) ==
    /\ in(u, "approved")
    /\ LET c == owner[asked[u]]
       IN  \/ /\ c = None
              /\ move(u, "notfound")
              /\ UNCHANGED <<def, need>>
           \/ /\ c # None
              /\ def' = [def EXCEPT ![u] = c]
              /\ need' = [need EXCEPT ![u] = Needs[c]]
              /\ move(u, "building")
    /\ UNCHANGED <<vars, asked, input, first, approved>>

\* GetActionExecutor, and into it.
Enter(u) ==
    /\ in(u, "building") /\ need[u] = {}
    /\ move(u, IF Binding[def[u]] \in bound THEN "entered" ELSE "unbound")
    /\ UNCHANGED <<vars, asked, input, def, first, need, approved>>

SessionStep(u) ==
    \/ Throttle(u) \/ Lookup(u) \/ ResolveNext(u) \/ Gate(u)
    \/ Approve(u) \/ Resume(u) \/ Enter(u)

SNext ==
    \/ Next /\ UNCHANGED session
    \/ \E u \in Clients : SessionStep(u)

SSpec == SInit /\ [][SNext]_allVars

-----------------------------------------------------------------------------
(* Correctness.                                                            *)

Phases == {"idle", "refused", "notfound", "resolving", "unresolved", "awaiting",
           "approved", "building", "unbound", "entered"}

\* Every variable of the sessions has its type; those of Registry have theirs.
STypeOK ==
    /\ place \in [Clients -> Phases]
    /\ asked \in [Clients -> ActionNames]
    /\ input \in [Clients -> Requests]
    /\ def \in [Clients -> Packages \union {None}]
    /\ first \in [Clients -> Packages \union {None}]
    /\ need \in [Clients -> SUBSET CapabilityNames]
    /\ approved \subseteq Clients
    /\ \A u \in Clients :
           place[u] \in {"resolving", "awaiting", "approved", "building", "entered"} =>
               def[u] \in Packages /\ first[u] \in Packages

\* Whatever is registered and deregistered under a session: what it executes
\* went through the gate.  Without an approval that is the definition the gate
\* saw, and it is no external write; another definition runs only in a session
\* somebody approved for an external write (domain/values.go:116-118).
RunsWhatWasGated ==
    \A u \in Clients : in(u, "entered") =>
        IF u \in approved THEN first[u] \in Gated
        ELSE def[u] = first[u] /\ def[u] \notin Gated

\* An executor sees only input that conforms to its action's contract, unless
\* the action was replaced while the session was waiting for its approval.
EntersWithValidInput ==
    \A u \in Clients : in(u, "entered") /\ def[u] = first[u] =>
        Conforms(InputContract[def[u]], input[u])

SelfContained(c) == Needs[c] \subseteq c.capabilities

\* The capabilities of an action that brings them itself are found, however the
\* reads of the session and the writes of registrations interleave, as long as
\* its plugin is registered and nobody is deregistering it.
RegisteredResolves ==
    [][\A u \in Clients :
           place[u] # "unresolved" /\ place'[u] = "unresolved" /\ SelfContained(def[u]) =>
               ~Registered(def[u]) \/ busy(def[u], {"removing"})]_allVars

\* Resume looks the name up again (domain/execution.go:205).  It comes upon
\* another definition than the one that was approved only when the plugin of
\* that one is gone, or going at that moment: no registration takes the name
\* over from a plugin that stays.
ReplacedOnlyWhenGone ==
    [][\A u \in Clients :
           in(u, "approved") /\ place'[u] = "building" /\ def'[u] # first[u] =>
               ~Registered(first[u]) \/ busy(first[u], {"removing"})]_allVars
=============================================================================
