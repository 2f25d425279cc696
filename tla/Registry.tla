------------------------------ MODULE Registry -------------------------------
(***************************************************************************)
(* CompositionService of domain/composition.go with the repositories and   *)
(* executor registries it fills.  Threads are goroutines that register and *)
(* deregister plugins.  Each repository locks itself, so one call of it is *)
(* a step; the service's own mutex is held across several of them, and     *)
(* RegisterBundle works on the executor registries outside of it.          *)
(*                                                                         *)
(* Executing goroutines read the repositories between any two steps.       *)
(***************************************************************************)
EXTENDS Naturals

CONSTANTS
    Threads,
    Ids,            \* PluginID
    ActionNames,
    CapabilityNames,
    Refs,           \* ActionExecutorRef and CapabilityExecutorRef
    Packages,       \* what there is to register, see Package
    None,           \* no package, no thread
    MaxCalls        \* bound: calls of the service

\* A contribution, with its executors (RegisterBundle) or without (a plugin,
\* which may implement LifecyclePlugin).  Every definition is bound to one of
\* its refs.
Package == [id : Ids, actions : SUBSET ActionNames,
            capabilities : SUBSET CapabilityNames, refs : SUBSET Refs,
            bundled : BOOLEAN, lifecycle : BOOLEAN]

ASSUME RegistryAssumption ==
    /\ Packages \subseteq Package
    /\ \A c \in Packages : ~(c.bundled /\ c.lifecycle)
    /\ ActionNames \intersect CapabilityNames = {}
    /\ None \notin Packages /\ None \notin Threads
    /\ MaxCalls \in Nat

VARIABLES
    owner,          \* actionRepo and capabilityRepo: whose definition a name has
    plugins,        \* pluginRepo
    bound,          \* refs with an executor in the executor registries
    lifecycles,     \* CompositionService.lifecycles
    active,         \* contributions whose status is ContributionActive
    mutex,          \* CompositionService.mu: its holder
    pc,             \* where each thread is
    job,            \* the package it is working on
    left,           \* names or refs the current loop has still to handle
    open,           \* history: plugins initialised and not closed since
    withdrawn,      \* history: refs that a rollback has unregistered
    calls           \* calls so far

stores == <<owner, plugins, bound, lifecycles, active>>
vars == <<stores, mutex, pc, job, left, open, withdrawn, calls>>

Names(c) == c.actions \union c.capabilities

Places == {"idle", "bind", "enter", "saving", "rollback", "unbind", "retain",
           "removing", "closing"}

\* Places inside RegisterContribution and DeregisterPlugin.
Critical == {"saving", "rollback", "removing", "closing"}

Init ==
    /\ owner = [n \in ActionNames \union CapabilityNames |-> None]
    /\ plugins = [id \in Ids |-> None]
    /\ bound = {}
    /\ lifecycles = [id \in Ids |-> None]
    /\ active = {}
    /\ mutex = None
    /\ pc = [t \in Threads |-> "idle"]
    /\ job = [t \in Threads |-> None]
    /\ left = [t \in Threads |-> {}]
    /\ open = {}
    /\ withdrawn = {}
    /\ calls = 0

-----------------------------------------------------------------------------
at(t, place) == pc[t] = place
goto(t, place) == pc' = [pc EXCEPT ![t] = place]
todo(t, work) == left' = [left EXCEPT ![t] = work]
done(t, item) == todo(t, left[t] \ {item})

begin(t, c) ==
    /\ at(t, "idle")
    /\ calls < MaxCalls
    /\ calls' = calls + 1
    /\ job' = [job EXCEPT ![t] = c]

\* What a call does with an error of RegisterContribution.
fail(t) ==
    IF job[t].bundled
    THEN goto(t, "unbind") /\ todo(t, job[t].refs)
    ELSE goto(t, "idle") /\ todo(t, {})

-----------------------------------------------------------------------------
(* RegisterBundle: the executors first, outside the mutex.                 *)

listsFirst(t, c) ==     \* mutant
    /\ begin(t, c)
    /\ c.bundled
    /\ goto(t, "enter")
    /\ UNCHANGED <<stores, mutex, left, open, withdrawn>>

RegisterBundle(t, c) ==
    /\ begin(t, c)
    /\ c.bundled
    /\ goto(t, "bind")
    /\ todo(t, c.refs)
    /\ UNCHANGED <<stores, mutex, open, withdrawn>>

BindNext(t) ==
    /\ at(t, "bind")
    /\ \/ \E ref \in left[t] :
              bound' = bound \union {ref} /\ done(t, ref) /\ UNCHANGED pc
       \/ left[t] = {} /\ goto(t, "enter") /\ UNCHANGED <<bound, left>>
    /\ UNCHANGED <<owner, plugins, lifecycles, active, mutex, job, open,
                   withdrawn, calls>>

\* After an error: every executor of the bundle goes.
UnbindNext(t) ==
    /\ at(t, "unbind")
    /\ \/ \E ref \in left[t] :
              /\ bound' = bound \ {ref}
              /\ withdrawn' = withdrawn \union {ref}
              /\ done(t, ref)
              /\ UNCHANGED pc
       \/ left[t] = {} /\ goto(t, "idle") /\ UNCHANGED <<bound, withdrawn, left>>
    /\ UNCHANGED <<owner, plugins, lifecycles, active, mutex, job, open, calls>>

\* RegisterActionExecutor, RegisterCapabilityExecutor: what a plugin without a
\* bundle needs.
RegisterExecutor(ref) ==
    /\ ref \notin bound
    /\ bound' = bound \union {ref}
    /\ UNCHANGED <<owner, plugins, lifecycles, active, mutex, pc, job, left,
                   open, withdrawn, calls>>

(* RegisterPluginWithConfig.                                               *)

\* Init and Contribute.  Either may fail, and then nothing is undone.
RegisterPlugin(t, c) ==
    /\ begin(t, c)
    /\ ~c.bundled
    /\ \/ /\ open' = IF c.lifecycle THEN open \union {c} ELSE open
          /\ goto(t, "enter") \/ UNCHANGED pc
       \/ c.lifecycle /\ UNCHANGED <<open, pc>>
    /\ UNCHANGED <<stores, mutex, left, withdrawn>>

\* The second critical section of a registration that succeeded.
Retain(t) ==
    /\ at(t, "retain")
    /\ mutex = None
    /\ lifecycles' = [lifecycles EXCEPT ![job[t].id] = job[t]]
    /\ goto(t, "idle")
    /\ UNCHANGED <<owner, plugins, bound, active, mutex, job, left, open,
                   withdrawn, calls>>

(* RegisterContribution.                                                   *)

ignoresCapabilities(c) ==   \* mutant
    \/ plugins[c.id] # None
    \/ \E n \in c.actions : owner[n] # None
ignoresActions(c) ==        \* mutant
    \/ plugins[c.id] # None
    \/ \E n \in c.capabilities : owner[n] # None
conflicts(c) ==
    \/ plugins[c.id] # None
    \/ \E n \in Names(c) : owner[n] # None

\* A plugin's Contribute may build a new contribution or return the last one
\* again; a bundle holds the one it was made with.
mayActivate(c) == c \notin active \/ ~c.bundled

returnsLocked(t) ==     \* mutant
    /\ at(t, "enter")
    /\ mutex = None
    /\ conflicts(job[t]) \/ job[t] \in active
    /\ mutex' = t
    /\ fail(t)
    /\ UNCHANGED <<stores, job, open, withdrawn, calls>>

Refuse(t) ==
    /\ at(t, "enter")
    /\ mutex = None
    /\ conflicts(job[t]) \/ job[t] \in active
    /\ fail(t)
    /\ UNCHANGED <<stores, mutex, job, open, withdrawn, calls>>

\* Only a holder of the mutex changes what the checks look at, so they are one
\* step with Activate.
Accept(t) ==
    /\ at(t, "enter")
    /\ mutex = None
    /\ ~conflicts(job[t])
    /\ mayActivate(job[t])
    /\ active' = active \union {job[t]}
    /\ mutex' = t
    /\ goto(t, "saving")
    /\ todo(t, Names(job[t]))
    /\ UNCHANGED <<owner, plugins, bound, lifecycles, job, open, withdrawn, calls>>

\* actionRepo.Save for every action, then capabilityRepo.Save.
SaveNext(t) ==
    /\ at(t, "saving")
    /\ \E n \in left[t] :
           /\ n \in CapabilityNames => left[t] \intersect ActionNames = {}
           /\ owner' = [owner EXCEPT ![n] = job[t]]
           /\ done(t, n)
    /\ UNCHANGED <<plugins, bound, lifecycles, active, mutex, pc, job, open,
                   withdrawn, calls>>

SavePlugin(t) ==
    /\ at(t, "saving")
    /\ left[t] = {}
    /\ plugins' = [plugins EXCEPT ![job[t].id] = job[t]]
    /\ mutex' = None
    /\ goto(t, IF job[t].lifecycle THEN "retain" ELSE "idle")
    /\ UNCHANGED <<owner, bound, lifecycles, active, job, left, open, withdrawn,
                   calls>>

forgetsActions(t) ==    \* mutant
    /\ at(t, "saving")
    /\ goto(t, "rollback")
    /\ todo(t, job[t].capabilities \ left[t])
    /\ UNCHANGED <<stores, mutex, job, open, withdrawn, calls>>

\* The next Save returns an error.
SaveFails(t) ==
    /\ at(t, "saving")
    /\ goto(t, "rollback")
    /\ todo(t, Names(job[t]) \ left[t])
    /\ UNCHANGED <<stores, mutex, job, open, withdrawn, calls>>

RollBackNext(t) ==
    /\ at(t, "rollback")
    /\ \/ \E n \in left[t] :
              /\ owner' = [owner EXCEPT ![n] = None]
              /\ done(t, n)
              /\ UNCHANGED <<mutex, pc>>
       \/ left[t] = {} /\ mutex' = None /\ fail(t) /\ UNCHANGED owner
    /\ UNCHANGED <<plugins, bound, lifecycles, active, job, open, withdrawn, calls>>

(* DeregisterPlugin.                                                       *)

closesFirst(t, id) ==   \* mutant
    /\ plugins[id] # None
    /\ mutex = None
    /\ begin(t, plugins[id])
    /\ mutex' = t
    /\ open' = open \ {lifecycles[id]}
    /\ goto(t, "removing")
    /\ todo(t, Names(plugins[id]))
    /\ UNCHANGED <<stores, withdrawn>>

DeregisterPlugin(t, id) ==
    /\ plugins[id] # None
    /\ mutex = None
    /\ begin(t, plugins[id])
    /\ mutex' = t
    /\ goto(t, "removing")
    /\ todo(t, Names(plugins[id]))
    /\ UNCHANGED <<stores, open, withdrawn>>

RemoveNext(t) ==
    /\ at(t, "removing")
    /\ \/ \E n \in left[t] :
              /\ owner' = [owner EXCEPT ![n] = None]
              /\ done(t, n)
              /\ UNCHANGED <<plugins, pc>>
       \/ /\ left[t] = {}
          /\ plugins' = [plugins EXCEPT ![job[t].id] = None]
          /\ goto(t, "closing")
          /\ UNCHANGED <<owner, left>>
    /\ UNCHANGED <<bound, lifecycles, active, mutex, job, open, withdrawn, calls>>

\* Close, if a plugin is retained under the identifier, still in the mutex.
Close(t) ==
    /\ at(t, "closing")
    /\ lifecycles' = [lifecycles EXCEPT ![job[t].id] = None]
    /\ open' = open \ {lifecycles[job[t].id]}
    /\ mutex' = None
    /\ goto(t, "idle")
    /\ UNCHANGED <<owner, plugins, bound, active, job, left, withdrawn, calls>>

-----------------------------------------------------------------------------
Call(t) ==
    \/ \E c \in Packages : RegisterBundle(t, c) \/ RegisterPlugin(t, c)
    \/ \E id \in Ids : DeregisterPlugin(t, id)

Step(t) ==
    \/ BindNext(t) \/ UnbindNext(t) \/ Retain(t)
    \/ Refuse(t) \/ Accept(t) \/ SaveNext(t) \/ SavePlugin(t) \/ SaveFails(t)
    \/ RollBackNext(t) \/ RemoveNext(t) \/ Close(t)

Next ==
    \/ \E t \in Threads : Call(t) \/ Step(t)
    \/ \E ref \in Refs : RegisterExecutor(ref)

Spec == Init /\ [][Next]_vars

\* A call that has begun goes on: the scheduler runs it, the plugin's code
\* returns, and a free mutex is taken by somebody who waits for it.
FairSpec == Spec /\ \A t \in Threads : WF_vars(Step(t))

-----------------------------------------------------------------------------
(* Correctness.                                                            *)

\* Every variable has its type.  Only lifecycle plugins are retained, and what
\* a call has still to do is part of what it set out to do.
TypeOK ==
    /\ owner \in [ActionNames \union CapabilityNames -> Packages \union {None}]
    /\ plugins \in [Ids -> Packages \union {None}]
    /\ lifecycles \in [Ids -> {c \in Packages : c.lifecycle} \union {None}]
    /\ bound \subseteq Refs /\ withdrawn \subseteq Refs
    /\ active \subseteq Packages
    /\ open \subseteq {c \in Packages : c.lifecycle}
    /\ mutex \in Threads \union {None}
    /\ pc \in [Threads -> Places]
    /\ job \in [Threads -> Packages \union {None}]
    /\ left \in [Threads -> SUBSET (ActionNames \union CapabilityNames \union Refs)]
    /\ \A t \in Threads :
           /\ pc[t] # "idle" => job[t] \in Packages
           /\ pc[t] = "retain" => job[t].lifecycle
           /\ pc[t] \in {"idle", "enter", "retain", "closing"} => left[t] = {}
           /\ pc[t] \in {"bind", "unbind"} => left[t] \subseteq job[t].refs
           /\ pc[t] \in Critical => left[t] \subseteq Names(job[t])
    /\ calls \in 0 .. MaxCalls

Registered(c) == plugins[c.id] = c

\* A goroutine is at a place of a critical section with this package.
busy(c, places) == \E t \in Threads : pc[t] \in places /\ job[t] = c

\* The three repositories tell one story at every moment: a name is listed for
\* a registered plugin, or for the one whose registration holds the mutex; and
\* all names of a registered plugin are listed, save while it is deregistered.
\* So a registration that fails half way leaves the others' entries alone and
\* none of its own.
RepositoriesAgree ==
    /\ \A n \in ActionNames \union CapabilityNames : owner[n] # None =>
           /\ n \in Names(owner[n])
           /\ Registered(owner[n]) \/ busy(owner[n], {"saving", "rollback"})
    /\ \A c \in Packages : Registered(c) =>
           (\A n \in Names(c) : owner[n] = c) \/ busy(c, {"removing"})

\* A listed definition of a bundle has its executors, as long as no failed
\* registration took them away: they are bound before the first name shows.
BoundBeforeListed ==
    \A n \in ActionNames \union CapabilityNames :
        owner[n] # None /\ owner[n].bundled =>
            owner[n].refs \subseteq bound \union withdrawn

\* Close never hits a plugin that is still registered, whatever identifier it
\* was retained under and whoever overtook whom.
ClosedOnlyWhenGone == [][\A c \in open \ open' : ~Registered(c)]_vars

\* Every call returns, and with it the mutex is free again.
CallsReturn == \A t \in Threads : pc[t] # "idle" ~> pc[t] = "idle"

\* The service implements Directory: registration and deregistration are atomic
\* and no two registered plugins clash.
D == INSTANCE Directory WITH registered <- {c \in Packages : Registered(c)}
DirectorySpec == D!Spec

-----------------------------------------------------------------------------
(* What comments say and the code does not do.                             *)

\* domain/composition.go:70-73: executors are registered first "so a concurrent
\* Execute cannot observe unbound actions", and a failed registration rolls back
\* those "from this bundle".
BoundWhileListed ==
    \A n \in ActionNames \union CapabilityNames :
        owner[n] # None /\ owner[n].bundled => owner[n].refs \subseteq bound

\* domain/composition.go:133: "On successful registration the LifecyclePlugin is
\* retained so Close runs on deregister": once all calls have returned, the
\* registered plugin is the one retained under its identifier.
RetainedWhenRegistered ==
    (\A t \in Threads : pc[t] = "idle") =>
        \A c \in Packages :
            c.lifecycle /\ Registered(c) => lifecycles[c.id] = c
=============================================================================
