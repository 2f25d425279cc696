--------------------------- MODULE RegistryProofs ----------------------------
(***************************************************************************)
(* Theorems about the registry, for every set of goroutines and packages   *)
(* and every bound on calls.                                               *)
(***************************************************************************)
EXTENDS Registry, TLAPS

AllNames == ActionNames \union CapabilityNames

-----------------------------------------------------------------------------
(* Types.                                                                  *)

LEMMA PackageFields ==
    ASSUME NEW c \in Packages
    PROVE  /\ c.id \in Ids
           /\ Names(c) \subseteq AllNames
           /\ c.refs \subseteq Refs
           /\ c.bundled \in BOOLEAN /\ c.lifecycle \in BOOLEAN
           /\ ~(c.bundled /\ c.lifecycle)
           /\ c # None
BY RegistryAssumption DEF Package, Names, AllNames

LEMMA TypeInit == Init => TypeOK
BY RegistryAssumption DEF Init, TypeOK, Places, Critical

\* What all the steps of a call have in common: they leave the others' place,
\* package and work alone.
LEMMA TypeStep ==
    ASSUME TypeOK, [Next]_vars
    PROVE  TypeOK'
<1> USE RegistryAssumption DEF TypeOK, Places, Critical, at, goto, todo, done, stores
<1>1. ASSUME NEW t \in Threads, NEW c \in Packages, RegisterBundle(t, c)
      PROVE  TypeOK'
  BY <1>1, PackageFields DEF RegisterBundle, begin
<1>2. ASSUME NEW t \in Threads, NEW c \in Packages, RegisterPlugin(t, c)
      PROVE  TypeOK'
  BY <1>2 DEF RegisterPlugin, begin
<1>3. ASSUME NEW t \in Threads, NEW id \in Ids, DeregisterPlugin(t, id)
      PROVE  TypeOK'
  BY <1>3, PackageFields DEF DeregisterPlugin, begin, AllNames
<1>4. ASSUME NEW t \in Threads, BindNext(t)
      PROVE  TypeOK'
  <2>1. ASSUME NEW ref \in left[t], bound' = bound \union {ref}, done(t, ref),
               UNCHANGED <<owner, plugins, lifecycles, active, mutex, pc, job,
                           open, withdrawn, calls>>,
               at(t, "bind")
        PROVE  TypeOK'
    BY <2>1, PackageFields
  <2>2. CASE left[t] = {} /\ goto(t, "enter")
    BY <1>4, <2>2 DEF BindNext
  <2> QED BY <1>4, <2>1, <2>2 DEF BindNext
<1>5. ASSUME NEW t \in Threads, UnbindNext(t)
      PROVE  TypeOK'
  <2>1. ASSUME NEW ref \in left[t], bound' = bound \ {ref},
               withdrawn' = withdrawn \union {ref}, done(t, ref),
               UNCHANGED <<owner, plugins, lifecycles, active, mutex, pc, job,
                           open, calls>>,
               at(t, "unbind")
        PROVE  TypeOK'
    BY <2>1, PackageFields
  <2>2. CASE left[t] = {} /\ goto(t, "idle")
    BY <1>5, <2>2 DEF UnbindNext
  <2> QED BY <1>5, <2>1, <2>2 DEF UnbindNext
<1>6. ASSUME NEW t \in Threads, Retain(t)
      PROVE  TypeOK'
  BY <1>6, PackageFields DEF Retain
<1>7. ASSUME NEW t \in Threads, Refuse(t)
      PROVE  TypeOK'
  <2>1. CASE job[t].bundled
    BY <1>7, <2>1, PackageFields DEF Refuse, fail
  <2>2. CASE ~job[t].bundled
    BY <1>7, <2>2 DEF Refuse, fail
  <2> QED BY <2>1, <2>2
<1>8. ASSUME NEW t \in Threads, Accept(t)
      PROVE  TypeOK'
  BY <1>8, PackageFields DEF Accept, AllNames
<1>9. ASSUME NEW t \in Threads, SaveNext(t)
      PROVE  TypeOK'
  BY <1>9, PackageFields DEF SaveNext, AllNames
<1>10. ASSUME NEW t \in Threads, SavePlugin(t)
       PROVE  TypeOK'
  BY <1>10, PackageFields DEF SavePlugin
<1>11. ASSUME NEW t \in Threads, SaveFails(t)
       PROVE  TypeOK'
  BY <1>11, PackageFields DEF SaveFails, AllNames
<1>12. ASSUME NEW t \in Threads, RollBackNext(t)
       PROVE  TypeOK'
  <2>1. ASSUME NEW n \in left[t], owner' = [owner EXCEPT ![n] = None], done(t, n),
               UNCHANGED <<plugins, bound, lifecycles, active, mutex, pc, job,
                           open, withdrawn, calls>>,
               at(t, "rollback")
        PROVE  TypeOK'
    BY <2>1
  <2>2. CASE left[t] = {} /\ mutex' = None /\ fail(t) /\ UNCHANGED owner
    <3>1. CASE job[t].bundled
      BY <1>12, <2>2, <3>1, PackageFields DEF RollBackNext, fail
    <3>2. CASE ~job[t].bundled
      BY <1>12, <2>2, <3>2 DEF RollBackNext, fail
    <3> QED BY <3>1, <3>2
  <2> QED BY <1>12, <2>1, <2>2 DEF RollBackNext
<1>13. ASSUME NEW t \in Threads, RemoveNext(t)
       PROVE  TypeOK'
  <2>1. ASSUME NEW n \in left[t], owner' = [owner EXCEPT ![n] = None], done(t, n),
               UNCHANGED <<plugins, bound, lifecycles, active, mutex, pc, job,
                           open, withdrawn, calls>>,
               at(t, "removing")
        PROVE  TypeOK'
    BY <2>1
  <2>2. CASE /\ left[t] = {}
             /\ plugins' = [plugins EXCEPT ![job[t].id] = None]
             /\ goto(t, "closing")
             /\ UNCHANGED <<owner, left>>
    BY <1>13, <2>2 DEF RemoveNext
  <2> QED BY <1>13, <2>1, <2>2 DEF RemoveNext
<1>14. ASSUME NEW t \in Threads, Close(t)
       PROVE  TypeOK'
  BY <1>14, PackageFields DEF Close
<1>15. ASSUME NEW ref \in Refs, RegisterExecutor(ref)
       PROVE  TypeOK'
  BY <1>15 DEF RegisterExecutor
<1>16. CASE UNCHANGED vars
  BY <1>16 DEF vars
<1> QED
  BY <1>1, <1>2, <1>3, <1>4, <1>5, <1>6, <1>7, <1>8, <1>9, <1>10, <1>11,
     <1>12, <1>13, <1>14, <1>15, <1>16 DEF Next, Call, Step

\* The type invariant of the registry.
THEOREM RegistryTyped == Spec => []TypeOK
<1>1. TypeOK /\ [Next]_vars => TypeOK'
  BY TypeStep
<1> QED BY TypeInit, <1>1, PTL DEF Spec

-----------------------------------------------------------------------------
(* The inductive invariant.                                                *)

\* The mutex: whoever is at a place of a critical section holds it.
Exclusive == \A t \in Threads : pc[t] \in Critical <=> mutex = t

\* Each repository files a contribution under its own identifier.
FiledById ==
    /\ \A id \in Ids : plugins[id] # None => plugins[id].id = id
    /\ \A id \in Ids : lifecycles[id] # None => lifecycles[id].id = id

\* How far each of the loops over the names has come.
HalfDone ==
    \A t \in Threads :
        LET c == job[t]
            listed(names) == \A n \in Names(c) :
                                 owner[n] = IF n \in names THEN c ELSE None
        IN  /\ pc[t] = "saving" =>
                   plugins[c.id] = None /\ listed(Names(c) \ left[t])
            /\ pc[t] = "rollback" => plugins[c.id] = None /\ listed(left[t])
            /\ pc[t] = "removing" => plugins[c.id] = c /\ listed(left[t])
            /\ pc[t] = "closing" => plugins[c.id] = None

RepositoryInv == TypeOK /\ Exclusive /\ FiledById /\ HalfDone /\ RepositoriesAgree

LEMMA RepositoryInit == Init => RepositoryInv
<1> SUFFICES ASSUME Init
             PROVE  RepositoryInv
  OBVIOUS
<1>1. Exclusive /\ FiledById /\ HalfDone
  BY RegistryAssumption DEF Init, Exclusive, FiledById, HalfDone, Critical
<1>2. RepositoriesAgree
  BY PackageFields DEF Init, RepositoriesAgree, Registered
<1> QED BY TypeInit, <1>1, <1>2 DEF RepositoryInv

\* A step that touches no repository, of a goroutine outside the mutex.
LEMMA OutsideStep ==
    ASSUME RepositoryInv, TypeOK', NEW t \in Threads,
           pc[t] \notin Critical, pc'[t] \notin Critical,
           \A u \in Threads \ {t} :
               pc'[u] = pc[u] /\ job'[u] = job[u] /\ left'[u] = left[u],
           UNCHANGED <<owner, plugins, mutex>>,
           FiledById'
    PROVE  RepositoryInv'
<1> USE DEF RepositoryInv, Critical
<1>1. Exclusive'
  BY DEF Exclusive
<1>2. HalfDone'
  BY DEF HalfDone, TypeOK
<1>3. /\ \A c : busy(c, {"saving", "rollback"}) => busy(c, {"saving", "rollback"})'
      /\ \A c : busy(c, {"removing"}) => busy(c, {"removing"})'
  BY DEF busy
<1>4. RepositoriesAgree'
  <2>1. RepositoriesAgree
    OBVIOUS
  <2> QED BY <1>3, <2>1 DEF RepositoriesAgree, Registered
<1> QED BY <1>1, <1>2, <1>4

LEMMA RepositoryStep ==
    ASSUME RepositoryInv, [Next]_vars
    PROVE  RepositoryInv'
<1> USE DEF at, goto, todo, done, stores
<1>0. TypeOK /\ TypeOK' /\ Exclusive /\ FiledById /\ HalfDone /\ RepositoriesAgree
  BY TypeStep DEF RepositoryInv
<1>1. ASSUME NEW t \in Threads, NEW c \in Packages,
             RegisterBundle(t, c) \/ RegisterPlugin(t, c)
      PROVE  RepositoryInv'
  BY <1>0, <1>1, OutsideStep
     DEF RegisterBundle, RegisterPlugin, begin, Critical, FiledById, TypeOK
<1>2. ASSUME NEW t \in Threads, BindNext(t) \/ UnbindNext(t)
      PROVE  RepositoryInv'
  BY <1>0, <1>2, OutsideStep DEF BindNext, UnbindNext, Critical, FiledById, TypeOK
<1>3. ASSUME NEW t \in Threads, Refuse(t)
      PROVE  RepositoryInv'
  BY <1>0, <1>3, OutsideStep DEF Refuse, fail, Critical, FiledById, TypeOK
<1>4. ASSUME NEW t \in Threads, Retain(t)
      PROVE  RepositoryInv'
  <2>1. FiledById'
    BY <1>0, <1>4, PackageFields DEF Retain, FiledById, TypeOK
  <2> QED BY <1>0, <1>4, <2>1, OutsideStep DEF Retain, Critical, TypeOK
<1>5. ASSUME NEW t \in Threads, Accept(t)
      PROVE  RepositoryInv'
  <2>1. Exclusive'
    BY <1>0, <1>5, RegistryAssumption DEF Accept, Exclusive, Critical, TypeOK
  <2>2. FiledById'
    BY <1>0, <1>5 DEF Accept, FiledById
  <2>3. HalfDone'
    BY <1>0, <1>5, PackageFields
       DEF Accept, conflicts, HalfDone, Exclusive, Critical, TypeOK
  <2>4. RepositoriesAgree'
    BY <1>0, <1>5
       DEF Accept, RepositoriesAgree, Registered, busy, Exclusive, Critical, TypeOK
  <2> QED BY <1>0, <2>1, <2>2, <2>3, <2>4 DEF RepositoryInv
<1>6. ASSUME NEW t \in Threads, SaveNext(t)
      PROVE  RepositoryInv'
  <2>1. Exclusive' /\ FiledById'
    BY <1>0, <1>6 DEF SaveNext, Exclusive, FiledById
  <2>2. HalfDone'
    BY <1>0, <1>6, PackageFields
       DEF SaveNext, HalfDone, Exclusive, Critical, TypeOK, AllNames
  <2>3. RepositoriesAgree'
    <3>1. PICK n \in left[t] : owner' = [owner EXCEPT ![n] = job[t]]
      BY <1>6 DEF SaveNext
    <3>2. /\ job[t] \in Packages /\ left[t] \subseteq Names(job[t])
          /\ Names(job[t]) \subseteq AllNames
          /\ owner[n] = None /\ plugins[job[t].id] = None
      BY <1>0, <1>6, <3>1, PackageFields DEF SaveNext, HalfDone, TypeOK, Critical
    <3>3. \A m \in AllNames \ {n} : owner'[m] = owner[m]
      BY <1>0, <3>1 DEF TypeOK, AllNames
    <3>4. owner'[n] = job[t]
      BY <1>0, <3>1, <3>2 DEF TypeOK, AllNames
    <3>5. busy(job[t], {"saving", "rollback"})' /\ UNCHANGED <<plugins, pc, job>>
      BY <1>6 DEF SaveNext, busy
    <3>6. \A c : ~busy(c, {"removing"})
      BY <1>0, <1>6 DEF SaveNext, busy, Exclusive, Critical
    <3>7. /\ \A c : Registered(c)' <=> Registered(c)
          /\ \A c : busy(c, {"saving", "rollback"}) =>
                       busy(c, {"saving", "rollback"})'
      BY <3>5 DEF Registered, busy
    <3>8. \A c \in Packages : Registered(c) => \A m \in Names(c) : owner'[m] = c
      BY <1>0, <3>2, <3>3, <3>5, <3>6, PackageFields
         DEF RepositoriesAgree, Registered
    <3>9. ASSUME NEW m \in AllNames, owner'[m] # None
          PROVE  (m \in Names(owner[m]) /\
                      (Registered(owner[m]) \/ busy(owner[m], {"saving", "rollback"})))'
      <4>1. CASE m = n
        BY <3>2, <3>4, <3>5, <4>1
      <4>2. CASE m # n
        BY <1>0, <3>3, <3>7, <3>9, <4>2 DEF RepositoriesAgree, AllNames
      <4> QED BY <4>1, <4>2
    <3> QED BY <3>7, <3>8, <3>9 DEF RepositoriesAgree, AllNames
  <2> QED BY <1>0, <2>1, <2>2, <2>3 DEF RepositoryInv
<1>7. ASSUME NEW t \in Threads, SavePlugin(t)
      PROVE  RepositoryInv'
  <2>1. Exclusive'
    BY <1>0, <1>7, RegistryAssumption DEF SavePlugin, Exclusive, Critical, TypeOK
  <2>2. FiledById'
    BY <1>0, <1>7, PackageFields DEF SavePlugin, FiledById, TypeOK
  <2>3. HalfDone'
    BY <1>0, <1>7 DEF SavePlugin, HalfDone, Exclusive, Critical, TypeOK
  <2>4. RepositoriesAgree'
    BY <1>0, <1>7, PackageFields
       DEF SavePlugin, RepositoriesAgree, Registered, busy, HalfDone, Exclusive,
           Critical, TypeOK, AllNames
  <2> QED BY <1>0, <2>1, <2>2, <2>3, <2>4 DEF RepositoryInv
<1>8. ASSUME NEW t \in Threads, SaveFails(t)
      PROVE  RepositoryInv'
  <2>1. Exclusive' /\ FiledById'
    BY <1>0, <1>8 DEF SaveFails, Exclusive, FiledById, Critical, TypeOK
  <2>2. HalfDone'
    BY <1>0, <1>8 DEF SaveFails, HalfDone, Exclusive, Critical, TypeOK
  <2>3. RepositoriesAgree'
    BY <1>0, <1>8 DEF SaveFails, RepositoriesAgree, Registered, busy, TypeOK
  <2> QED BY <1>0, <2>1, <2>2, <2>3 DEF RepositoryInv
<1>9. ASSUME NEW t \in Threads, RollBackNext(t)
      PROVE  RepositoryInv'
  <2>1. Exclusive' /\ FiledById'
    BY <1>0, <1>9, RegistryAssumption
       DEF RollBackNext, fail, Exclusive, FiledById, Critical, TypeOK
  <2>2. HalfDone'
    BY <1>0, <1>9, PackageFields
       DEF RollBackNext, fail, HalfDone, Exclusive, Critical, TypeOK, AllNames
  <2>3. RepositoriesAgree'
    BY <1>0, <1>9, PackageFields
       DEF RollBackNext, fail, RepositoriesAgree, Registered, busy, HalfDone,
           Exclusive, Critical, TypeOK, AllNames
  <2> QED BY <1>0, <2>1, <2>2, <2>3 DEF RepositoryInv
<1>10. ASSUME NEW t \in Threads, NEW id \in Ids, DeregisterPlugin(t, id)
       PROVE  RepositoryInv'
  <2>1. Exclusive' /\ FiledById'
    <3>1. Exclusive'
      BY <1>0, <1>10, RegistryAssumption
         DEF DeregisterPlugin, begin, Exclusive, Critical, TypeOK
    <3> QED BY <1>0, <1>10, <3>1 DEF DeregisterPlugin, FiledById
  <2>2. HalfDone'
    <3>1. /\ plugins[id] \in Packages /\ plugins[id].id = id
          /\ mutex = None /\ \A u \in Threads : pc[u] \notin Critical
      BY <1>0, <1>10, RegistryAssumption
         DEF DeregisterPlugin, FiledById, Exclusive, TypeOK
    <3>2. \A n \in Names(plugins[id]) : owner[n] = plugins[id]
      BY <1>0, <3>1 DEF RepositoriesAgree, Registered, busy, Critical
    <3>3. /\ job'[t] = plugins[id] /\ left'[t] = Names(plugins[id])
          /\ pc'[t] = "removing"
          /\ \A u \in Threads \ {t} : pc'[u] = pc[u]
          /\ UNCHANGED <<owner, plugins>>
      BY <1>0, <1>10 DEF DeregisterPlugin, begin, TypeOK
    <3> QED BY <3>1, <3>2, <3>3 DEF HalfDone, Critical
  <2>3. RepositoriesAgree'
    BY <1>0, <1>10
       DEF DeregisterPlugin, begin, RepositoriesAgree, Registered, busy,
           Exclusive, Critical, TypeOK
  <2> QED BY <1>0, <2>1, <2>2, <2>3 DEF RepositoryInv
<1>11. ASSUME NEW t \in Threads, RemoveNext(t)
       PROVE  RepositoryInv'
  <2>1. Exclusive' /\ FiledById'
    BY <1>0, <1>11, PackageFields
       DEF RemoveNext, Exclusive, FiledById, Critical, TypeOK
  <2>2. HalfDone'
    BY <1>0, <1>11, PackageFields
       DEF RemoveNext, HalfDone, Exclusive, Critical, TypeOK, AllNames
  <2>3. RepositoriesAgree'
    <3>1. /\ job[t] \in Packages /\ Names(job[t]) \subseteq AllNames
          /\ plugins[job[t].id] = job[t] /\ left[t] \subseteq Names(job[t])
          /\ \A m \in Names(job[t]) : owner[m] = IF m \in left[t] THEN job[t] ELSE None
      BY <1>0, <1>11, PackageFields DEF RemoveNext, HalfDone, TypeOK, Critical
    <3>2. \A c : /\ ~busy(c, {"saving", "rollback"})
                 /\ busy(c, {"removing"}) => c = job[t]
      BY <1>0, <1>11 DEF RemoveNext, busy, Exclusive, Critical
    <3>3. \A m \in AllNames : owner[m] # None =>
              m \in Names(owner[m]) /\ Registered(owner[m])
      BY <1>0, <3>2 DEF RepositoriesAgree, AllNames
    <3>4. \A c \in Packages : Registered(c) /\ c # job[t] =>
              \A m \in Names(c) : owner[m] = c
      BY <1>0, <3>2 DEF RepositoriesAgree
    <3>5. ASSUME NEW n \in left[t], owner' = [owner EXCEPT ![n] = None],
                 UNCHANGED <<plugins, pc, job>>
          PROVE  RepositoriesAgree'
      <4>1. busy(job[t], {"removing"})'
        BY <1>11, <3>5 DEF RemoveNext, busy
      <4>2. \A m \in AllNames : owner'[m] # None => owner'[m] = owner[m]
        BY <1>0, <3>1, <3>5 DEF TypeOK, AllNames
      <4>3. \A c \in Packages : Registered(c) /\ c # job[t] =>
                \A m \in Names(c) : owner'[m] = c
        BY <1>0, <3>1, <3>4, <3>5, PackageFields DEF TypeOK, AllNames
      <4> QED
        BY <3>3, <3>5, <4>1, <4>2, <4>3
           DEF RepositoriesAgree, Registered, AllNames
    <3>6. ASSUME left[t] = {}, UNCHANGED owner,
                 plugins' = [plugins EXCEPT ![job[t].id] = None]
          PROVE  RepositoriesAgree'
      <4>1. \A c \in Packages : c # job[t] /\ Registered(c) => Registered(c)'
        BY <1>0, <3>1, <3>6, PackageFields DEF Registered, TypeOK
      <4>2. \A c \in Packages : Registered(c)' => Registered(c) /\ c # job[t]
        BY <1>0, <3>1, <3>6, PackageFields DEF Registered, TypeOK
      <4>3. \A m \in AllNames : owner[m] # job[t]
        BY <3>1, <3>3, <3>6, PackageFields
      <4> QED
        BY <1>0, <3>3, <3>4, <3>6, <4>1, <4>2, <4>3
           DEF RepositoriesAgree, TypeOK, AllNames
    <3> QED BY <1>11, <3>5, <3>6 DEF RemoveNext
  <2> QED BY <1>0, <2>1, <2>2, <2>3 DEF RepositoryInv
<1>12. ASSUME NEW t \in Threads, Close(t)
       PROVE  RepositoryInv'
  <2>1. Exclusive' /\ FiledById'
    BY <1>0, <1>12, PackageFields, RegistryAssumption
       DEF Close, Exclusive, FiledById, Critical, TypeOK
  <2>2. HalfDone'
    BY <1>0, <1>12 DEF Close, HalfDone, Exclusive, Critical, TypeOK
  <2>3. RepositoriesAgree'
    BY <1>0, <1>12
       DEF Close, RepositoriesAgree, Registered, busy, Exclusive, Critical, TypeOK
  <2> QED BY <1>0, <2>1, <2>2, <2>3 DEF RepositoryInv
<1>13. CASE UNCHANGED vars \/ \E ref \in Refs : RegisterExecutor(ref)
  BY <1>0, <1>13
     DEF vars, RegisterExecutor, RepositoryInv, Exclusive, FiledById, HalfDone,
         RepositoriesAgree, Registered, busy
<1> QED
  BY <1>1, <1>2, <1>3, <1>4, <1>5, <1>6, <1>7, <1>8, <1>9, <1>10, <1>11,
     <1>12, <1>13 DEF Next, Call, Step

\* The repositories agree, however registrations and deregistrations interleave
\* and wherever they fail.
THEOREM Agree == Spec => []RepositoriesAgree
<1>1. RepositoryInv /\ [Next]_vars => RepositoryInv'
  BY RepositoryStep
<1>2. RepositoryInv => RepositoriesAgree
  BY DEF RepositoryInv
<1> QED BY RepositoryInit, <1>1, <1>2, PTL DEF Spec

-----------------------------------------------------------------------------
(* What follows from it.                                                   *)

\* Close runs in the mutex, after the plugin's entry is gone.
THEOREM ClosesGone == Spec => ClosedOnlyWhenGone
<1>1. ASSUME RepositoryInv, [Next]_vars
      PROVE  [\A c \in open \ open' : ~Registered(c)]_vars
  <2> SUFFICES ASSUME NEW c \in open \ open', ~UNCHANGED vars
               PROVE  ~Registered(c)
    OBVIOUS
  <2>1. PICK t \in Threads : Close(t)
    BY <1>1 DEF Next, Call, Step, RegisterBundle, RegisterPlugin,
                DeregisterPlugin, BindNext, UnbindNext, Retain, Refuse, Accept,
                SaveNext, SavePlugin, SaveFails, RollBackNext, RemoveNext,
                RegisterExecutor, vars
  <2>2. /\ c = lifecycles[job[t].id] /\ c \in Packages
        /\ job[t] \in Packages /\ plugins[job[t].id] = None
    BY <1>1, <2>1 DEF Close, at, RepositoryInv, HalfDone, TypeOK
  <2> QED
    BY <1>1, <2>2, PackageFields DEF RepositoryInv, FiledById, Registered
<1>2. RepositoryInv /\ [Next]_vars => RepositoryInv'
  BY RepositoryStep
<1> QED BY RepositoryInit, <1>1, <1>2, PTL DEF Spec, ClosedOnlyWhenGone

\* Only the last Save of a registration and the Delete of a deregistration
\* change what is registered.
LEMMA DirectoryStep ==
    ASSUME RepositoryInv, [Next]_vars
    PROVE  [D!Next]_{c \in Packages : Registered(c)}
<1> DEFINE registered == {c \in Packages : Registered(c)}
<1> USE DEF RepositoryInv, Registered
<1>1. CASE UNCHANGED plugins
  BY <1>1
<1>2. ASSUME NEW t \in Threads, SavePlugin(t)
      PROVE  D!Next
  <2> DEFINE c == job[t]
  <2>1. /\ c \in Packages /\ plugins[c.id] = None
        /\ plugins' = [plugins EXCEPT ![c.id] = c]
        /\ \A n \in Names(c) : owner[n] = c
    BY <1>2 DEF SavePlugin, at, HalfDone, TypeOK
  <2>2. registered' = registered \union {c}
    BY <2>1, PackageFields DEF TypeOK
  <2>3. ASSUME NEW d \in registered
        PROVE  ~D!clash(c, d)
    <3>1. ~busy(d, {"removing"})
      BY <1>2 DEF SavePlugin, at, busy, Exclusive, Critical
    <3>2. d # c /\ d.id # c.id
      BY <2>1, PackageFields
    <3>3. \A n \in Names(d) : owner[n] = d
      BY <3>1 DEF RepositoriesAgree
    <3> QED BY <2>1, <3>2, <3>3 DEF D!clash, D!Names, Names
  <2> QED BY <2>1, <2>2, <2>3 DEF D!Next, D!Register
<1>3. ASSUME NEW t \in Threads, RemoveNext(t), plugins' # plugins
      PROVE  D!Next
  <2> DEFINE c == job[t]
  <2>1. /\ c \in Packages /\ plugins[c.id] = c
        /\ plugins' = [plugins EXCEPT ![c.id] = None]
    BY <1>3 DEF RemoveNext, at, HalfDone, TypeOK
  <2>2. registered' = registered \ {c}
    BY <2>1, PackageFields DEF TypeOK
  <2> QED BY <2>1, <2>2 DEF D!Next, D!Deregister
<1> QED
  BY <1>1, <1>2, <1>3
     DEF Next, Call, Step, RegisterBundle, RegisterPlugin, DeregisterPlugin,
         BindNext, UnbindNext, Retain, Refuse, Accept, SaveNext, SaveFails,
         RollBackNext, Close, RegisterExecutor, stores, vars

\* The composition service implements the directory.
THEOREM ImplementsDirectory == Spec => DirectorySpec
<1>1. Init => D!Init
  BY PackageFields DEF Init, D!Init, Registered
<1>2. RepositoryInv /\ [Next]_vars => [D!Next]_{c \in Packages : Registered(c)}
  BY DirectoryStep
<1>3. RepositoryInv /\ [Next]_vars => RepositoryInv'
  BY RepositoryStep
<1> QED
  BY RepositoryInit, <1>1, <1>2, <1>3, PTL DEF Spec, DirectorySpec, D!Spec

-----------------------------------------------------------------------------
(* Executors before names.                                                 *)

provided(c) == c.refs \subseteq bound \union withdrawn

BindingInv ==
    /\ \A t \in Threads : pc[t] = "bind" =>
           job[t].refs \subseteq left[t] \union bound \union withdrawn
    /\ \A t \in Threads :
           pc[t] \in {"enter", "saving", "rollback"} /\ job[t].bundled =>
               provided(job[t])
    /\ \A c \in Packages : Registered(c) /\ c.bundled => provided(c)

LEMMA BindingStep ==
    ASSUME RepositoryInv, BindingInv, [Next]_vars
    PROVE  BindingInv'
<1> USE DEF BindingInv, provided, Registered, at, goto, todo, done, stores
<1>0. TypeOK /\ TypeOK'
  BY TypeStep DEF RepositoryInv
<1>1. ASSUME NEW t \in Threads, NEW c \in Packages,
             RegisterBundle(t, c) \/ RegisterPlugin(t, c)
      PROVE  BindingInv'
  BY <1>0, <1>1, PackageFields DEF RegisterBundle, RegisterPlugin, begin, TypeOK
<1>2. ASSUME NEW t \in Threads, NEW id \in Ids, DeregisterPlugin(t, id)
      PROVE  BindingInv'
  BY <1>0, <1>2 DEF DeregisterPlugin, begin, TypeOK
<1>3. ASSUME NEW t \in Threads, BindNext(t) \/ UnbindNext(t)
      PROVE  BindingInv'
  BY <1>0, <1>3 DEF BindNext, UnbindNext, TypeOK
<1>4. ASSUME NEW t \in Threads, Refuse(t) \/ RollBackNext(t)
      PROVE  BindingInv'
  BY <1>0, <1>4 DEF Refuse, RollBackNext, fail, TypeOK
<1>5. ASSUME NEW t \in Threads,
             Retain(t) \/ Accept(t) \/ SaveNext(t) \/ SaveFails(t) \/ Close(t)
      PROVE  BindingInv'
  BY <1>0, <1>5 DEF Retain, Accept, SaveNext, SaveFails, Close, TypeOK
<1>6. ASSUME NEW t \in Threads, SavePlugin(t)
      PROVE  BindingInv'
  BY <1>0, <1>6, PackageFields DEF SavePlugin, TypeOK
<1>7. ASSUME NEW t \in Threads, RemoveNext(t)
      PROVE  BindingInv'
  BY <1>0, <1>7, PackageFields DEF RemoveNext, TypeOK
<1>8. CASE UNCHANGED vars \/ \E ref \in Refs : RegisterExecutor(ref)
  BY <1>8 DEF RegisterExecutor, vars
<1> QED
  BY <1>1, <1>2, <1>3, <1>4, <1>5, <1>6, <1>7, <1>8 DEF Next, Call, Step

\* A bundle's executors are in place before its first name can be looked up.
THEOREM ExecutorsFirst == Spec => []BoundBeforeListed
<1>1. Init => BindingInv
  BY PackageFields DEF Init, BindingInv, Registered
<1>2. RepositoryInv /\ [Next]_vars => RepositoryInv'
  BY RepositoryStep
<1>3. RepositoryInv /\ BindingInv /\ [Next]_vars => BindingInv'
  BY BindingStep
<1>4. ASSUME RepositoryInv, BindingInv
      PROVE  BoundBeforeListed
  BY <1>4
     DEF RepositoryInv, RepositoriesAgree, BindingInv, provided, busy, TypeOK,
         BoundBeforeListed
<1> QED BY RepositoryInit, <1>1, <1>2, <1>3, <1>4, PTL DEF Spec
=============================================================================
