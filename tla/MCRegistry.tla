----------------------------- MODULE MCRegistry ------------------------------
(***************************************************************************)
(* Registry with four packages: bundles that compete for a capability name *)
(* and for an executor ref, and two versions of a plugin with a lifecycle, *)
(* which have an identifier and an action name in common with a bundle.    *)
(***************************************************************************)
EXTENDS Registry

package(id, actions, capabilities, refs, bundled) ==
    [id |-> id, actions |-> actions, capabilities |-> capabilities,
     refs |-> refs, bundled |-> bundled, lifecycle |-> ~bundled]

MCBundles == {package("mail", {"send"}, {"smtp"}, {"r1", "r2"}, TRUE),
              package("chat", {"post"}, {"smtp"}, {"r2"}, TRUE)}

\* Told apart by their refs.
MCVersions == {package("mail", {"send"}, {}, {"r1"}, FALSE),
               package("mail", {"send"}, {}, {"r3"}, FALSE)}

MCPackages == MCBundles \union MCVersions
=============================================================================
