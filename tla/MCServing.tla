------------------------------ MODULE MCServing -------------------------------
(***************************************************************************)
(* Two plugins that offer the same action name, one as an external write   *)
(* and with another contract, and a third that competes for a capability.  *)
(***************************************************************************)
EXTENDS Serving

package(id, actions, capabilities, refs, bundled) ==
    [id |-> id, actions |-> actions, capabilities |-> capabilities,
     refs |-> refs, bundled |-> bundled, lifecycle |-> ~bundled]

Mail == package("mail", {"send"}, {"smtp", "dns"}, {"r1"}, TRUE)
Chat == package("chat", {"send"}, {}, {"r2"}, FALSE)
Relay == package("relay", {}, {"smtp"}, {"r1"}, TRUE)

MCPackages == {Mail, Chat, Relay}
MCNeeds == [c \in MCPackages |-> c.capabilities \union IF c = Chat THEN {"smtp"} ELSE {}]
MCBinding == [c \in MCPackages |-> CHOOSE r \in c.refs : TRUE]

MCGated == {Mail}

field(name, type, required) == [name |-> name, type |-> type, required |-> required]

MCContract ==
    [c \in MCPackages |->
        IF c = Mail THEN <<field("cc", "array", FALSE), field("body", "string", TRUE)>>
                    ELSE <<field("body", "object", TRUE)>>]

MCRequests == {NoMap, [body |-> "string"], [body |-> "map"],
               [cc |-> "slice", body |-> "string"], [cc |-> "nil", body |-> "string"],
               [cc |-> "slice"]}
=============================================================================
