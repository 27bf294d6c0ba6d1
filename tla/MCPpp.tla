------------------------------- MODULE MCPpp --------------------------------
(***************************************************************************)
(* A small instance of Ppp: one context SELinux knows, which may be        *)
(* answered 0 all the same, and one it does not know, vectors of one or    *)
(* two permissions, and tables so small that either can overrun.           *)
(***************************************************************************)
EXTENDS Ppp

MCPerms == {"r", "w"}
MCContexts == {"shadow_t", "gone_t"}
MCAnswers == [x \in MCContexts |-> IF x = "gone_t" THEN {0} ELSE {0, 7}]
MCClasses == {"file"}
MCTclassOf == [c \in MCClasses |-> 6]
MCWords == {"read", "write"}
MCAvPerm == [c \in MCClasses |->
               [w \in MCWords |-> IF w = "read" THEN {"r"} ELSE {"w"}]]
MCAfterL == [cs |-> 3, cc |-> 3, tclass |-> 3, requested |-> {"r"}]
=============================================================================
