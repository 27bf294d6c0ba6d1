------------------------------- MODULE SidTab -------------------------------
(***************************************************************************)
(* The SID table of the security server.  Clients, /proc/piga/getsid among *)
(* them, ask for the SID of a context and hold policy_rwlock for reading;  *)
(* security_load_policy copies the table into a new one beside them,       *)
(* converts its contexts to the new policy and installs both.              *)
(*                                                                         *)
(* A table holds nodes, pairs of SID and context.  The user, role and type *)
(* of a context are one name here.  The hash chains, and the cache of      *)
(* recent nodes, whose contexts are compared before use, are left out.     *)
(***************************************************************************)
EXTENDS Integers

CONSTANTS
  Clients,
  Names,                 \* user, role and type of a context
  Ranges, NoRange,       \* MLS ranges, and what contexts without MLS have
  NoContext,
  Policies,
  SECINITSID_NUM,        \* the SIDs up to this one are the initial ones
  SECINITSID_UNLABELED,
  UINT_MAX

(* A context is mapped to the values of a policy, or kept as a string when *)
(* the policy does not know it.                                            *)
Contexts == [name : Names, range : Ranges \cup {NoRange}, form : {"mapped", "string"}]

Sids == 1 .. (UINT_MAX - 1)

(* The policies that policydb_read and policydb_load_isids accept: the     *)
(* names and the ranges known, aliases with what they stand for; the valid *)
(* contexts; and the initial SIDs, no SID twice.  Without MLS there are no *)
(* ranges.  The kernel does not bound the initial SIDs, but its policies   *)
(* are compiled from its own list.                                         *)
ASSUME PolicyAssumption ==
  \A p \in Policies :
    /\ \A x \in DOMAIN p.names : p.names[x] \in Names
    /\ \A r \in DOMAIN p.ranges : p.ranges[r] \in Ranges
    /\ p.contexts \subseteq Contexts
    /\ p.isids \subseteq (1 .. SECINITSID_NUM) \X p.contexts
    /\ \A m, n \in p.isids : m[1] = n[1] => m = n

ASSUME SidAssumption ==
  /\ SECINITSID_NUM \in Nat /\ UINT_MAX \in Nat /\ SECINITSID_NUM < UINT_MAX
  /\ NoContext \notin Contexts

VARIABLES
  policydb,                   \* the policy in use
  nodes, next_sid, shutdown,  \* sidtab
  client,                     \* the context that a client is about to insert
  load,                       \* where security_load_policy is
  newpolicydb,
  new_nodes, new_next,        \* newsidtab
  unconverted                 \* its nodes that convert_context has to visit

vars == <<policydb, nodes, next_sid, shutdown, client, load, newpolicydb,
          new_nodes, new_next, unconverted>>

tab == <<nodes, next_sid, shutdown>>
loading == <<load, newpolicydb, new_nodes, new_next, unconverted>>

NoPolicy == "none"

(* policydb_load_isids: sidtab_init counts from 1, and every sidtab_insert *)
(* moves the counter behind its SID.                                       *)
Counter(isids) ==
  {k \in 1 .. UINT_MAX : /\ \A n \in isids : n[1] < k
                         /\ k = 1 \/ \E n \in isids : k = n[1] + 1}

Init ==
  /\ policydb \in Policies
  /\ nodes = policydb.isids /\ next_sid \in Counter(policydb.isids)
  /\ shutdown = FALSE
  /\ client = [t \in Clients |-> NoContext]
  /\ load = "idle" /\ newpolicydb = NoPolicy
  /\ new_nodes = {} /\ new_next = 1 /\ unconverted = {}

-----------------------------------------------------------------------------
(* security_context_to_sid.                                                *)

(* sidtab_search_context; strings and mapped contexts are never the same.  *)
Known(c) == \E n \in nodes : n[2] = c

(* The context is parsed and searched for without a lock of the table; one *)
(* that is unknown to the policy or found in the table is the end of it.   *)
security_context_to_sid(t, c) ==
  /\ client[t] = NoContext
  /\ c \in policydb.contexts /\ ~Known(c)
  /\ client' = [client EXCEPT ![t] = c]
  /\ UNCHANGED <<policydb, tab, loading>>

(* sidtab_insert into a table: the SID counter follows the largest SID.    *)
After(next, sid) == IF sid >= next THEN sid + 1 ELSE next

FullWhenWrapped == next_sid = 0

(* No SID can be given: the last one is taken.                             *)
Full == next_sid = UINT_MAX

(* The rest of sidtab_context_to_sid, under the lock of the table: a       *)
(* second search, the refusals, and the new node unless memory is short.   *)
sidtab_context_to_sid(t) ==
  /\ client[t] # NoContext
  /\ client' = [client EXCEPT ![t] = NoContext]
  /\ \/ /\ ~Known(client[t]) /\ ~Full /\ ~shutdown
        /\ nodes' = nodes \cup {<<next_sid, client[t]>>}
        /\ next_sid' = After(next_sid, next_sid)
     \/ UNCHANGED <<nodes, next_sid>>
  /\ UNCHANGED <<policydb, shutdown, loading>>

-----------------------------------------------------------------------------
(* security_load_policy, after the first one.  Loads hold sel_mutex.       *)

(* The new policy is read and gets a table with its own initial SIDs.      *)
BeginLoad(p) ==
  /\ load = "idle"
  /\ load' = "read" /\ newpolicydb' = p
  /\ new_nodes' = p.isids /\ new_next' \in Counter(p.isids)
  /\ UNCHANGED <<policydb, tab, client, unconverted>>

ShutdownNot ==
  /\ load = "read" /\ load' = "clone"
  /\ UNCHANGED <<policydb, tab, client, newpolicydb, new_nodes, new_next, unconverted>>

(* From here on the table in use gives out no new SIDs.                    *)
sidtab_shutdown ==
  /\ load = "read" /\ load' = "clone"
  /\ shutdown' = TRUE
  /\ UNCHANGED <<policydb, nodes, next_sid, client, newpolicydb, new_nodes, new_next,
                 unconverted>>

Later(ns) == {n \in ns : n[1] > SECINITSID_NUM}

(* The nodes that clone_sid still has to copy.                             *)
ToClone == Later(nodes) \ new_nodes

(* sidtab_map with clone_sid, one node after the other.                    *)
clone_sid ==
  /\ load = "clone"
  /\ \E n \in ToClone :
       /\ new_nodes' = new_nodes \cup {n}
       /\ new_next' = After(new_next, n[1])
  /\ UNCHANGED <<policydb, tab, client, load, newpolicydb, unconverted>>

(* The copy is complete, and sidtab_map goes through it once more.         *)
CloneDone ==
  /\ load = "clone" /\ ToClone = {}
  /\ load' = "convert"
  /\ unconverted' = Later(new_nodes)
  /\ UNCHANGED <<policydb, tab, client, newpolicydb, new_nodes, new_next>>

Mls(p) == DOMAIN p.ranges # {}

(* The range of context c in the new policy q, if it has one: looked up by *)
(* its name, taken from the unlabeled SID, or none.                        *)
NewRange(p, q, c) ==
  IF Mls(p) /\ Mls(q) THEN {q.ranges[r] : r \in {c.range} \cap DOMAIN q.ranges}
  ELSE IF Mls(q)
  THEN {n[2].range : n \in {m \in q.isids : m[1] = SECINITSID_UNLABELED}}
  ELSE {NoRange}

(* string_to_context_struct wants a range exactly when the policy has MLS. *)
ParsedRange(q, c) ==
  IF Mls(q) THEN {q.ranges[r] : r \in {c.range} \cap DOMAIN q.ranges}
  ELSE {c.range} \cap {NoRange}

Mapped(q, c, ranges) ==
  {[name |-> q.names[x], range |-> r, form |-> "mapped"] :
     x \in {c.name} \cap DOMAIN q.names, r \in ranges}

(* What convert_context may make of context c of policy p under policy q.  *)
(* A string that is valid now is mapped.  A mapped context of which q does *)
(* not know a part becomes a string; so does one that is not valid in q if *)
(* the kernel is enforcing, or when memory for the range is short.         *)
Forms(p, q, c) ==
  LET parsed == Mapped(q, c, ParsedRange(q, c)) \cap q.contexts
      mapped == Mapped(q, c, NewRange(p, q, c))
      string == [c EXCEPT !.form = "string"]
  IN  IF c.form = "string"
      THEN IF parsed = {} THEN {c} ELSE parsed
      ELSE IF mapped # {} /\ mapped \subseteq q.contexts /\ ~Mls(q) THEN mapped
      ELSE mapped \cup {string}

(* sidtab_map with convert_context, one node after the other.              *)
convert_context ==
  /\ load = "convert"
  /\ \E n \in unconverted : \E d \in Forms(policydb, newpolicydb, n[2]) :
       /\ new_nodes' = (new_nodes \ {n}) \cup {<<n[1], d>>}
       /\ unconverted' = unconverted \ {n}
  /\ UNCHANGED <<policydb, tab, client, load, newpolicydb, new_next>>

EndLoad ==
  /\ load' = "idle" /\ newpolicydb' = NoPolicy
  /\ new_nodes' = {} /\ new_next' = 1 /\ unconverted' = {}

(* The error paths: the new policy and its table are destroyed.            *)
LoadFails ==
  /\ load \in {"read", "clone", "convert"}
  /\ load = "clone" => ToClone # {}
  /\ load = "convert" => unconverted # {}
  /\ EndLoad
  /\ UNCHANGED <<policydb, tab, client>>

(* Under policy_rwlock for writing, when no client is inside: the policy   *)
(* and, with sidtab_set, the table.                                        *)
Install ==
  /\ load = "convert" /\ unconverted = {}
  /\ \A t \in Clients : client[t] = NoContext
  /\ policydb' = newpolicydb
  /\ nodes' = new_nodes /\ next_sid' = new_next /\ shutdown' = FALSE
  /\ EndLoad
  /\ UNCHANGED client

-----------------------------------------------------------------------------
Next ==
  \/ \E t \in Clients : \E c \in Contexts : security_context_to_sid(t, c)
  \/ \E t \in Clients : sidtab_context_to_sid(t)
  \/ \E p \in Policies : BeginLoad(p)
  \/ sidtab_shutdown \/ clone_sid \/ CloneDone \/ convert_context
  \/ LoadFails \/ Install

Spec == Init /\ [][Next]_vars

-----------------------------------------------------------------------------
(* Properties.                                                             *)

(* The contexts that one context may turn into: the name stays, or is an   *)
(* alias that some policy resolves.                                        *)
Becomes ==
  {b \in Contexts \X Contexts :
     \/ b[2].name = b[1].name
     \/ \E p \in Policies : /\ b[1].name \in DOMAIN p.names
                             /\ b[2].name = p.names[b[1].name]}

SM == INSTANCE SidMap WITH known <- nodes, ready <- (load = "convert"),
                           Last <- SECINITSID_NUM

(* A SID above the initial ones, once given out, stands for its context,   *)
(* whatever form and range policies give that, for ever: through lookups   *)
(* of the same context at the same time, inserts that fail, and loads that *)
(* copy and convert the table while it is in use, finish or fail.          *)
ImplementsSidMap == SM!Spec

(* The SIDs that PIGA's tables can hold are neither SECSID_NULL nor the    *)
(* value UINT_MAX, which string_to_sid of the parser returns when it could *)
(* not ask, also when the counter has reached its end.                     *)
SidsInRange == \A n \in nodes : n[1] \in Sids
=============================================================================
