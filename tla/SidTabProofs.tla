---------------------------- MODULE SidTabProofs ----------------------------
(***************************************************************************)
(* Proofs about SidTab, for any numbers of clients, contexts, policies and *)
(* SIDs: the table implements SidMap and stays in the range of SIDs.       *)
(***************************************************************************)
EXTENDS SidTab, TLAPS

(* A table of SIDs below next, with one context for each.                  *)
Table(ns, next) ==
  /\ next \in 1 .. UINT_MAX
  /\ ns \subseteq Sids \X Contexts
  /\ \A n \in ns : n[1] < next
  /\ \A m, n \in ns : m[1] = n[1] => m = n

(* The new table holds, for every later SID of the table in use, what its  *)
(* context becomes, and no other later SID.                                *)
Carried ==
  /\ \A n \in Later(nodes) : \E m \in new_nodes : m[1] = n[1] /\ <<n[2], m[2]>> \in Becomes
  /\ \A m \in Later(new_nodes) : \E n \in nodes : n[1] = m[1]

(* The new table takes part of the table in use, which has stopped growing *)
(* by then; a node that is not converted yet is still the old one.         *)
Copy ==
  /\ load \in {"idle", "read", "clone", "convert"}
  /\ load \in {"clone", "convert"} => shutdown = TRUE
  /\ load # "idle" => newpolicydb \in Policies /\ Table(new_nodes, new_next)
  /\ load = "read" => Later(new_nodes) = {}
  /\ load = "clone" => Later(new_nodes) \subseteq nodes
  /\ load = "convert" => Carried /\ unconverted \subseteq Later(nodes) \cap new_nodes

(* The inductive invariant.                                                *)
TabInv ==
  /\ Table(nodes, next_sid)
  /\ client \in [Clients -> Contexts \cup {NoContext}]
  /\ Copy

-----------------------------------------------------------------------------
(* The initial SIDs of a policy are a table to start from.                 *)
LEMMA InitialTable ==
  ASSUME NEW p \in Policies, NEW next \in Counter(p.isids)
  PROVE  Table(p.isids, next) /\ Later(p.isids) = {}
<1>1. /\ p.isids \subseteq (1 .. SECINITSID_NUM) \X p.contexts
      /\ p.contexts \subseteq Contexts
      /\ \A m, n \in p.isids : m[1] = n[1] => m = n
  BY PolicyAssumption
<1>2. 1 .. SECINITSID_NUM \subseteq Sids /\ SECINITSID_NUM \in Nat
  BY SidAssumption DEF Sids
<1>3. p.isids \subseteq Sids \X Contexts
  BY <1>1, <1>2
<1>4. \A n \in p.isids : n[1] \in 1 .. SECINITSID_NUM
  BY <1>1
<1> QED
  BY <1>1, <1>2, <1>3, <1>4 DEF Table, Later, Counter

(* A fresh SID for an unknown context keeps the table in order.            *)
LEMMA Insertion ==
  ASSUME Table(nodes, next_sid), NEW c \in Contexts, ~Known(c), ~Full
  PROVE  /\ next_sid \in Sids
         /\ \A n \in nodes : n[1] # next_sid /\ n[2] # c
         /\ After(next_sid, next_sid) = next_sid + 1
         /\ Table(nodes \cup {<<next_sid, c>>}, next_sid + 1)
<1>1. next_sid \in Sids /\ next_sid + 1 \in 1 .. UINT_MAX /\ next_sid \in Nat
  BY SidAssumption DEF Table, Full, Sids
<1>2. \A n \in nodes : n[1] # next_sid /\ n[2] # c
  BY <1>1 DEF Table, Known, Sids
<1>3. After(next_sid, next_sid) = next_sid + 1
  BY <1>1 DEF After
<1> DEFINE new == <<next_sid, c>>
<1>4. new \in Sids \X Contexts /\ new[1] = next_sid /\ new[2] = c
  BY <1>1
<1> HIDE DEF new
<1>5. \A n \in nodes \cup {new} : n[1] < next_sid + 1
  BY <1>1, <1>4 DEF Table, Sids
<1>6. \A m, n \in nodes \cup {new} : m[1] = n[1] => m = n
  BY <1>2, <1>4 DEF Table
<1>7. Table(nodes \cup {new}, next_sid + 1)
  BY <1>1, <1>4, <1>5, <1>6 DEF Table
<1> QED
  BY <1>1, <1>2, <1>3, <1>7 DEF new

(* Whatever convert_context makes of a context keeps its name, or resolves *)
(* an alias.                                                               *)
LEMMA FormsBecome ==
  ASSUME NEW p, NEW q \in Policies, NEW c \in Contexts, NEW d \in Forms(p, q, c)
  PROVE  d \in Contexts /\ <<c, d>> \in Becomes
<1>1. /\ c.name \in Names /\ c.range \in Ranges \cup {NoRange}
      /\ c.form \in {"mapped", "string"}
      /\ c = [name |-> c.name, range |-> c.range, form |-> c.form]
  BY DEF Contexts
<1>2. ASSUME NEW ranges \in SUBSET (Ranges \cup {NoRange}), d \in Mapped(q, c, ranges)
      PROVE  /\ d \in Contexts
             /\ c.name \in DOMAIN q.names /\ d.name = q.names[c.name]
  <2>1. PICK x \in {c.name} \cap DOMAIN q.names, r \in ranges :
          d = [name |-> q.names[x], range |-> r, form |-> "mapped"]
    BY <1>2 DEF Mapped
  <2>2. q.names[x] \in Names
    BY PolicyAssumption
  <2> QED
    BY <2>1, <2>2 DEF Contexts
<1>3. \A r \in DOMAIN q.ranges : q.ranges[r] \in Ranges
  BY PolicyAssumption
<1>4. NewRange(p, q, c) \in SUBSET (Ranges \cup {NoRange})
  <2>1. \A n \in q.isids : n[2].range \in Ranges \cup {NoRange}
    <3>1. \A n \in q.isids : n[2] \in Contexts
      BY PolicyAssumption
    <3> QED
      BY <3>1 DEF Contexts
  <2> QED
    BY <1>3, <2>1 DEF NewRange
<1>5. ParsedRange(q, c) \in SUBSET (Ranges \cup {NoRange})
  BY <1>3 DEF ParsedRange
<1>6. CASE d = [c EXCEPT !.form = "string"] \/ d = c
  <2>1. d = [name |-> c.name, range |-> c.range, form |-> "string"] \/ d = c
    BY <1>1, <1>6
  <2>2. d \in Contexts /\ d.name = c.name
    BY <1>1, <2>1 DEF Contexts
  <2> QED
    BY <2>2 DEF Becomes
<1>7. CASE c.name \in DOMAIN q.names /\ d.name = q.names[c.name] /\ d \in Contexts
  BY <1>7 DEF Becomes
<1>8. \/ d \in Mapped(q, c, NewRange(p, q, c))
      \/ d \in Mapped(q, c, ParsedRange(q, c))
      \/ d = [c EXCEPT !.form = "string"] \/ d = c
  BY Zenon DEF Forms
<1> QED
  BY <1>2, <1>4, <1>5, <1>6, <1>7, <1>8

-----------------------------------------------------------------------------
LEMMA InitTabInv == Init => TabInv
<1> SUFFICES ASSUME Init PROVE TabInv
  OBVIOUS
<1>1. Table(nodes, next_sid)
  BY InitialTable DEF Init
<1>2. client \in [Clients -> Contexts \cup {NoContext}]
  BY DEF Init
<1>3. Copy
  BY DEF Init, Copy
<1> QED
  BY <1>1, <1>2, <1>3 DEF TabInv

(* The steps of a load before it is installed, on the new table.           *)
LEMMA CloneCopy ==
  ASSUME TabInv, clone_sid
  PROVE  Copy'
<1> PICK n \in ToClone : /\ new_nodes' = new_nodes \cup {n}
                         /\ new_next' = After(new_next, n[1])
  BY DEF clone_sid
<1>1. /\ load = "clone" /\ shutdown = TRUE /\ newpolicydb \in Policies
      /\ Table(new_nodes, new_next) /\ Later(new_nodes) \subseteq nodes
      /\ Table(nodes, next_sid)
  BY DEF clone_sid, TabInv, Copy
<1>2. n \in nodes /\ n \in Later(nodes) /\ n \in Sids \X Contexts
  BY <1>1 DEF ToClone, Later, Table
<1>3. n[1] \in Nat /\ n[1] < UINT_MAX /\ UINT_MAX \in Nat /\ SECINITSID_NUM \in Nat
  BY <1>2, SidAssumption DEF Sids
<1>4. new_next \in Nat /\ new_next <= UINT_MAX /\ 1 <= new_next
  BY <1>1, <1>3 DEF Table
<1>5. /\ new_next' \in 1 .. UINT_MAX
      /\ new_next <= new_next' /\ n[1] < new_next'
  BY <1>3, <1>4 DEF After
<1>6. \A m \in new_nodes' : m[1] < new_next'
  <2>1. \A m \in new_nodes : m[1] \in Nat /\ m[1] < new_next
    BY <1>1 DEF Table, Sids
  <2> QED
    BY <1>3, <1>4, <1>5, <2>1
<1>7. \A m \in new_nodes : m[1] = n[1] => m = n
  BY <1>1, <1>2 DEF Later, Table
<1>8. \A m, k \in new_nodes' : m[1] = k[1] => m = k
  BY <1>1, <1>7 DEF Table
<1>9. Table(new_nodes', new_next')
  BY <1>1, <1>2, <1>5, <1>6, <1>8 DEF Table
<1>10. Later(new_nodes') \subseteq nodes
  BY <1>1, <1>2 DEF Later
<1> QED
  BY <1>1, <1>9, <1>10 DEF clone_sid, tab, Copy, Later, Table

LEMMA CloneDoneCopy ==
  ASSUME TabInv, CloneDone
  PROVE  Copy'
<1>1. /\ load = "clone" /\ shutdown = TRUE /\ newpolicydb \in Policies
      /\ Table(new_nodes, new_next) /\ Later(new_nodes) \subseteq nodes
      /\ Table(nodes, next_sid) /\ Later(nodes) \subseteq new_nodes
  BY DEF CloneDone, TabInv, Copy, ToClone
<1>2. \A n \in Later(nodes) : \E m \in new_nodes : m[1] = n[1] /\ <<n[2], m[2]>> \in Becomes
  <2> TAKE n \in Later(nodes)
  <2>1. n \in new_nodes /\ n[2] \in Contexts
    BY <1>1 DEF Later, Table
  <2>2. <<n[2], n[2]>> \in Becomes
    BY <2>1 DEF Becomes
  <2> QED
    BY <2>1, <2>2
<1>3. Carried
  BY <1>1, <1>2 DEF Carried
<1>4. /\ unconverted' = Later(new_nodes) /\ load' = "convert"
      /\ UNCHANGED <<nodes, new_nodes, new_next, shutdown, newpolicydb>>
  BY DEF CloneDone, tab
<1>5. Carried'
  BY <1>3, <1>4 DEF Carried, Later
<1>6. Later(new_nodes) \subseteq Later(nodes) \cap new_nodes
  BY <1>1 DEF Later
<1> QED
  BY <1>1, <1>4, <1>5, <1>6 DEF Copy, Later, Table

LEMMA ConvertCopy ==
  ASSUME TabInv, convert_context
  PROVE  Copy'
<1>1. /\ load = "convert" /\ shutdown = TRUE /\ newpolicydb \in Policies
      /\ Table(new_nodes, new_next) /\ Table(nodes, next_sid)
      /\ Carried /\ unconverted \subseteq Later(nodes) \cap new_nodes
  BY DEF convert_context, TabInv, Copy
<1>2. PICK n \in unconverted : \E d \in Forms(policydb, newpolicydb, n[2]) :
        /\ new_nodes' = (new_nodes \ {n}) \cup {<<n[1], d>>}
        /\ unconverted' = unconverted \ {n}
  BY DEF convert_context
<1>3. PICK d \in Forms(policydb, newpolicydb, n[2]) :
        /\ new_nodes' = (new_nodes \ {n}) \cup {<<n[1], d>>}
        /\ unconverted' = unconverted \ {n}
  BY <1>2
<1>4. n \in nodes /\ n \in new_nodes /\ n[1] \in Sids /\ n[2] \in Contexts
  BY <1>1 DEF Later, Table
<1>5. d \in Contexts /\ <<n[2], d>> \in Becomes
  BY <1>1, <1>4, FormsBecome
<1> DEFINE new == <<n[1], d>>
<1>6. new \in Sids \X Contexts /\ new[1] = n[1] /\ new[2] = d
  BY <1>4, <1>5
<1>7. new_nodes' = (new_nodes \ {n}) \cup {new}
  BY <1>3
<1> HIDE DEF new
<1>8. Table(new_nodes', new_next)
  <2>1. \A m \in new_nodes' : m[1] < new_next
    BY <1>1, <1>4, <1>6, <1>7 DEF Table
  <2>2. \A m, k \in new_nodes' : m[1] = k[1] => m = k
    BY <1>1, <1>4, <1>6, <1>7 DEF Table
  <2> QED
    BY <1>1, <1>6, <1>7, <2>1, <2>2 DEF Table
<1>9. /\ load' = "convert"
      /\ UNCHANGED <<nodes, new_next, shutdown, newpolicydb>>
  BY <1>1 DEF convert_context, tab
<1>10. \A k \in Later(nodes) : \E m \in new_nodes' : m[1] = k[1] /\ <<k[2], m[2]>> \in Becomes
  <2> TAKE k \in Later(nodes)
  <2>1. k \in nodes
    BY DEF Later
  <2>2. CASE k = n
    BY <1>5, <1>6, <1>7, <2>2
  <2>3. CASE k # n
    <3>1. PICK m \in new_nodes : m[1] = k[1] /\ <<k[2], m[2]>> \in Becomes
      BY <1>1 DEF Carried
    <3>2. m # n
      BY <1>1, <1>4, <2>1, <2>3, <3>1 DEF Table
    <3> QED
      BY <1>7, <3>1, <3>2
  <2> QED
    BY <2>2, <2>3
<1>11. \A m \in Later(new_nodes') : \E k \in nodes : k[1] = m[1]
  BY <1>1, <1>4, <1>6, <1>7 DEF Carried, Later
<1>12. Carried'
  BY <1>9, <1>10, <1>11 DEF Carried, Later
<1>13. unconverted' \subseteq Later(nodes) \cap new_nodes'
  BY <1>1, <1>3
<1> QED
  BY <1>1, <1>8, <1>9, <1>12, <1>13 DEF Copy, Later, Table

LEMMA NextTabInv == TabInv /\ [Next]_vars => TabInv'
<1> SUFFICES ASSUME TabInv, [Next]_vars PROVE TabInv'
  OBVIOUS
<1> USE DEF tab, loading
<1>1. CASE \E t \in Clients : \E c \in Contexts : security_context_to_sid(t, c)
  <2>1. UNCHANGED <<tab, loading>> /\ client' \in [Clients -> Contexts \cup {NoContext}]
    BY <1>1 DEF security_context_to_sid, TabInv
  <2> QED
    BY <2>1 DEF TabInv, Copy, Table, Carried, Later
<1>2. ASSUME NEW t \in Clients, sidtab_context_to_sid(t) PROVE TabInv'
  <2>1. client[t] \in Contexts /\ client' \in [Clients -> Contexts \cup {NoContext}]
    BY <1>2 DEF TabInv, sidtab_context_to_sid
  <2>2. CASE /\ ~Known(client[t]) /\ ~Full /\ ~shutdown
             /\ nodes' = nodes \cup {<<next_sid, client[t]>>}
             /\ next_sid' = After(next_sid, next_sid)
    <3>1. Table(nodes', next_sid')
      BY <2>1, <2>2, Insertion DEF TabInv
    <3>2. load \in {"idle", "read"}
      BY <2>2 DEF TabInv, Copy
    <3>3. Copy'
      BY <1>2, <3>2 DEF sidtab_context_to_sid, TabInv, Copy, Later, Table
    <3> QED
      BY <2>1, <3>1, <3>3 DEF TabInv, Table
  <2>3. CASE UNCHANGED <<nodes, next_sid>>
    BY <1>2, <2>1, <2>3 DEF sidtab_context_to_sid, TabInv, Copy, Table, Carried, Later
  <2> QED
    BY <1>2, <2>2, <2>3 DEF sidtab_context_to_sid
<1>3. ASSUME NEW p \in Policies, BeginLoad(p) PROVE TabInv'
  <2>1. Table(new_nodes', new_next') /\ Later(new_nodes') = {}
    BY <1>3, InitialTable DEF BeginLoad
  <2>2. Copy'
    BY <1>3, <2>1 DEF BeginLoad, Copy, Table, Later
  <2> QED
    BY <1>3, <2>2 DEF BeginLoad, TabInv, Table
<1>4. CASE sidtab_shutdown
  BY <1>4 DEF sidtab_shutdown, TabInv, Copy, Table, Later
<1>5. CASE clone_sid
  BY <1>5, CloneCopy DEF clone_sid, TabInv, Table
<1>6. CASE CloneDone
  BY <1>6, CloneDoneCopy DEF CloneDone, TabInv, Table
<1>7. CASE convert_context
  BY <1>7, ConvertCopy DEF convert_context, TabInv, Table
<1>8. CASE LoadFails
  BY <1>8 DEF LoadFails, EndLoad, TabInv, Copy, Table
<1>9. CASE Install
  <2>1. Table(nodes', next_sid')
    BY <1>9 DEF Install, TabInv, Copy, Table
  <2>2. Copy'
    BY <1>9 DEF Install, EndLoad, Copy
  <2> QED
    BY <1>9, <2>1, <2>2 DEF Install, TabInv, Table
<1>10. CASE UNCHANGED vars
  BY <1>10 DEF vars, TabInv, Copy, Table, Carried, Later
<1> QED
  BY <1>1, <1>2, <1>3, <1>4, <1>5, <1>6, <1>7, <1>8, <1>9, <1>10 DEF Next

LEMMA AlwaysTabInv == Spec => []TabInv
BY InitTabInv, NextTabInv, PTL DEF Spec

-----------------------------------------------------------------------------
(* No SID is ever SECSID_NULL or UINT_MAX: sidtab_context_to_sid refuses   *)
(* before its counter can wrap, and a copied table counts on from there.   *)
THEOREM SidsStayInRange == Spec => []SidsInRange
<1>1. TabInv => SidsInRange
  BY DEF TabInv, Table, SidsInRange
<1> QED
  BY <1>1, AlwaysTabInv, PTL

(* Every step of the table in use is one of SidMap, or none.               *)
LEMMA StepImplements ==
  ASSUME TabInv, [Next]_vars
  PROVE  [SM!Next]_(SM!vars)
<1> USE DEF tab, loading
<1>1. ASSUME NEW t \in Clients, sidtab_context_to_sid(t)
      PROVE  \/ UNCHANGED <<nodes, load>>
             \/ \E s \in Sids : \E c \in Contexts : SM!Assign(s, c)
  <2>1. client[t] \in Contexts /\ load' = load
    BY <1>1 DEF TabInv, sidtab_context_to_sid
  <2>2. CASE nodes' = nodes
    BY <2>1, <2>2
  <2>3. CASE nodes' # nodes
    <3>1. ~Known(client[t]) /\ ~Full /\ nodes' = nodes \cup {<<next_sid, client[t]>>}
      BY <1>1, <2>3 DEF sidtab_context_to_sid
    <3>2. next_sid \in Sids /\ \A n \in nodes : n[1] # next_sid /\ n[2] # client[t]
      BY <2>1, <3>1, Insertion DEF TabInv
    <3>3. SM!Assign(next_sid, client[t])
      BY <2>1, <3>1, <3>2 DEF SM!Assign
    <3> QED
      BY <2>1, <3>2, <3>3
  <2> QED
    BY <2>2, <2>3
<1>2. ASSUME Install PROVE SM!Reload
  <2>1. /\ load = "convert" /\ load' = "idle" /\ nodes' = new_nodes
        /\ Table(new_nodes, new_next) /\ Carried
    BY <1>2 DEF Install, EndLoad, TabInv, Copy
  <2>2. \A m, n \in nodes' : m[1] = n[1] => m = n
    BY <2>1 DEF Table
  <2>3. \A n \in nodes : n[1] > SECINITSID_NUM =>
          \E m \in nodes' : m[1] = n[1] /\ <<n[2], m[2]>> \in Becomes
    BY <2>1 DEF Carried, Later
  <2>4. \A m \in nodes' : m[1] > SECINITSID_NUM => \E n \in nodes : n[1] = m[1]
    BY <2>1 DEF Carried, Later
  <2> QED
    BY <2>1, <2>2, <2>3, <2>4 DEF SM!Reload, SM!OneContextPerSid
<1>3. CASE \/ \E t \in Clients : \E c \in Contexts : security_context_to_sid(t, c)
           \/ \E p \in Policies : BeginLoad(p)
           \/ sidtab_shutdown \/ clone_sid \/ CloneDone \/ convert_context \/ LoadFails
           \/ UNCHANGED vars
  <2>1. nodes' = nodes
    BY <1>3 DEF security_context_to_sid, BeginLoad, sidtab_shutdown, clone_sid,
                CloneDone, convert_context, LoadFails, vars
  <2>2. CASE (load = "convert") = (load' = "convert")
    BY <2>1, <2>2 DEF SM!vars
  <2>3. CASE (load = "convert") # (load' = "convert")
    <3>1. SM!Prepare
      BY <2>1, <2>3 DEF SM!Prepare
    <3> QED
      BY <3>1 DEF SM!Next
  <2> QED
    BY <2>2, <2>3
<1> QED
  BY <1>1, <1>2, <1>3 DEF Next, SM!Next, SM!vars

(* The table in use implements SidMap: a SID above the initial ones keeps  *)
(* its context, in the form the policies give it, through every insert and *)
(* every load.                                                             *)
THEOREM SidsAreForever == Spec => ImplementsSidMap
<1>1. Init => SM!Init
  BY InitTabInv DEF Init, SM!Init, SM!OneContextPerSid, TabInv, Table
<1>2. TabInv /\ [Next]_vars => [SM!Next]_(SM!vars)
  BY StepImplements
<1> QED
  BY <1>1, <1>2, AlwaysTabInv, PTL DEF Spec, ImplementsSidMap, SM!Spec
=============================================================================
