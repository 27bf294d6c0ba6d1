-------------------------------- MODULE Avc ---------------------------------
(***************************************************************************)
(* The access vector cache behind avc_has_perm_flags.  Tasks look a        *)
(* decision up without a lock, under RCU; on a miss they ask the security  *)
(* server and insert its answer; a denial that is let through is written   *)
(* into the cache as a grant.  Meanwhile a policy load or a switch to      *)
(* enforcing flushes the cache, slot by slot.                              *)
(*                                                                         *)
(* What is done under the lock of one slot is one step.  So is a search:   *)
(* it takes effect when it follows the pointer to the node it returns, or  *)
(* the last one.  The order of the nodes in a slot is left out.            *)
(***************************************************************************)
EXTENDS Integers, FiniteSets, Sequences

CONSTANTS
  Tasks,
  Nodes,                \* the slab of avc_node_cachep
  None,                 \* no node, key, check or decision
  Keys,                 \* triples of source, target and class
  NumSlots, avc_hash,   \* AVC_CACHE_SLOTS, and the slot of every key
  Perms,
  Checks,               \* the checks that are made: key and requested
  Policies,             \* SELinux policies: allowed and permissive per key
  Threshold,            \* avc_cache_threshold
  Reclaim,              \* AVC_CACHE_RECLAIM
  MaxLoads              \* bound on the policies ever loaded

Slots == 0 .. (NumSlots - 1)
Decision == [allowed : SUBSET Perms, permissive : BOOLEAN]

ASSUME SizeAssumption ==
  /\ NumSlots \in Nat \ {0} /\ avc_hash \in [Keys -> Slots]
  /\ Threshold \in Nat /\ Reclaim \in Nat \ {0} /\ MaxLoads \in Nat
  /\ None \notin Nodes /\ IsFiniteSet(Nodes)
ASSUME PolicyAssumption ==
  /\ Policies \subseteq [Keys -> Decision]
  /\ Checks \subseteq [key : Keys, requested : (SUBSET Perms) \ {{}}]

VARIABLES
  loaded,           \* the policies, in the order they were loaded
  enforcing,        \* selinux_enforcing
  latest_notif, active_nodes,
  node,             \* the memory of every node
  task,             \* the frame of every task in avc_has_perm_noaudit
  reset,            \* the frames of the two callers of avc_ss_reset
  crossed           \* history: keys that were being written when a flush
                    \* passed their slot, or before it was announced

vars == <<loaded, enforcing, latest_notif, active_nodes, node, task, reset,
          crossed>>

latest_granting == Len(loaded)

Idle == [pc |-> "idle", chk |-> None, avd |-> None, hit |-> None, new |-> None]
Free == [state |-> "free", key |-> None, avd |-> None, readers |-> {}]
NoReset == [pc |-> "idle", slot |-> 0, seqno |-> 0]

Init ==
  /\ \E p \in Policies : loaded = <<p>>
  /\ enforcing \in BOOLEAN
  /\ latest_notif = 1 /\ active_nodes = 0
  /\ node = [n \in Nodes |-> Free]
  /\ task = [t \in Tasks |-> Idle]
  /\ reset = [r \in {"load", "enforce"} |-> NoReset]
  /\ crossed = {}

-----------------------------------------------------------------------------
(* Nodes.  A node is free, new (allocated, not yet in a slot), linked, or  *)
(* dead: out of its slot, and kept until the tasks that were inside an RCU *)
(* read section have left it.  RCU may free it later than that; here it    *)
(* does at once, the worst case for a task that still uses the node.       *)

LinkedNodes == {n \in Nodes : node[n].state = "linked"}
InSlot(h) == {n \in LinkedNodes : avc_hash[node[n].key] = h}
Found(key) == {n \in LinkedNodes : node[n].key = key}

(* The tasks inside a read section.                                        *)
Readers == {t \in Tasks : task[t].pc \notin {"idle", "compute"}}

DeadAtOnce(n) == Free

(* call_rcu with avc_node_free.                                            *)
Dead(n) == IF Readers = {} THEN Free
           ELSE [node[n] EXCEPT !.state = "dead", !.readers = Readers]

(* avc_node_delete for a set of nodes.                                     *)
Deleted(ns) == [n \in Nodes |-> IF n \in ns THEN Dead(n) ELSE node[n]]

(* avc_node_populate and the insertion of node n into its slot, with       *)
(* avc_node_replace for the nodes olds.                                    *)
Linked(n, key, avd, olds) ==
  [Deleted(olds) EXCEPT ![n] = [state |-> "linked", key |-> key, avd |-> avd,
                                readers |-> {}]]

-----------------------------------------------------------------------------
(* avc_has_perm_noaudit.                                                   *)

Goto(t, frame) == task' = [task EXCEPT ![t] = frame]
ServerKeeps == UNCHANGED <<loaded, enforcing, latest_notif, reset>>
CacheKeeps == UNCHANGED <<active_nodes, node>>

(* The decision carries the number of the policy that made it.             *)
security_compute_av(key) ==
  [allowed |-> loaded[latest_granting][key].allowed,
   permissive |-> loaded[latest_granting][key].permissive,
   seqno |-> latest_granting]

(* avc_lookup.  After a miss the read section is left.                     *)
avc_lookup(t, c) ==
  /\ task[t].pc = "idle"
  /\ \/ \E n \in Found(c.key) :
          Goto(t, [Idle EXCEPT !.pc = "decide", !.chk = c, !.hit = n])
     \/ Found(c.key) = {} /\ Goto(t, [Idle EXCEPT !.pc = "compute", !.chk = c])
  /\ CacheKeeps /\ ServerKeeps /\ UNCHANGED crossed

(* The security server decides, under its own lock and so by one policy,   *)
(* and a new read section begins.                                          *)
Compute(t) ==
  LET c == task[t].chk IN
  /\ task[t].pc = "compute"
  /\ Goto(t, [Idle EXCEPT !.pc = "admit", !.chk = c,
                          !.avd = security_compute_av(c.key)])
  /\ CacheKeeps /\ ServerKeeps /\ UNCHANGED crossed

(* What avc_reclaim_node may delete: a bounded number of nodes.  Which     *)
(* ones depends on lru_hint, moved by all tasks, and on the slots whose    *)
(* locks are taken, which it skips; it may find none at all.               *)
avc_reclaim_node == {ns \in SUBSET LinkedNodes : Cardinality(ns) <= Reclaim}

(* avc_alloc_node: from a slab that may have no node to give, with a       *)
(* reclaim when there are too many.  The frame goes on at pc then.         *)
avc_alloc_node(t, f, then) ==
  \E n \in Nodes : \E ns \in IF active_nodes + 1 > Threshold THEN avc_reclaim_node ELSE {{}} :
    /\ node[n].state = "free"
    /\ node' = [Deleted(ns) EXCEPT ![n].state = "new"]
    /\ active_nodes' = active_nodes + 1 - Cardinality(ns)
    /\ Goto(t, [f EXCEPT !.new = n, !.pc = then])

AdmittedAlways(avd) == TRUE

(* avc_latest_notif_update for an insertion.                               *)
Admitted(avd) == avd.seqno >= latest_notif

(* avc_insert, until it has its node.                                      *)
Admit(t) ==
  LET f == task[t] IN
  /\ f.pc = "admit"
  /\ \/ Admitted(f.avd) /\ avc_alloc_node(t, f, "link")
     \/ CacheKeeps /\ Goto(t, [f EXCEPT !.pc = "decide"])
  /\ crossed' = IF /\ Admitted(f.avd) /\ f.avd.seqno < latest_granting
                   /\ reset["load"].pc # "idle"
                THEN crossed \cup {f.chk.key} ELSE crossed
  /\ ServerKeeps

ReplacedNone(key) == {}

(* The node that avc_insert finds for its key and replaces.                *)
Replaced(key) == Found(key)

(* avc_insert, once it has its node.                                       *)
avc_insert(t) ==
  LET f == task[t]
      olds == Replaced(f.chk.key)
  IN
  /\ f.pc = "link"
  /\ node' = Linked(f.new, f.chk.key, f.avd, olds)
  /\ active_nodes' = active_nodes - Cardinality(olds)
  /\ Goto(t, [f EXCEPT !.pc = "decide", !.new = None])
  /\ UNCHANGED crossed /\ ServerKeeps

(* The decision is read where it is: in the cached node, or in the copy    *)
(* that the security server filled.                                        *)
TheAvd(f) == IF f.hit # None THEN node[f.hit].avd ELSE f.avd

(* Is a denial let through?                                                *)
Grants(chk, avd) == /\ ~(chk.requested \subseteq avd.allowed)
                    /\ ~enforcing \/ avd.permissive

(* The end of the read section; the caller has its copy of the decision.   *)
(* mem is what the section leaves in memory.                               *)
Leave(t, mem) ==
  /\ node' = [n \in Nodes |-> IF mem[n].readers = {t} THEN Free
                              ELSE [mem[n] EXCEPT !.readers = @ \ {t}]]
  /\ Goto(t, Idle)

(* All is allowed or the denial stands; or avc_update_node starts, if      *)
(* there is a node for it.                                                 *)
Decide(t) ==
  LET f == task[t]
      avd == TheAvd(f)
  IN
  /\ f.pc = "decide"
  /\ \/ Grants(f.chk, avd) /\ avc_alloc_node(t, [f EXCEPT !.avd = avd], "update")
     \/ Leave(t, node) /\ UNCHANGED active_nodes
  /\ ServerKeeps /\ UNCHANGED crossed

SameKey(key, avd) == Found(key)

(* The node a grant goes to: only one with the decision it was made on.    *)
SamePolicy(key, avd) == {n \in Found(key) : node[n].avd.seqno = avd.seqno}

KillUncounted(t, n) == Leave(t, [node EXCEPT ![n] = Free]) /\ UNCHANGED active_nodes

(* The unused node goes back to the slab.                                  *)
avc_node_kill(t, n) ==
  /\ Leave(t, [node EXCEPT ![n] = Free])
  /\ active_nodes' = active_nodes - 1

(* avc_update_node with AVC_CALLBACK_GRANT, once it has its node.  Its     *)
(* result is ignored.                                                      *)
avc_update_node(t) ==
  LET f == task[t]
      olds == SamePolicy(f.chk.key, f.avd)
  IN
  /\ f.pc = "update"
  /\ \/ \E n \in olds :
          /\ Leave(t, Linked(f.new, f.chk.key,
                       [node[n].avd EXCEPT !.allowed = @ \cup f.chk.requested], {n}))
          /\ active_nodes' = active_nodes - 1
     \/ olds = {} /\ avc_node_kill(t, f.new)
  /\ UNCHANGED crossed /\ ServerKeeps

-----------------------------------------------------------------------------
(* avc_ss_reset and its callers.  Loads and changes of Booleans hold       *)
(* sel_mutex, so one at a time resets; writes to enforce do not hold it.   *)

(* security_load_policy and security_set_bools, from the moment the new    *)
(* policy is in place under policy_rwlock.                                 *)
security_load_policy(p) ==
  /\ reset["load"].pc = "idle" /\ Len(loaded) < MaxLoads
  /\ loaded' = Append(loaded, p)
  /\ reset' = [reset EXCEPT !["load"] = [pc |-> "flush", slot |-> 0,
                                         seqno |-> latest_granting + 1]]
  /\ CacheKeeps /\ UNCHANGED <<enforcing, latest_notif, task, crossed>>

(* A change to enforcing flushes what was granted before.  A change back   *)
(* may come while it does; a second flush for the same reason does not.    *)
sel_write_enforce(b) ==
  /\ b # enforcing /\ (b => reset["enforce"].pc = "idle")
  /\ enforcing' = b
  /\ reset' = IF b THEN [reset EXCEPT !["enforce"].pc = "flush"] ELSE reset
  /\ CacheKeeps /\ UNCHANGED <<loaded, latest_notif, task, crossed>>

(* One round of avc_flush.                                                 *)
avc_flush(r) ==
  LET h == reset[r].slot IN
  /\ reset[r].pc = "flush"
  /\ node' = Deleted(InSlot(h))
  /\ active_nodes' = active_nodes - Cardinality(InSlot(h))
  /\ reset' = IF h + 1 < NumSlots THEN [reset EXCEPT ![r].slot = h + 1]
              ELSE [reset EXCEPT ![r].pc = "notify", ![r].slot = 0]
  /\ crossed' = crossed \cup
       {task[t].chk.key : t \in {t \in Tasks :
          /\ task[t].pc \in {"link", "update"}
          /\ avc_hash[task[t].chk.key] = h}}
  /\ UNCHANGED <<loaded, enforcing, latest_notif, task>>

(* The end of avc_ss_reset: avc_latest_notif_update.                       *)
Notify(r) ==
  /\ reset[r].pc = "notify"
  /\ latest_notif' = IF reset[r].seqno > latest_notif THEN reset[r].seqno ELSE latest_notif
  /\ reset' = [reset EXCEPT ![r] = NoReset]
  /\ CacheKeeps /\ UNCHANGED <<loaded, enforcing, task, crossed>>

-----------------------------------------------------------------------------
TaskStep(t) ==
  Compute(t) \/ Admit(t) \/ avc_insert(t) \/ Decide(t) \/ avc_update_node(t)

Next ==
  \/ \E t \in Tasks : \E c \in Checks : avc_lookup(t, c)
  \/ \E t \in Tasks : TaskStep(t)
  \/ \E p \in Policies : security_load_policy(p)
  \/ \E b \in BOOLEAN : sel_write_enforce(b)
  \/ \E r \in {"load", "enforce"} : avc_flush(r) \/ Notify(r)

Spec == Init /\ [][Next]_vars

-----------------------------------------------------------------------------
(* Properties.                                                             *)

(* A task that found a node can read it until it leaves its read section,  *)
(* although reclaim, flush, replacement and the task's own grant may take  *)
(* the node out of the cache meanwhile: it is not freed and not reused.    *)
HitStaysReadable ==
  \A t \in Tasks : task[t].hit # None =>
     /\ node[task[t].hit].state \in {"linked", "dead"}
     /\ node[task[t].hit].key = task[t].chk.key

(* active_nodes is the number of nodes in the cache or on the way into it, *)
(* on every path of insertion, replacement, failed grant, reclaim and      *)
(* flush; a drift would make avc_alloc_node reclaim always or never.       *)
ActiveNodesExact ==
  active_nodes = Cardinality({n \in Nodes : node[n].state \in {"new", "linked"}})

(* Tasks that miss together do not leave two nodes for a key: a search     *)
(* would find one, and a grant or replacement could change the other.      *)
OneNodePerKey == \A k \in Keys : Cardinality(Found(k)) <= 1

(* The decision that policy seqno made for the key of a cached node.       *)
Extra(n) == node[n].avd.allowed \ loaded[node[n].avd.seqno][node[n].key].allowed

(* When the system is enforcing, and was told so through the whole cache,  *)
(* the cache grants what the policy of the decision grants, or what was    *)
(* let through in a permissive domain of that same policy, unless a grant  *)
(* was under way in the slot when the flush passed.                        *)
GrantsFlushed ==
  (enforcing /\ reset["enforce"].pc = "idle") =>
     \A n \in LinkedNodes :
        Extra(n) # {} => \/ loaded[node[n].avd.seqno][node[n].key].permissive
                         \/ node[n].key \in crossed

(* Between policy loads the cache holds decisions of the current policy,   *)
(* unless an insertion was under way when the flush passed, or a decision  *)
(* was admitted after it and before the load was announced.                *)
CacheFresh ==
  reset["load"].pc = "idle" =>
     \A n \in LinkedNodes :
        node[n].avd.seqno = latest_granting \/ node[n].key \in crossed
=============================================================================
