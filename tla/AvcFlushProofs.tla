--------------------------- MODULE AvcFlushProofs ---------------------------
(***************************************************************************)
(* What a flush of the cache achieves, for any numbers of tasks, nodes,    *)
(* keys, slots and policies: the decisions that survive the load of a      *)
(* policy, and the grants that survive a switch to enforcing, are those    *)
(* that were being written when the flush passed.                          *)
(***************************************************************************)
EXTENDS AvcProofs

(* Decision a for key k was made by a policy that was loaded.              *)
Made(k, a) ==
  /\ a.seqno \in 1 .. latest_granting
  /\ a.permissive = loaded[a.seqno][k].permissive

(* It allows no more than that policy did.                                 *)
Within(k, a) == a.allowed \subseteq loaded[a.seqno][k].allowed

(* The flush r has not come to the slot of k yet.                          *)
Pending(r, k) == reset[r].pc = "flush" /\ avc_hash[k] >= reset[r].slot

(* Why the cache may hold a decision, and why it may hold a grant.         *)
Fresh(k, a) == a.seqno = latest_granting \/ k \in crossed \/ Pending("load", k)
Excused(k, a) == \/ loaded[a.seqno][k].permissive
                 \/ k \in crossed
                 \/ ~enforcing
                 \/ Pending("enforce", k)

Cached(k, a) == Fresh(k, a) /\ (Within(k, a) \/ Excused(k, a))

NodesGood(mem) ==
  \A n \in Nodes :
    /\ mem[n].state \in {"linked", "dead"} => Made(mem[n].key, mem[n].avd)
    /\ mem[n].state = "linked" => Cached(mem[n].key, mem[n].avd)

(* The decision in a frame, and what may be done with it.                  *)
FrameGood(f) ==
  /\ f.pc \notin {"idle", "compute"} /\ f.hit = None => Made(f.chk.key, f.avd)
  /\ f.pc \in {"admit", "link"} => Within(f.chk.key, f.avd)
  /\ f.pc = "link" => Fresh(f.chk.key, f.avd)
  /\ f.pc = "update" => Made(f.chk.key, f.avd) /\ Excused(f.chk.key, f.avd)

FramesGood == \A t \in Tasks : FrameGood(task[t])

(* Loads announce themselves when they have flushed the cache.             *)
ResetsGood ==
  /\ reset \in [{"load", "enforce"} -> [pc : {"idle", "flush", "notify"},
                                        slot : Slots, seqno : Nat]]
  /\ \A r \in {"load", "enforce"} : reset[r].pc # "flush" => reset[r].slot = 0
  /\ latest_notif \in Nat /\ latest_notif <= latest_granting
  /\ reset["load"].pc = "idle" => latest_notif = latest_granting
  /\ reset["load"].pc # "idle" => reset["load"].seqno = latest_granting
  /\ reset["enforce"].seqno = 0

(* The inductive invariant.                                                *)
FlushInv == CacheInv /\ NodesGood(node) /\ FramesGood /\ ResetsGood

-----------------------------------------------------------------------------
(* Operations on the memory.                                               *)

LEMMA DeletedGood ==
  ASSUME FlushInv, NEW ns, ns \subseteq LinkedNodes
  PROVE  NodesGood(Deleted(ns))
<1> DEFINE mem == Deleted(ns)
<1>1. \A n \in Nodes \ ns : mem[n] = node[n]
  BY DEF Deleted
<1>2. \A n \in ns : \/ mem[n].state = "free"
                    \/ /\ mem[n].state = "dead" /\ node[n].state = "linked"
                       /\ mem[n].key = node[n].key /\ mem[n].avd = node[n].avd
  <2> TAKE n \in ns
  <2>1. n \in Nodes /\ mem[n] = Dead(n) /\ node[n] \in Memory /\ node[n].state = "linked"
    BY DEF Deleted, LinkedNodes, FlushInv, CacheInv, NodesOK
  <2> QED
    BY <2>1 DEF Dead, Free, Memory
<1> HIDE DEF mem
<1>3. NodesGood(mem)
  <2> SUFFICES ASSUME NEW n \in Nodes
               PROVE  /\ mem[n].state \in {"linked", "dead"} => Made(mem[n].key, mem[n].avd)
                      /\ mem[n].state = "linked" => Cached(mem[n].key, mem[n].avd)
    BY DEF NodesGood
  <2>1. CASE n \in ns
    BY <1>2, <2>1 DEF FlushInv, NodesGood
  <2>2. CASE n \notin ns
    BY <1>1, <2>2 DEF FlushInv, NodesGood
  <2> QED
    BY <2>1, <2>2
<1> QED
  BY <1>3 DEF mem

LEMMA LinkedGood ==
  ASSUME FlushInv, NEW new \in Nodes, NEW k, NEW a, Made(k, a), Cached(k, a),
         NEW olds, olds \subseteq LinkedNodes
  PROVE  NodesGood(Linked(new, k, a, olds))
<1> DEFINE del == Deleted(olds)
           cell == [state |-> "linked", key |-> k, avd |-> a, readers |-> {}]
           mem == [del EXCEPT ![new] = cell]
<1>1. NodesGood(del)
  BY DeletedGood
<1>2. cell.key = k /\ cell.avd = a
  OBVIOUS
<1>3. mem[new] = cell /\ \A n \in Nodes \ {new} : mem[n] = del[n]
  BY DEF Deleted
<1> HIDE DEF del, cell, mem
<1>4. NodesGood(mem)
  BY <1>1, <1>2, <1>3 DEF NodesGood
<1> QED
  BY <1>4 DEF mem, del, cell, Linked

LEMMA LeftGood ==
  ASSUME NEW mem \in [Nodes -> Memory], NodesGood(mem), NEW t \in Tasks
  PROVE  NodesGood(Left(t, mem))
<1> DEFINE end == Left(t, mem)
<1>1. \A n \in Nodes : \/ end[n].state = "free"
                       \/ /\ end[n].state = mem[n].state
                          /\ end[n].key = mem[n].key /\ end[n].avd = mem[n].avd
  BY DEF Left, Free, Memory
<1> HIDE DEF end
<1>2. NodesGood(end)
  BY <1>1 DEF NodesGood
<1> QED
  BY <1>2 DEF end

LEMMA AllocGood ==
  ASSUME FlushInv, NEW t \in Tasks, NEW STATE f, f \in Frame,
         NEW then \in {"link", "update"}, avc_alloc_node(t, f, then)
  PROVE  /\ NodesGood(node')
         /\ task'[t].pc = then /\ task'[t].hit = f.hit
         /\ task'[t].chk = f.chk /\ task'[t].avd = f.avd
         /\ \A u \in Tasks \ {t} : task'[u] = task[u]
<1>1. PICK n \in Nodes, ns \in SUBSET LinkedNodes :
        /\ node[n].state = "free"
        /\ node' = [Deleted(ns) EXCEPT ![n].state = "new"]
        /\ Goto(t, [f EXCEPT !.new = n, !.pc = then])
  BY DEF avc_alloc_node, avc_reclaim_node
<1> DEFINE g == [f EXCEPT !.new = n, !.pc = then]
<1>2. g.pc = then /\ g.hit = f.hit /\ g.chk = f.chk /\ g.avd = f.avd
  BY DEF Frame
<1>3. task' = [task EXCEPT ![t] = g]
  BY <1>1 DEF Goto
<1> HIDE DEF g
<1>4. task'[t] = g /\ \A u \in Tasks \ {t} : task'[u] = task[u]
  BY <1>3 DEF FlushInv, CacheInv, FramesOK
<1> DEFINE del == Deleted(ns)
<1>5. NodesGood(del) /\ del \in [Nodes -> Memory]
  BY DeletedGood, DeletedOK DEF FlushInv, NodesOK
<1>6. node' = [del EXCEPT ![n].state = "new"]
  BY <1>1
<1> HIDE DEF del
<1>7. node'[n].state = "new" /\ \A m \in Nodes \ {n} : node'[m] = del[m]
  <2> DEFINE c == [del[n] EXCEPT !.state = "new"]
  <2>1. c.state = "new"
    <3>1. del[n] \in Memory
      BY <1>5
    <3> QED
      BY <3>1 DEF Memory
  <2>2. node' = [del EXCEPT ![n] = c]
    BY <1>6
  <2> HIDE DEF c
  <2> QED
    BY <1>5, <2>1, <2>2
<1>8. NodesGood(node')
  BY <1>5, <1>7 DEF NodesGood
<1> QED
  BY <1>2, <1>4, <1>8

-----------------------------------------------------------------------------
(* A step of task t keeps the invariant when what it leaves in memory and  *)
(* in its frame is good.                                                   *)
LEMMA TaskGood ==
  ASSUME FlushInv, CacheInv', NEW t \in Tasks, ServerKeeps, crossed \subseteq crossed',
         NodesGood(node'), FrameGood(task[t])',
         \A u \in Tasks \ {t} : task'[u] = task[u]
  PROVE  FlushInv'
<1> USE DEF ServerKeeps, latest_granting
<1>1. NodesGood(node)'
  BY DEF NodesGood, Made, Cached, Within, Fresh, Excused, Pending
<1>2. ASSUME NEW u \in Tasks \ {t} PROVE FrameGood(task[u])'
  <2>1. FrameGood(task[u]) /\ task'[u] = task[u]
    BY DEF FlushInv, FramesGood
  <2> QED
    BY <2>1 DEF FrameGood, Made, Within, Fresh, Excused, Pending
<1>3. FramesGood'
  BY <1>2 DEF FramesGood
<1>4. ResetsGood'
  BY DEF FlushInv, ResetsGood
<1> QED
  BY <1>1, <1>3, <1>4 DEF FlushInv

LEMMA LookupGood ==
  ASSUME FlushInv, CacheInv', NEW t \in Tasks, NEW c \in Checks, avc_lookup(t, c)
  PROVE  FlushInv'
<1>1. node' = node /\ UNCHANGED crossed /\ ServerKeeps
  BY DEF avc_lookup, CacheKeeps
<1>2. NodesGood(node')
  BY <1>1 DEF FlushInv
<1>3. CASE \E n \in Found(c.key) :
             Goto(t, [Idle EXCEPT !.pc = "decide", !.chk = c, !.hit = n])
  <2>1. PICK n \in Found(c.key) :
          Goto(t, [Idle EXCEPT !.pc = "decide", !.chk = c, !.hit = n])
    BY <1>3
  <2> DEFINE f == [Idle EXCEPT !.pc = "decide", !.chk = c, !.hit = n]
  <2>2. f.pc = "decide" /\ f.hit # None
    BY SizeAssumption DEF Idle, Found, LinkedNodes
  <2> HIDE DEF f
  <2>3. task'[t] = f /\ \A u \in Tasks \ {t} : task'[u] = task[u]
    BY <2>1 DEF f, Goto, FlushInv, CacheInv, FramesOK
  <2>4. FrameGood(task[t])'
    BY <2>2, <2>3 DEF FrameGood
  <2> QED
    BY <1>1, <1>2, <2>3, <2>4, TaskGood
<1>4. CASE Goto(t, [Idle EXCEPT !.pc = "compute", !.chk = c])
  <2> DEFINE f == [Idle EXCEPT !.pc = "compute", !.chk = c]
  <2>1. f.pc = "compute"
    BY DEF Idle
  <2> HIDE DEF f
  <2>2. task'[t] = f /\ \A u \in Tasks \ {t} : task'[u] = task[u]
    BY <1>4 DEF f, Goto, FlushInv, CacheInv, FramesOK
  <2>3. FrameGood(task[t])'
    BY <2>1, <2>2 DEF FrameGood
  <2> QED
    BY <1>1, <1>2, <2>2, <2>3, TaskGood
<1> QED
  BY <1>3, <1>4 DEF avc_lookup

LEMMA ComputeGood ==
  ASSUME FlushInv, CacheInv', NEW t \in Tasks, Compute(t)
  PROVE  FlushInv'
<1> DEFINE c == task[t].chk
           avd == security_compute_av(c.key)
           f == [Idle EXCEPT !.pc = "admit", !.chk = c, !.avd = avd]
<1>1. node' = node /\ UNCHANGED crossed /\ ServerKeeps /\ Goto(t, f)
  BY DEF Compute, CacheKeeps
<1>2. NodesGood(node')
  BY <1>1 DEF FlushInv
<1>3. Made(c.key, avd) /\ Within(c.key, avd)
  <2>1. latest_granting \in Nat /\ latest_granting > 0
    BY DEF latest_granting, FlushInv, CacheInv
  <2> QED
    BY <2>1 DEF security_compute_av, Made, Within
<1> HIDE DEF avd, c
<1>4. f.pc = "admit" /\ f.chk = c /\ f.avd = avd
  BY DEF Idle
<1> HIDE DEF f
<1>5. task'[t] = f /\ \A u \in Tasks \ {t} : task'[u] = task[u]
  BY <1>1 DEF Goto, FlushInv, CacheInv, FramesOK
<1>6. FrameGood(task[t])'
  BY <1>1, <1>3, <1>4, <1>5
     DEF FrameGood, Made, Within, ServerKeeps, latest_granting
<1> QED
  BY <1>1, <1>2, <1>5, <1>6, TaskGood

LEMMA AdmitGood ==
  ASSUME FlushInv, CacheInv', NEW t \in Tasks, Admit(t)
  PROVE  FlushInv'
<1> DEFINE f == task[t]
<1>1. /\ f.pc = "admit" /\ ServerKeeps /\ crossed \subseteq crossed'
      /\ \/ Admitted(f.avd) /\ avc_alloc_node(t, f, "link")
         \/ CacheKeeps /\ Goto(t, [f EXCEPT !.pc = "decide"])
  BY DEF Admit
<1>2. /\ f \in Frame /\ f.hit = None /\ f.avd.seqno \in Nat
      /\ Made(f.chk.key, f.avd) /\ Within(f.chk.key, f.avd)
  <2>1. f \in Frame /\ f.hit = None
    BY <1>1 DEF FlushInv, CacheInv, FramesOK, FrameOK
  <2>2. Made(f.chk.key, f.avd) /\ Within(f.chk.key, f.avd)
    BY <1>1, <2>1 DEF FlushInv, FramesGood, FrameGood
  <2>3. latest_granting \in Nat
    BY DEF FlushInv, ResetsGood, CacheInv, latest_granting
  <2> QED
    BY <2>1, <2>2, <2>3 DEF Made
<1>3. CASE Admitted(f.avd) /\ avc_alloc_node(t, f, "link")
  <2>1. /\ NodesGood(node')
        /\ task'[t].pc = "link" /\ task'[t].hit = f.hit
        /\ task'[t].chk = f.chk /\ task'[t].avd = f.avd
        /\ \A u \in Tasks \ {t} : task'[u] = task[u]
    BY <1>2, <1>3, AllocGood
  <2>2. f.avd.seqno = latest_granting \/ f.chk.key \in crossed'
    <3>1. CASE f.avd.seqno = latest_granting
      BY <3>1
    <3>2. CASE f.avd.seqno # latest_granting
      <4>1. f.avd.seqno < latest_granting
        BY <1>2, <3>2 DEF Made, latest_granting, FlushInv, CacheInv
      <4>2. reset["load"].pc # "idle"
        BY <1>2, <1>3, <4>1 DEF Admitted, FlushInv, ResetsGood, latest_granting, CacheInv
      <4> QED
        BY <1>3, <4>1, <4>2 DEF Admit
    <3> QED
      BY <3>1, <3>2
  <2>3. FrameGood(task[t])'
    BY <1>1, <1>2, <2>1, <2>2
       DEF FrameGood, Made, Within, Fresh, ServerKeeps, latest_granting
  <2> QED
    BY <1>1, <2>1, <2>3, TaskGood
<1>4. CASE CacheKeeps /\ Goto(t, [f EXCEPT !.pc = "decide"])
  <2> DEFINE g == [f EXCEPT !.pc = "decide"]
  <2>1. g.pc = "decide" /\ g.chk = f.chk /\ g.avd = f.avd
    BY <1>2 DEF Frame
  <2> HIDE DEF g
  <2>2. task'[t] = g /\ \A u \in Tasks \ {t} : task'[u] = task[u]
    BY <1>4 DEF g, Goto, FlushInv, CacheInv, FramesOK
  <2>3. FrameGood(task[t])'
    BY <1>1, <1>2, <2>1, <2>2 DEF FrameGood, Made, ServerKeeps, latest_granting
  <2>4. NodesGood(node')
    BY <1>4 DEF CacheKeeps, FlushInv
  <2> QED
    BY <1>1, <2>2, <2>3, <2>4, TaskGood
<1> QED
  BY <1>1, <1>3, <1>4

LEMMA InsertGood ==
  ASSUME FlushInv, CacheInv', NEW t \in Tasks, avc_insert(t)
  PROVE  FlushInv'
<1> DEFINE f == task[t]
           g == [f EXCEPT !.pc = "decide", !.new = None]
<1>1. /\ f.pc = "link" /\ ServerKeeps /\ UNCHANGED crossed /\ Goto(t, g)
      /\ node' = Linked(f.new, f.chk.key, f.avd, Found(f.chk.key))
  BY DEF avc_insert, Replaced
<1>2. /\ f \in Frame /\ f.hit = None /\ f.new \in Nodes
      /\ Made(f.chk.key, f.avd) /\ Cached(f.chk.key, f.avd)
  BY <1>1 DEF FlushInv, CacheInv, FramesOK, FrameOK, FramesGood, FrameGood, Cached,
     UsesOK, NewOK, Owner
<1>3. NodesGood(node')
  BY <1>1, <1>2, LinkedGood DEF Found
<1>4. g.pc = "decide" /\ g.chk = f.chk /\ g.avd = f.avd
  BY <1>2 DEF Frame
<1> HIDE DEF g
<1>5. task'[t] = g /\ \A u \in Tasks \ {t} : task'[u] = task[u]
  BY <1>1 DEF Goto, FlushInv, CacheInv, FramesOK
<1>6. FrameGood(task[t])'
  BY <1>1, <1>2, <1>4, <1>5 DEF FrameGood, Made, ServerKeeps, latest_granting
<1> QED
  BY <1>1, <1>3, <1>5, <1>6, TaskGood

LEMMA LeaveGood ==
  ASSUME FlushInv, CacheInv', NEW t \in Tasks, NEW STATE mem, mem \in [Nodes -> Memory],
         NodesGood(mem), Leave(t, mem), ServerKeeps, UNCHANGED crossed
  PROVE  FlushInv'
<1>1. node' = Left(t, mem) /\ task' = [task EXCEPT ![t] = Idle]
  BY DEF Leave, Left, Goto
<1>2. NodesGood(node')
  BY <1>1, LeftGood
<1>3. task'[t] = Idle /\ \A u \in Tasks \ {t} : task'[u] = task[u]
  BY <1>1 DEF FlushInv, CacheInv, FramesOK
<1>4. FrameGood(task[t])'
  BY <1>3 DEF FrameGood, Idle
<1> QED
  BY <1>2, <1>3, <1>4, TaskGood

LEMMA DecideGood ==
  ASSUME FlushInv, CacheInv', NEW t \in Tasks, Decide(t)
  PROVE  FlushInv'
<1> DEFINE f == task[t]
           avd == TheAvd(f)
           g == [f EXCEPT !.avd = avd]
<1>1. /\ f.pc = "decide" /\ ServerKeeps /\ UNCHANGED crossed
      /\ \/ Grants(f.chk, avd) /\ avc_alloc_node(t, g, "update")
         \/ Leave(t, node)
  BY DEF Decide
<1>2. f \in Frame /\ HitOK(node, t)
  BY DEF FlushInv, CacheInv, FramesOK, UsesOK
<1>3. avd \in Avd /\ Made(f.chk.key, avd)
  <2>1. CASE f.hit = None
    BY <1>1, <2>1 DEF TheAvd, FlushInv, CacheInv, FramesOK, FrameOK, FramesGood, FrameGood
  <2>2. CASE f.hit # None
    <3>1. f.hit \in Nodes /\ avd = node[f.hit].avd
      BY <1>2, <2>2 DEF Frame, TheAvd
    <3> QED
      BY <1>2, <2>2, <3>1 DEF HitOK, FlushInv, NodesGood, CacheInv, NodesOK
  <2> QED
    BY <2>1, <2>2
<1>4. CASE Grants(f.chk, avd) /\ avc_alloc_node(t, g, "update")
  <2>1. Excused(f.chk.key, avd)
    BY <1>3, <1>4 DEF Grants, Excused, Made
  <2> HIDE DEF avd
  <2>2. g \in Frame /\ g.chk = f.chk /\ g.avd = avd
    BY <1>2, <1>3 DEF Frame
  <2> HIDE DEF g
  <2>3. /\ NodesGood(node') /\ task'[t].pc = "update"
        /\ task'[t].chk = f.chk /\ task'[t].avd = avd
        /\ \A u \in Tasks \ {t} : task'[u] = task[u]
    BY <1>4, <2>2, AllocGood
  <2>4. FrameGood(task[t])'
    BY <1>1, <1>3, <2>1, <2>3
       DEF FrameGood, Made, Excused, Pending, ServerKeeps, latest_granting
  <2> QED
    BY <1>1, <2>3, <2>4, TaskGood
<1>5. CASE Leave(t, node)
  BY <1>1, <1>5, LeaveGood DEF FlushInv, CacheInv, NodesOK
<1> QED
  BY <1>1, <1>4, <1>5

LEMMA UpdateGood ==
  ASSUME FlushInv, CacheInv', NEW t \in Tasks, avc_update_node(t)
  PROVE  FlushInv'
<1> DEFINE f == task[t]
<1>1. /\ f.pc = "update" /\ ServerKeeps /\ UNCHANGED crossed
      /\ f.new \in Nodes /\ f.chk.key \in Keys /\ f.chk.requested \subseteq Perms
      /\ Owner(t) /\ Excused(f.chk.key, f.avd)
  BY PolicyAssumption DEF avc_update_node, FlushInv, CacheInv, FramesOK, FrameOK,
     FramesGood, FrameGood, UsesOK, NewOK, Owner
<1>2. ASSUME NEW n \in SamePolicy(f.chk.key, f.avd),
             Leave(t, Linked(f.new, f.chk.key,
                       [node[n].avd EXCEPT !.allowed = @ \cup f.chk.requested], {n}))
      PROVE  FlushInv'
  <2> DEFINE a == [node[n].avd EXCEPT !.allowed = @ \cup f.chk.requested]
             mem == Linked(f.new, f.chk.key, a, {n})
  <2>1. /\ n \in Nodes /\ node[n].state = "linked" /\ node[n].key = f.chk.key
        /\ node[n].avd.seqno = f.avd.seqno /\ {n} \subseteq LinkedNodes
        /\ n \in Found(f.chk.key)
    BY DEF SamePolicy, Found, LinkedNodes
  <2>2. /\ node[n].avd \in Avd /\ Made(f.chk.key, node[n].avd)
        /\ Fresh(f.chk.key, node[n].avd)
    BY <2>1 DEF FlushInv, CacheInv, NodesOK, NodesGood, Cached
  <2>3. /\ a \in Avd /\ a.seqno = node[n].avd.seqno
        /\ a.permissive = node[n].avd.permissive
    BY <1>1, <2>2 DEF Avd
  <2> HIDE DEF a
  <2>4. Made(f.chk.key, a) /\ Cached(f.chk.key, a)
    BY <1>1, <2>1, <2>2, <2>3 DEF Made, Cached, Fresh, Excused
  <2>5. NodesGood(mem)
    BY <1>1, <2>1, <2>4, LinkedGood
  <2>6. mem \in [Nodes -> Memory]
    <3>1. Found(f.chk.key) \subseteq {n}
      BY <2>1 DEF Found, LinkedNodes, FlushInv, CacheInv, NodesOK
    <3> QED
      BY <1>1, <2>1, <2>3, <3>1, LinkedOK DEF FlushInv, NodesOK
  <2>7. Leave(t, mem)
    BY <1>2 DEF a
  <2> HIDE DEF mem
  <2> QED
    BY <1>1, <2>5, <2>6, <2>7, LeaveGood
<1>3. CASE avc_node_kill(t, f.new)
  <2> DEFINE mem == [node EXCEPT ![f.new] = Free]
  <2>1. Leave(t, mem)
    BY <1>3 DEF avc_node_kill
  <2>2. mem \in [Nodes -> Memory] /\ mem[f.new] = Free
        /\ \A n \in Nodes \ {f.new} : mem[n] = node[n]
    BY <1>1, FreeIsMemory DEF FlushInv, CacheInv, NodesOK
  <2> HIDE DEF mem
  <2>3. NodesGood(mem)
    BY <2>2 DEF FlushInv, NodesGood, Free
  <2> QED
    BY <1>1, <2>1, <2>2, <2>3, LeaveGood
<1> QED
  BY <1>2, <1>3 DEF avc_update_node

-----------------------------------------------------------------------------
(* The keys of cached nodes, and those that tasks are about to write.      *)
LEMMA KeysAreKeys ==
  ASSUME CacheInv
  PROVE  /\ \A n \in LinkedNodes : node[n].key \in Keys
         /\ \A t \in Tasks : task[t].pc # "idle" => task[t].chk.key \in Keys
BY PolicyAssumption DEF CacheInv, NodesOK, LinkedNodes, FramesOK, FrameOK

(* With a new policy in place all that is cached is still to be flushed.   *)
LEMMA LoadGood ==
  ASSUME FlushInv, CacheInv', NEW p \in Policies, security_load_policy(p)
  PROVE  FlushInv'
<1>1. /\ loaded' = Append(loaded, p) /\ UNCHANGED <<node, task, crossed, enforcing, latest_notif>>
      /\ reset' = [reset EXCEPT !["load"] = [pc |-> "flush", slot |-> 0,
                                             seqno |-> latest_granting + 1]]
      /\ reset["load"].pc = "idle"
  BY DEF security_load_policy, CacheKeeps
<1>2. /\ latest_granting \in Nat /\ latest_granting' = latest_granting + 1
      /\ \A i \in 1 .. latest_granting : loaded'[i] = loaded[i]
  BY <1>1 DEF latest_granting, FlushInv, CacheInv
<1>3. /\ reset'["load"].pc = "flush" /\ reset'["load"].slot = 0
      /\ reset'["load"].seqno = latest_granting'
      /\ reset'["enforce"] = reset["enforce"]
  BY <1>1, <1>2 DEF FlushInv, ResetsGood
<1>4. /\ node' = node /\ task' = task /\ crossed' = crossed /\ enforcing' = enforcing
      /\ latest_granting \in Nat /\ latest_granting' = latest_granting + 1
      /\ \A i \in 1 .. latest_granting : i \in 1 .. latest_granting' /\ loaded'[i] = loaded[i]
  <2>1. node' = node /\ task' = task /\ crossed' = crossed /\ enforcing' = enforcing
    BY <1>1
  <2>2. \A i \in 1 .. latest_granting : i \in 1 .. (latest_granting + 1)
    BY <1>2
  <2> QED
    BY <1>2, <2>1, <2>2
<1>5. NodesGood(node)'
  <2> SUFFICES ASSUME NEW n \in Nodes
               PROVE  /\ node[n].state \in {"linked", "dead"} => Made(node[n].key, node[n].avd)'
                      /\ node[n].state = "linked" => Cached(node[n].key, node[n].avd)'
    BY <1>1 DEF NodesGood
  <2>1. ASSUME node[n].state \in {"linked", "dead"} PROVE Made(node[n].key, node[n].avd)'
    <3>1. Made(node[n].key, node[n].avd)
      BY <2>1 DEF FlushInv, NodesGood
    <3> QED
      BY <1>4, <3>1 DEF Made
  <2>2. ASSUME node[n].state = "linked" PROVE Cached(node[n].key, node[n].avd)'
    <3>1. /\ Made(node[n].key, node[n].avd) /\ Cached(node[n].key, node[n].avd)
          /\ node[n].key \in Keys
      BY <2>2 DEF FlushInv, NodesGood, CacheInv, NodesOK
    <3>2. Fresh(node[n].key, node[n].avd)'
      BY <1>3, <1>4, <3>1, SizeAssumption DEF Fresh, Pending, Slots
    <3>3. (Within(node[n].key, node[n].avd) \/ Excused(node[n].key, node[n].avd))'
      BY <1>3, <1>4, <3>1 DEF Made, Cached, Within, Excused, Pending
    <3> QED
      BY <3>2, <3>3 DEF Cached
  <2> QED
    BY <2>1, <2>2
<1>6. FramesGood'
  <2> SUFFICES ASSUME NEW t \in Tasks PROVE FrameGood(task[t])'
    BY DEF FramesGood
  <2>1. FrameGood(task[t]) /\ (task[t].pc # "idle" => task[t].chk.key \in Keys)
    BY KeysAreKeys DEF FlushInv, FramesGood
  <2>2. task[t].pc \in {"admit", "link"} => task[t].hit = None
    BY DEF FlushInv, CacheInv, FramesOK, FrameOK
  <2> DEFINE f == task[t]
  <2>3. ASSUME Made(f.chk.key, f.avd)
        PROVE  /\ Made(f.chk.key, f.avd)'
               /\ Within(f.chk.key, f.avd) => Within(f.chk.key, f.avd)'
               /\ Excused(f.chk.key, f.avd) => Excused(f.chk.key, f.avd)'
    BY <1>3, <1>4, <2>3 DEF Made, Within, Excused, Pending
  <2>4. f.pc = "link" => Fresh(f.chk.key, f.avd)'
    BY <1>3, <1>4, <2>1, SizeAssumption DEF Fresh, Pending, Slots
  <2> QED
    BY <1>4, <2>1, <2>2, <2>3, <2>4
       DEF FrameGood, Made, Within, Fresh, Excused, Pending
<1>7. ResetsGood'
  <2>1. [pc |-> "flush", slot |-> 0, seqno |-> latest_granting + 1]
          \in [pc : {"idle", "flush", "notify"}, slot : Slots, seqno : Nat]
    BY <1>2, SizeAssumption DEF Slots
  <2> QED
    BY <1>1, <1>2, <1>3, <2>1 DEF FlushInv, ResetsGood
<1> QED
  BY <1>5, <1>6, <1>7 DEF FlushInv

LEMMA EnforceGood ==
  ASSUME FlushInv, CacheInv', NEW b \in BOOLEAN, sel_write_enforce(b)
  PROVE  FlushInv'
<1>1. UNCHANGED <<loaded, node, task, crossed, latest_notif>> /\ enforcing' = b
  BY DEF sel_write_enforce, CacheKeeps
<1>2. /\ reset'["load"] = reset["load"]
      /\ b => reset'["enforce"].pc = "flush" /\ reset'["enforce"].slot = 0
      /\ ResetsGood'
  BY <1>1 DEF sel_write_enforce, FlushInv, ResetsGood, latest_granting
<1>3. NodesGood(node)'
  <2> SUFFICES ASSUME NEW n \in Nodes
               PROVE  /\ node[n].state \in {"linked", "dead"} => Made(node[n].key, node[n].avd)'
                      /\ node[n].state = "linked" => Cached(node[n].key, node[n].avd)'
    BY <1>1 DEF NodesGood
  <2>1. node[n].state \in {"linked", "dead"} => Made(node[n].key, node[n].avd)'
    BY <1>1 DEF FlushInv, NodesGood, Made, latest_granting
  <2>2. ASSUME node[n].state = "linked" PROVE Cached(node[n].key, node[n].avd)'
    <3>1. Fresh(node[n].key, node[n].avd) /\ node[n].key \in Keys
      BY <2>2 DEF FlushInv, NodesGood, Cached, CacheInv, NodesOK
    <3>2. Fresh(node[n].key, node[n].avd)'
      BY <1>1, <1>2, <3>1 DEF Fresh, Pending, latest_granting
    <3>3. Excused(node[n].key, node[n].avd)'
      BY <1>1, <1>2, <3>1, SizeAssumption DEF Excused, Pending, Slots
    <3> QED
      BY <3>2, <3>3 DEF Cached
  <2> QED
    BY <2>1, <2>2
<1>4. FramesGood'
  <2> SUFFICES ASSUME NEW t \in Tasks PROVE FrameGood(task[t])'
    BY DEF FramesGood
  <2> DEFINE f == task[t]
  <2>1. FrameGood(f) /\ (f.pc # "idle" => f.chk.key \in Keys) /\ task'[t] = f
    BY <1>1, KeysAreKeys DEF FlushInv, FramesGood
  <2>2. f.pc = "link" => Fresh(f.chk.key, f.avd)'
    BY <1>1, <1>2, <2>1 DEF FrameGood, Fresh, Pending, latest_granting
  <2>3. f.pc = "update" => Excused(f.chk.key, f.avd)'
    BY <1>1, <1>2, <2>1, SizeAssumption DEF Excused, Pending, Slots
  <2> QED
    BY <1>1, <2>1, <2>2, <2>3
       DEF FrameGood, Made, Within, Fresh, Excused, Pending, latest_granting
<1> QED
  BY <1>2, <1>3, <1>4 DEF FlushInv

(* When the flush has passed a slot, what is being written there is        *)
(* crossed, and what was cached there is gone.                             *)
LEMMA FlushGood ==
  ASSUME FlushInv, CacheInv', NEW r \in {"load", "enforce"}, avc_flush(r)
  PROVE  FlushInv'
<1> DEFINE h == reset[r].slot
<1>1. /\ UNCHANGED <<loaded, enforcing, latest_notif, task>> /\ crossed \subseteq crossed'
      /\ node' = Deleted(InSlot(h)) /\ reset[r].pc = "flush"
      /\ \A t \in Tasks : task[t].pc \in {"link", "update"} /\ avc_hash[task[t].chk.key] = h
                           => task[t].chk.key \in crossed'
  BY DEF avc_flush
<1>2. h \in Slots /\ h \in Nat /\ NumSlots \in Nat
  BY SizeAssumption DEF FlushInv, ResetsGood, Slots
<1>3. /\ ResetsGood'
      /\ \A q \in {"load", "enforce"} \ {r} : reset'[q] = reset[q]
      /\ \/ reset'[r].pc = "flush" /\ reset'[r].slot = h + 1
         \/ h + 1 = NumSlots
  <2> DEFINE Resets == {"load", "enforce"}
             Walks  == [pc : {"idle", "flush", "notify"}, slot : Slots, seqno : Nat]
  <2>1. /\ reset \in [Resets -> Walks]
        /\ \A q \in Resets : reset[q].pc # "flush" => reset[q].slot = 0
    BY DEF FlushInv, ResetsGood
  <2> DEFINE onto == [reset[r] EXCEPT !.slot = h + 1]
             over == [reset[r] EXCEPT !.pc = "notify", !.slot = 0]
             w    == IF h + 1 < NumSlots THEN onto ELSE over
  <2>2. /\ reset' = [reset EXCEPT ![r] = w]
        /\ w \in Walks /\ w.seqno = reset[r].seqno
        /\ \/ w.pc = "flush" /\ w.slot = h + 1
           \/ w.pc = "notify" /\ w.slot = 0 /\ h + 1 = NumSlots
    <3>1. CASE h + 1 < NumSlots
      <4>1. reset' = [reset EXCEPT ![r] = onto]
        BY <3>1 DEF avc_flush
      <4>2. h + 1 \in Slots /\ reset[r] \in Walks
        BY <1>2, <2>1, <3>1 DEF Slots
      <4>3. /\ onto \in Walks /\ onto.seqno = reset[r].seqno
            /\ onto.pc = "flush" /\ onto.slot = h + 1
        BY <1>1, <4>2
      <4> HIDE DEF onto, over
      <4> QED
        BY <3>1, <4>1, <4>3
    <3>2. CASE ~ (h + 1 < NumSlots)
      <4>1. reset' = [reset EXCEPT ![r] = over]
        BY <2>1, <3>2 DEF avc_flush
      <4>2. 0 \in Slots /\ reset[r] \in Walks /\ h + 1 = NumSlots
        BY <1>2, <2>1, <3>2 DEF Slots
      <4>3. /\ over \in Walks /\ over.seqno = reset[r].seqno
            /\ over.pc = "notify" /\ over.slot = 0
        BY <4>2
      <4> HIDE DEF onto, over
      <4> QED
        BY <3>2, <4>1, <4>2, <4>3
    <3> QED
      BY <3>1, <3>2
  <2> HIDE DEF w
  <2>3. /\ reset'[r] = w /\ reset' \in [Resets -> Walks]
        /\ \A q \in Resets \ {r} : reset'[q] = reset[q]
    BY <2>1, <2>2
  <2>4. \A q \in Resets : /\ reset'[q].pc # "flush" => reset'[q].slot = 0
                          /\ reset'[q].seqno = reset[q].seqno
                          /\ (reset'[q].pc = "idle") = (reset[q].pc = "idle")
    BY <1>1, <2>1, <2>2, <2>3
  <2>5. latest_granting' = latest_granting /\ latest_notif' = latest_notif
    BY <1>1 DEF latest_granting
  <2>6. ResetsGood'
    BY <2>3, <2>4, <2>5 DEF FlushInv, ResetsGood, Slots
  <2> QED
    BY <2>2, <2>3, <2>6
<1>4. ASSUME NEW k \in Keys, avc_hash[k] # h, NEW q \in {"load", "enforce"}, Pending(q, k)
      PROVE  Pending(q, k)'
  <2>1. avc_hash[k] \in Nat /\ avc_hash[k] < NumSlots
    BY <1>2, SizeAssumption DEF Slots
  <2>2. CASE q = r
    BY <1>2, <1>3, <1>4, <2>1, <2>2 DEF Pending
  <2>3. CASE q # r
    BY <1>3, <1>4, <2>3 DEF Pending
  <2> QED
    BY <2>2, <2>3
<1>5. NodesGood(node')
  BY <1>1, DeletedGood DEF InSlot
<1>6. \A n \in Nodes : node'[n].state = "linked" =>
                          node'[n].key \in Keys /\ avc_hash[node'[n].key] # h
  <2> SUFFICES ASSUME NEW n \in Nodes, node'[n].state = "linked"
               PROVE  node'[n].key \in Keys /\ avc_hash[node'[n].key] # h
    OBVIOUS
  <2>1. InSlot(h) \subseteq LinkedNodes
    BY DEF InSlot
  <2>2. n \notin InSlot(h) /\ node'[n] = node[n]
    BY <1>1, <2>1, DeletedOK DEF FlushInv
  <2> QED
    BY <2>2 DEF InSlot, LinkedNodes, FlushInv, CacheInv, NodesOK
<1>7. NodesGood(node)'
  <2> SUFFICES ASSUME NEW n \in Nodes
               PROVE  /\ node'[n].state \in {"linked", "dead"} => Made(node[n].key, node[n].avd)'
                      /\ node'[n].state = "linked" => Cached(node[n].key, node[n].avd)'
    BY DEF NodesGood
  <2>1. node'[n].state \in {"linked", "dead"} => Made(node[n].key, node[n].avd)'
    BY <1>1, <1>5 DEF NodesGood, Made, latest_granting
  <2>2. ASSUME node'[n].state = "linked" PROVE Cached(node[n].key, node[n].avd)'
    <3>1. Cached(node'[n].key, node'[n].avd) /\ node'[n].key \in Keys
          /\ avc_hash[node'[n].key] # h
      BY <1>5, <1>6, <2>2 DEF NodesGood
    <3>2. \A q \in {"load", "enforce"} :
            (reset[q].pc = "flush" /\ avc_hash[node'[n].key] >= reset[q].slot)
            => (reset'[q].pc = "flush" /\ avc_hash[node'[n].key] >= reset'[q].slot)
      BY <1>4, <3>1 DEF Pending
    <3> QED
      BY <1>1, <3>1, <3>2 DEF Cached, Fresh, Within, Excused, Pending, latest_granting
  <2> QED
    BY <2>1, <2>2
<1>8. FramesGood'
  <2> SUFFICES ASSUME NEW t \in Tasks PROVE FrameGood(task[t])'
    BY DEF FramesGood
  <2> DEFINE f == task[t]
  <2>1. FrameGood(f) /\ (f.pc # "idle" => f.chk.key \in Keys) /\ task'[t] = f
    BY <1>1, KeysAreKeys DEF FlushInv, FramesGood
  <2>2. f.pc = "link" => Fresh(f.chk.key, f.avd)'
    BY <1>1, <1>4, <2>1 DEF FrameGood, Fresh, Pending, latest_granting
  <2>3. f.pc = "update" => Excused(f.chk.key, f.avd)'
    BY <1>1, <1>4, <2>1 DEF FrameGood, Excused, Pending, latest_granting
  <2> QED
    BY <1>1, <2>1, <2>2, <2>3
       DEF FrameGood, Made, Within, Fresh, Excused, Pending, latest_granting
<1> QED
  BY <1>3, <1>7, <1>8 DEF FlushInv

LEMMA NotifyGood ==
  ASSUME FlushInv, CacheInv', NEW r \in {"load", "enforce"}, Notify(r)
  PROVE  FlushInv'
<1>1. /\ UNCHANGED <<loaded, enforcing, node, task, crossed>> /\ reset[r].pc = "notify"
      /\ \A q \in {"load", "enforce"} \ {r} : reset'[q] = reset[q]
  BY DEF Notify, CacheKeeps, FlushInv, ResetsGood
<1>2. \A k \in Keys, q \in {"load", "enforce"} : Pending(q, k) => Pending(q, k)'
  BY <1>1 DEF Pending
<1>3. NodesGood(node)'
  BY <1>1 DEF FlushInv, NodesGood, Made, Cached, Fresh, Within, Excused, Pending, latest_granting
<1>4. FramesGood'
  BY <1>1 DEF FlushInv, FramesGood, FrameGood, Made, Fresh, Within, Excused, Pending, latest_granting
<1>5. ResetsGood'
  <2>1. NoReset \in [pc : {"idle", "flush", "notify"}, slot : Slots, seqno : Nat]
        /\ NoReset.pc = "idle" /\ NoReset.slot = 0 /\ NoReset.seqno = 0
    BY SizeAssumption DEF NoReset, Slots
  <2>2. latest_granting \in Nat /\ latest_granting' = latest_granting
    BY <1>1 DEF latest_granting, FlushInv, CacheInv
  <2>3. CASE r = "load"
    BY <2>1, <2>2, <2>3 DEF Notify, FlushInv, ResetsGood
  <2>4. CASE r = "enforce"
    BY <2>1, <2>2, <2>4 DEF Notify, FlushInv, ResetsGood
  <2> QED
    BY <2>3, <2>4
<1> QED
  BY <1>3, <1>4, <1>5 DEF FlushInv

-----------------------------------------------------------------------------
LEMMA InitFlushInv == Init => FlushInv
<1> SUFFICES ASSUME Init PROVE FlushInv
  OBVIOUS
<1>1. CacheInv
  BY InitCacheInv
<1>2. NodesGood(node)
  BY DEF Init, NodesGood, Free
<1>3. FramesGood
  BY DEF Init, FramesGood, FrameGood, Idle
<1>4. ResetsGood
  <2>1. latest_granting = 1
    BY DEF Init, latest_granting
  <2> QED
    BY <2>1, SizeAssumption DEF Init, ResetsGood, NoReset, Slots
<1> QED
  BY <1>1, <1>2, <1>3, <1>4 DEF FlushInv

LEMMA NextFlushInv == FlushInv /\ [Next]_vars => FlushInv'
<1> SUFFICES ASSUME FlushInv, [Next]_vars PROVE FlushInv'
  OBVIOUS
<1>1. CacheInv'
  BY NextCacheInv DEF FlushInv
<1>2. CASE \E t \in Tasks : \E c \in Checks : avc_lookup(t, c)
  BY <1>1, <1>2, LookupGood
<1>3. CASE \E t \in Tasks : TaskStep(t)
  BY <1>1, <1>3, ComputeGood, AdmitGood, InsertGood, DecideGood, UpdateGood DEF TaskStep
<1>4. CASE \E p \in Policies : security_load_policy(p)
  BY <1>1, <1>4, LoadGood
<1>5. CASE \E b \in BOOLEAN : sel_write_enforce(b)
  BY <1>1, <1>5, EnforceGood
<1>6. CASE \E r \in {"load", "enforce"} : avc_flush(r) \/ Notify(r)
  BY <1>1, <1>6, FlushGood, NotifyGood
<1>7. CASE UNCHANGED vars
  BY <1>1, <1>7 DEF vars, FlushInv, NodesGood, FramesGood, FrameGood, ResetsGood, Made,
     Cached, Fresh, Within, Excused, Pending, latest_granting
<1> QED
  BY <1>2, <1>3, <1>4, <1>5, <1>6, <1>7 DEF Next

LEMMA AlwaysFlushInv == Spec => []FlushInv
BY InitFlushInv, NextFlushInv, PTL DEF Spec

(* After a load the cache holds decisions of the policy in force, except   *)
(* for keys whose insertion crossed the flush of avc_ss_reset or came      *)
(* between the flush and the update of latest_notif.                       *)
THEOREM CacheStaysFresh == Spec => []CacheFresh
<1>1. FlushInv => CacheFresh
  BY DEF FlushInv, NodesGood, Cached, Fresh, Pending, CacheFresh, LinkedNodes
<1> QED
  BY <1>1, AlwaysFlushInv, PTL

(* After a switch to enforcing the grants of avc_update_node are gone from *)
(* the cache, except those of permissive domains and those that crossed a  *)
(* flush; no grant ever goes to a decision of another policy.              *)
THEOREM GrantsAreFlushed == Spec => []GrantsFlushed
<1>1. FlushInv => GrantsFlushed
  BY DEF FlushInv, NodesGood, Cached, Within, Excused, Pending, GrantsFlushed, Extra,
     LinkedNodes
<1> QED
  BY <1>1, AlwaysFlushInv, PTL
=============================================================================
