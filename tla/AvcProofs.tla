----------------------------- MODULE AvcProofs ------------------------------
(***************************************************************************)
(* Proofs about Avc, for any numbers of tasks, nodes, keys, slots and      *)
(* policies: a node that a task uses is not freed, and no key has two.     *)
(***************************************************************************)
EXTENDS Avc, FiniteSetTheorems, TLAPS

Avd == [allowed : SUBSET Perms, permissive : BOOLEAN, seqno : Nat]

Frame == [pc : {"idle", "compute", "admit", "link", "decide", "update"},
          chk : Checks \cup {None}, avd : Avd \cup {None},
          hit : Nodes \cup {None}, new : Nodes \cup {None}]

Memory == [state : {"free", "new", "linked", "dead"},
           key : Keys \cup {None}, avd : Avd \cup {None}, readers : SUBSET Tasks]

(* What holds of a frame alone.                                            *)
FrameOK(f) ==
  /\ f \in Frame
  /\ f.pc # "idle" => f.chk \in Checks
  /\ f.hit # None => f.pc \in {"decide", "update"}
  /\ f.pc \notin {"idle", "compute"} /\ f.hit = None => f.avd \in Avd
  /\ f.pc = "update" => f.avd \in Avd

FramesOK == task \in [Tasks -> Frame] /\ \A t \in Tasks : FrameOK(task[t])

(* A memory in which every node that is or was in the cache has its data,  *)
(* only dead nodes are waited for, and no key is cached twice.             *)
NodesOK(mem) ==
  /\ mem \in [Nodes -> Memory]
  /\ \A n \in Nodes : mem[n].state \in {"linked", "dead"} =>
                         mem[n].key \in Keys /\ mem[n].avd \in Avd
  /\ \A n \in Nodes : mem[n].state # "dead" => mem[n].readers = {}
  /\ \A m, n \in Nodes : /\ mem[m].state = "linked" /\ mem[n].state = "linked"
                         /\ mem[m].key = mem[n].key
                         => m = n

(* A task finds the nodes it uses: the one that was found is cached or RCU *)
(* waits for the task; the new one is new.                                 *)
HitOK(mem, t) ==
  task[t].hit # None =>
    /\ mem[task[t].hit].key = task[t].chk.key
    /\ \/ mem[task[t].hit].state = "linked"
       \/ mem[task[t].hit].state = "dead" /\ t \in mem[task[t].hit].readers

Owner(t) == task[t].pc \in {"link", "update"}

NewOK(mem, t) ==
  Owner(t) => task[t].new \in Nodes /\ mem[task[t].new].state = "new"

UsesOK(mem, T) ==
  \A t \in T : HitOK(mem, t) /\ NewOK(mem, t)

NewsDiffer ==
  \A t, u \in Tasks : Owner(t) /\ Owner(u) /\ task[t].new = task[u].new => t = u

(* The inductive invariant.                                                *)
CacheInv ==
  /\ loaded \in Seq(Policies) /\ Len(loaded) > 0
  /\ FramesOK /\ NodesOK(node) /\ UsesOK(node, Tasks) /\ NewsDiffer

-----------------------------------------------------------------------------
(* The answers of the security server are decisions.                       *)
LEMMA ComputeAv ==
  ASSUME loaded \in Seq(Policies), Len(loaded) > 0, NEW k \in Keys
  PROVE  security_compute_av(k) \in Avd
<1>1. latest_granting \in Nat /\ loaded[latest_granting] \in Policies
  BY DEF latest_granting
<1>2. loaded[latest_granting][k] \in Decision
  BY <1>1, PolicyAssumption
<1> QED
  BY <1>1, <1>2 DEF security_compute_av, Avd, Decision

LEMMA FreeIsMemory == Free \in Memory
BY DEF Free, Memory

(* Deleting nodes of the cache leaves all tasks what they use.             *)
LEMMA DeletedOK ==
  ASSUME CacheInv, NEW ns, ns \subseteq LinkedNodes
  PROVE  /\ NodesOK(Deleted(ns)) /\ UsesOK(Deleted(ns), Tasks)
         /\ \A n \in Nodes \ ns : Deleted(ns)[n] = node[n]
         /\ \A n \in ns : Deleted(ns)[n].state \in {"free", "dead"}
<1> DEFINE mem == Deleted(ns)
<1>1. node \in [Nodes -> Memory] /\ ns \subseteq Nodes /\ Readers \subseteq Tasks
      /\ DOMAIN mem = Nodes
  BY DEF CacheInv, NodesOK, LinkedNodes, Readers, Deleted
<1>2. \A n \in Nodes \ ns : mem[n] = node[n]
  BY DEF Deleted
<1>3. \A n \in ns : \/ mem[n] = Free /\ Readers = {}
                    \/ /\ mem[n] \in Memory /\ mem[n].state = "dead"
                       /\ mem[n].readers = Readers
                       /\ mem[n].key = node[n].key /\ mem[n].avd = node[n].avd
                       /\ mem[n].key \in Keys /\ mem[n].avd \in Avd
  <2> TAKE n \in ns
  <2>1. n \in Nodes /\ mem[n] = Dead(n) /\ node[n] \in Memory
    BY <1>1 DEF Deleted
  <2>2. node[n].key \in Keys /\ node[n].avd \in Avd
    BY DEF LinkedNodes, CacheInv, NodesOK
  <2> QED
    BY <1>1, <2>1, <2>2 DEF Dead, Memory
<1>4. Free.state = "free" /\ Free.readers = {}
  BY DEF Free
<1> HIDE DEF mem
<1>5. NodesOK(mem)
  <2>1. mem \in [Nodes -> Memory]
    <3>1. \A n \in Nodes : mem[n] \in Memory
      BY <1>1, <1>2, <1>3, FreeIsMemory
    <3> QED
      BY <1>1, <3>1 DEF mem, Deleted
  <2>2. \A n \in Nodes : mem[n].state \in {"linked", "dead"} =>
                           mem[n].key \in Keys /\ mem[n].avd \in Avd
    BY <1>2, <1>3, <1>4 DEF CacheInv, NodesOK
  <2>3. \A n \in Nodes : mem[n].state # "dead" => mem[n].readers = {}
    BY <1>2, <1>3, <1>4 DEF CacheInv, NodesOK
  <2>4. \A n \in Nodes : mem[n].state = "linked" => mem[n] = node[n]
    BY <1>2, <1>3, <1>4
  <2> QED
    BY <2>1, <2>2, <2>3, <2>4 DEF CacheInv, NodesOK
<1>6. UsesOK(mem, Tasks)
  <2> SUFFICES ASSUME NEW t \in Tasks PROVE HitOK(mem, t) /\ NewOK(mem, t)
    BY DEF UsesOK
  <2>1. HitOK(mem, t)
    <3> SUFFICES ASSUME task[t].hit # None PROVE HitOK(mem, t)
      BY DEF HitOK
    <3> DEFINE h == task[t].hit
    <3>1. h \in Nodes /\ t \in Readers /\ HitOK(node, t)
      BY DEF CacheInv, FramesOK, FrameOK, Frame, Readers, UsesOK
    <3>2. CASE h \in ns
      BY <1>3, <3>1, <3>2 DEF HitOK
    <3>3. CASE h \notin ns
      BY <1>2, <3>1, <3>3 DEF HitOK
    <3> QED
      BY <3>2, <3>3
  <2>2. NewOK(mem, t)
    <3>1. NewOK(node, t)
      BY DEF CacheInv, UsesOK
    <3>2. Owner(t) => task[t].new \notin ns
      BY <3>1 DEF NewOK, LinkedNodes
    <3> QED
      BY <1>2, <3>1, <3>2 DEF NewOK
  <2> QED
    BY <2>1, <2>2
<1> QED
  BY <1>2, <1>3, <1>4, <1>5, <1>6 DEF mem

(* Inserting the own new node, in place of all others with its key, leaves *)
(* the other tasks what they use.                                          *)
LEMMA LinkedOK ==
  ASSUME CacheInv, NEW t \in Tasks, Owner(t), NEW k \in Keys, NEW a \in Avd,
         NEW olds, olds \subseteq LinkedNodes, Found(k) \subseteq olds
  PROVE  /\ NodesOK(Linked(task[t].new, k, a, olds))
         /\ UsesOK(Linked(task[t].new, k, a, olds), Tasks \ {t})
<1> DEFINE new == task[t].new
           del == Deleted(olds)
           cell == [state |-> "linked", key |-> k, avd |-> a, readers |-> {}]
           mem == [del EXCEPT ![new] = cell]
<1>1. NodesOK(del) /\ UsesOK(del, Tasks) /\ new \in Nodes
      /\ (\A n \in Nodes \ olds : del[n] = node[n])
      /\ (\A n \in olds : del[n].state \in {"free", "dead"})
  BY DeletedOK DEF CacheInv, UsesOK, NewOK
<1>2. cell \in Memory /\ cell.state = "linked" /\ cell.key = k /\ cell.avd = a
      /\ cell.readers = {}
  BY DEF Memory
<1>3. del[new].state = "new"
  BY <1>1 DEF UsesOK, NewOK
<1> HIDE DEF del, cell
<1>4. mem \in [Nodes -> Memory] /\ mem[new] = cell
      /\ \A n \in Nodes \ {new} : mem[n] = del[n]
  BY <1>1, <1>2 DEF NodesOK
<1>5. \A n \in Nodes : del[n].state = "linked" => del[n].key # k
  BY <1>1 DEF LinkedNodes, Found
<1> HIDE DEF mem
<1>6. NodesOK(mem)
  BY <1>1, <1>2, <1>4, <1>5 DEF NodesOK
<1>7. UsesOK(mem, Tasks \ {t})
  <2> SUFFICES ASSUME NEW u \in Tasks \ {t} PROVE HitOK(mem, u) /\ NewOK(mem, u)
    BY DEF UsesOK
  <2>1. HitOK(del, u) /\ NewOK(del, u)
    BY <1>1 DEF UsesOK
  <2>2. HitOK(mem, u)
    <3>1. task[u].hit # None => task[u].hit \in Nodes
      BY DEF CacheInv, FramesOK, Frame
    <3>2. task[u].hit # None => task[u].hit # new
      BY <1>3, <2>1 DEF HitOK
    <3> QED
      BY <1>4, <2>1, <3>1, <3>2 DEF HitOK
  <2>3. Owner(u) => task[u].new # new
    BY DEF CacheInv, NewsDiffer
  <2>4. NewOK(mem, u)
    BY <1>4, <2>1, <2>3 DEF NewOK
  <2> QED
    BY <2>2, <2>4
<1> QED
  BY <1>6, <1>7 DEF mem, del, cell, Linked

(* The memory when task t leaves its read section.                         *)
Left(t, mem) == [n \in Nodes |-> IF mem[n].readers = {t} THEN Free
                                 ELSE [mem[n] EXCEPT !.readers = @ \ {t}]]

(* Leaving a read section frees nothing that another task uses.            *)
LEMMA LeftOK ==
  ASSUME CacheInv, NEW t \in Tasks, NEW mem, NodesOK(mem), UsesOK(mem, Tasks \ {t})
  PROVE  NodesOK(Left(t, mem)) /\ UsesOK(Left(t, mem), Tasks \ {t})
<1> DEFINE end == Left(t, mem)
<1>1. \A n \in Nodes :
        \/ end[n] = Free /\ mem[n].readers = {t}
        \/ /\ end[n] \in Memory /\ end[n].state = mem[n].state
           /\ end[n].key = mem[n].key /\ end[n].avd = mem[n].avd
           /\ end[n].readers = mem[n].readers \ {t} /\ mem[n].readers # {t}
  BY DEF Left, NodesOK, Memory
<1>2. Free.state = "free" /\ Free.readers = {}
  BY DEF Free
<1>3. end \in [Nodes -> Memory]
  <2>1. \A n \in Nodes : end[n] \in Memory
    BY <1>1, FreeIsMemory
  <2> QED
    BY <2>1 DEF Left
<1> HIDE DEF end
<1>4. NodesOK(end)
  BY <1>1, <1>2, <1>3 DEF NodesOK
<1>5. UsesOK(end, Tasks \ {t})
  <2> SUFFICES ASSUME NEW u \in Tasks \ {t} PROVE HitOK(end, u) /\ NewOK(end, u)
    BY DEF UsesOK
  <2>1. HitOK(mem, u) /\ NewOK(mem, u)
    BY DEF UsesOK
  <2>2. HitOK(end, u)
    <3> SUFFICES ASSUME task[u].hit # None PROVE HitOK(end, u)
      BY DEF HitOK
    <3>1. task[u].hit \in Nodes
      BY DEF CacheInv, FramesOK, Frame
    <3>2. mem[task[u].hit].readers # {t}
      BY <2>1, <3>1 DEF HitOK, NodesOK
    <3> QED
      BY <1>1, <2>1, <3>1, <3>2 DEF HitOK
  <2>3. NewOK(end, u)
    <3>1. Owner(u) => task[u].new \in Nodes /\ mem[task[u].new].readers = {}
      BY <2>1 DEF NewOK, NodesOK
    <3> QED
      BY <1>1, <2>1, <3>1 DEF NewOK
  <2> QED
    BY <2>2, <2>3
<1> QED
  BY <1>4, <1>5 DEF end

-----------------------------------------------------------------------------
(* A step of task t keeps the invariant when it leaves the other tasks     *)
(* what they use and task t has what its new frame says.                   *)
LEMMA FrameStep ==
  ASSUME CacheInv, NEW t \in Tasks, loaded' = loaded, FramesOK',
         \A u \in Tasks \ {t} : task'[u] = task[u],
         NodesOK(node'), UsesOK(node', Tasks \ {t}),
         HitOK(node, t)', NewOK(node, t)',
         Owner(t)' => \A u \in Tasks \ {t} : Owner(u) => task[u].new # task'[t].new
  PROVE  CacheInv'
<1>1. UsesOK(node, Tasks)'
  BY DEF UsesOK, HitOK, NewOK, Owner
<1>2. NewsDiffer'
  BY DEF NewsDiffer, CacheInv, Owner
<1> QED
  BY <1>1, <1>2 DEF CacheInv

(* The frame of task t is set to one that is in order.                     *)
LEMMA GotoOK ==
  ASSUME FramesOK, NEW t \in Tasks, NEW STATE f, FrameOK(f), Goto(t, f)
  PROVE  /\ FramesOK' /\ task'[t] = f
         /\ \A u \in Tasks \ {t} : task'[u] = task[u]
<1>1. f \in Frame /\ task' = [task EXCEPT ![t] = f]
  BY DEF FrameOK, Goto
<1>2. task' \in [Tasks -> Frame] /\ task'[t] = f
      /\ \A u \in Tasks \ {t} : task'[u] = task[u]
  BY <1>1 DEF FramesOK
<1>3. \A u \in Tasks : FrameOK(task'[u])
  BY <1>2 DEF FramesOK
<1> QED
  BY <1>2, <1>3 DEF FramesOK

LEMMA IdleOK == FrameOK(Idle) /\ Idle.hit = None /\ Idle.pc = "idle"
BY DEF FrameOK, Idle, Frame

(* Task t leaves its read section.                                         *)
LEMMA LeaveOK ==
  ASSUME CacheInv, NEW t \in Tasks, NEW STATE mem, Leave(t, mem), loaded' = loaded,
         NodesOK(mem), UsesOK(mem, Tasks \ {t})
  PROVE  CacheInv'
<1>1. node' = Left(t, mem) /\ Goto(t, Idle)
  BY DEF Leave, Left
<1>2. NodesOK(node') /\ UsesOK(node', Tasks \ {t})
  BY <1>1, LeftOK
<1>3. FramesOK' /\ task'[t] = Idle /\ \A u \in Tasks \ {t} : task'[u] = task[u]
  BY <1>1, IdleOK, GotoOK DEF CacheInv
<1>4. HitOK(node, t)' /\ NewOK(node, t)' /\ ~Owner(t)'
  BY <1>3, IdleOK DEF HitOK, NewOK, Owner
<1> QED
  BY <1>2, <1>3, <1>4, FrameStep

(* Task t gets a new node and goes on at pc then.                          *)
LEMMA AllocOK ==
  ASSUME CacheInv, NEW t \in Tasks, NEW STATE f, NEW then \in {"link", "update"},
         avc_alloc_node(t, f, then), loaded' = loaded,
         FrameOK(f), f.pc # "idle", f.hit = task[t].hit, f.chk = task[t].chk,
         f.avd \in Avd, then = "link" => f.hit = None
  PROVE  CacheInv'
<1>1. PICK n \in Nodes, ns \in SUBSET LinkedNodes :
        /\ node[n].state = "free"
        /\ node' = [Deleted(ns) EXCEPT ![n].state = "new"]
        /\ Goto(t, [f EXCEPT !.new = n, !.pc = then])
  BY DEF avc_alloc_node, avc_reclaim_node
<1> DEFINE del == Deleted(ns)
           g == [f EXCEPT !.new = n, !.pc = then]
<1>2. /\ NodesOK(del) /\ UsesOK(del, Tasks) /\ n \notin ns
      /\ del[n] = node[n]
  BY <1>1, DeletedOK DEF LinkedNodes
<1>3. FrameOK(g) /\ g.new = n /\ g.pc = then /\ g.hit = f.hit /\ g.chk = f.chk
  BY <1>1 DEF FrameOK, Frame
<1> HIDE DEF g
<1>4. FramesOK' /\ task'[t] = g /\ \A u \in Tasks \ {t} : task'[u] = task[u]
  <2>1. Goto(t, g)
    BY <1>1 DEF g
  <2> QED
    BY <2>1, <1>3, GotoOK DEF CacheInv
<1> HIDE DEF del
<1>5. /\ node' \in [Nodes -> Memory] /\ node'[n].state = "new"
      /\ node'[n].readers = {}
      /\ \A m \in Nodes \ {n} : node'[m] = del[m]
  <2>1. node' = [del EXCEPT ![n].state = "new"]
    BY <1>1 DEF del
  <2>2. del[n].readers = {}
    BY <1>1, <1>2 DEF NodesOK
  <2>3. del \in [Nodes -> Memory] /\ n \in Nodes
    BY <1>2 DEF NodesOK
  <2> DEFINE c == [del[n] EXCEPT !.state = "new"]
  <2>4. c \in Memory /\ c.state = "new" /\ c.readers = {}
    <3>1. del[n] \in Memory
      BY <2>3
    <3> QED
      BY <2>2, <3>1 DEF Memory
  <2>5. node' = [del EXCEPT ![n] = c]
    BY <2>1
  <2> QED
    BY <2>3, <2>4, <2>5
<1>6. NodesOK(node')
  BY <1>2, <1>5 DEF NodesOK
<1>7. \A u \in Tasks : task[u].hit # None => task[u].hit \in Nodes \ {n}
  <2>1. \A u \in Tasks : task[u].hit # None => task[u].hit \in Nodes
    BY DEF CacheInv, FramesOK, Frame
  <2>2. \A u \in Tasks : task[u].hit # None => task[u].hit # n
    BY <1>1 DEF CacheInv, UsesOK, HitOK
  <2> QED
    BY <2>1, <2>2
<1>8. \A u \in Tasks : Owner(u) => task[u].new \in Nodes \ {n}
  BY <1>1 DEF CacheInv, UsesOK, NewOK
<1>9. UsesOK(node', Tasks \ {t})
  BY <1>2, <1>5, <1>7, <1>8 DEF UsesOK, HitOK, NewOK
<1>10. HitOK(node, t)' /\ NewOK(node, t)'
  BY <1>1, <1>2, <1>3, <1>4, <1>5, <1>7 DEF UsesOK, HitOK, NewOK
<1>11. \A u \in Tasks \ {t} : Owner(u) => task[u].new # task'[t].new
  BY <1>3, <1>4, <1>8
<1> QED
  BY <1>4, <1>6, <1>9, <1>10, <1>11, FrameStep

-----------------------------------------------------------------------------
LEMMA InitCacheInv == Init => CacheInv
<1> SUFFICES ASSUME Init PROVE CacheInv
  OBVIOUS
<1>1. loaded \in Seq(Policies) /\ Len(loaded) > 0
  BY DEF Init
<1>2. FramesOK /\ \A t \in Tasks : task[t] = Idle
  BY IdleOK DEF Init, FramesOK, FrameOK
<1>3. NodesOK(node)
  <2>1. \A n \in Nodes : node[n] = Free
    BY DEF Init
  <2>2. Free.state = "free" /\ Free.readers = {}
    BY DEF Free
  <2>3. node \in [Nodes -> Memory]
    BY FreeIsMemory DEF Init
  <2> QED
    BY <2>1, <2>2, <2>3 DEF NodesOK
<1>4. UsesOK(node, Tasks) /\ NewsDiffer
  BY <1>2, IdleOK DEF UsesOK, HitOK, NewOK, NewsDiffer, Owner
<1> QED
  BY <1>1, <1>2, <1>3, <1>4 DEF CacheInv

LEMMA LookupStep ==
  ASSUME CacheInv, NEW t \in Tasks, NEW c \in Checks, avc_lookup(t, c)
  PROVE  CacheInv'
<1>1. node' = node /\ loaded' = loaded /\ c.key \in Keys /\ task[t].pc = "idle"
  BY PolicyAssumption DEF avc_lookup, CacheKeeps, ServerKeeps
<1>2. NodesOK(node') /\ UsesOK(node', Tasks \ {t})
  BY <1>1 DEF CacheInv, UsesOK
<1>3. CASE \E n \in Found(c.key) :
             Goto(t, [Idle EXCEPT !.pc = "decide", !.chk = c, !.hit = n])
  <2>1. PICK n \in Found(c.key) :
          Goto(t, [Idle EXCEPT !.pc = "decide", !.chk = c, !.hit = n])
    BY <1>3
  <2> DEFINE f == [Idle EXCEPT !.pc = "decide", !.chk = c, !.hit = n]
  <2>2. n \in Nodes /\ node[n].state = "linked" /\ node[n].key = c.key /\ n # None
    BY SizeAssumption DEF Found, LinkedNodes
  <2>3. FrameOK(f) /\ f.hit = n /\ f.chk = c /\ f.pc = "decide"
    BY <2>2 DEF FrameOK, Frame, Idle
  <2> HIDE DEF f
  <2>4. FramesOK' /\ task'[t] = f /\ \A u \in Tasks \ {t} : task'[u] = task[u]
    BY <2>1, <2>3, GotoOK DEF f, CacheInv
  <2>5. HitOK(node, t)' /\ NewOK(node, t)' /\ ~Owner(t)'
    BY <1>1, <2>2, <2>3, <2>4 DEF HitOK, NewOK, Owner
  <2> QED
    BY <1>1, <1>2, <2>4, <2>5, FrameStep
<1>4. CASE Goto(t, [Idle EXCEPT !.pc = "compute", !.chk = c])
  <2> DEFINE f == [Idle EXCEPT !.pc = "compute", !.chk = c]
  <2>1. FrameOK(f) /\ f.hit = None /\ f.pc = "compute"
    BY DEF FrameOK, Frame, Idle
  <2> HIDE DEF f
  <2>2. FramesOK' /\ task'[t] = f /\ \A u \in Tasks \ {t} : task'[u] = task[u]
    BY <1>4, <2>1, GotoOK DEF f, CacheInv
  <2>3. HitOK(node, t)' /\ NewOK(node, t)' /\ ~Owner(t)'
    BY <2>1, <2>2 DEF HitOK, NewOK, Owner
  <2> QED
    BY <1>1, <1>2, <2>2, <2>3, FrameStep
<1> QED
  BY <1>3, <1>4 DEF avc_lookup

LEMMA ComputeStep ==
  ASSUME CacheInv, NEW t \in Tasks, Compute(t)
  PROVE  CacheInv'
<1> DEFINE c == task[t].chk
           avd == security_compute_av(c.key)
           f == [Idle EXCEPT !.pc = "admit", !.chk = c, !.avd = avd]
<1>1. node' = node /\ loaded' = loaded /\ task[t].pc = "compute" /\ Goto(t, f)
  BY DEF Compute, CacheKeeps, ServerKeeps
<1>2. NodesOK(node') /\ UsesOK(node', Tasks \ {t})
  BY <1>1 DEF CacheInv, UsesOK
<1>3. c \in Checks /\ c.key \in Keys
  BY <1>1, PolicyAssumption DEF CacheInv, FramesOK, FrameOK
<1>4. avd \in Avd
  BY <1>3, ComputeAv DEF CacheInv
<1> HIDE DEF avd, c
<1>5. FrameOK(f) /\ f.hit = None /\ f.pc = "admit"
  BY <1>3, <1>4 DEF FrameOK, Frame, Idle
<1> HIDE DEF f
<1>6. FramesOK' /\ task'[t] = f /\ \A u \in Tasks \ {t} : task'[u] = task[u]
  BY <1>1, <1>5, GotoOK DEF CacheInv
<1>7. HitOK(node, t)' /\ NewOK(node, t)' /\ ~Owner(t)'
  BY <1>5, <1>6 DEF HitOK, NewOK, Owner
<1> QED
  BY <1>1, <1>2, <1>6, <1>7, FrameStep

LEMMA AdmitStep ==
  ASSUME CacheInv, NEW t \in Tasks, Admit(t)
  PROVE  CacheInv'
<1> DEFINE f == task[t]
<1>1. /\ f.pc = "admit" /\ loaded' = loaded
      /\ \/ avc_alloc_node(t, f, "link")
         \/ CacheKeeps /\ Goto(t, [f EXCEPT !.pc = "decide"])
  BY DEF Admit, ServerKeeps
<1>2. FrameOK(f) /\ f.hit = None /\ f.avd \in Avd
  BY <1>1 DEF CacheInv, FramesOK, FrameOK
<1>3. CASE avc_alloc_node(t, f, "link")
  BY <1>1, <1>2, <1>3, AllocOK
<1>4. CASE CacheKeeps /\ Goto(t, [f EXCEPT !.pc = "decide"])
  <2> DEFINE g == [f EXCEPT !.pc = "decide"]
  <2>1. FrameOK(g) /\ g.hit = None /\ g.pc = "decide"
    BY <1>1, <1>2 DEF FrameOK, Frame
  <2> HIDE DEF g
  <2>2. FramesOK' /\ task'[t] = g /\ \A u \in Tasks \ {t} : task'[u] = task[u]
    BY <1>4, <2>1, GotoOK DEF g, CacheInv
  <2>3. HitOK(node, t)' /\ NewOK(node, t)' /\ ~Owner(t)'
    BY <2>1, <2>2 DEF HitOK, NewOK, Owner
  <2>4. NodesOK(node') /\ UsesOK(node', Tasks \ {t})
    BY <1>4 DEF CacheKeeps, CacheInv, UsesOK
  <2> QED
    BY <1>1, <2>2, <2>3, <2>4, FrameStep
<1> QED
  BY <1>1, <1>3, <1>4

LEMMA InsertStep ==
  ASSUME CacheInv, NEW t \in Tasks, avc_insert(t)
  PROVE  CacheInv'
<1> DEFINE f == task[t]
           g == [f EXCEPT !.pc = "decide", !.new = None]
<1>1. /\ f.pc = "link" /\ loaded' = loaded /\ Goto(t, g)
      /\ node' = Linked(f.new, f.chk.key, f.avd, Found(f.chk.key))
  BY DEF avc_insert, ServerKeeps, Replaced
<1>2. FrameOK(f) /\ f.hit = None /\ f.avd \in Avd /\ f.chk.key \in Keys /\ Owner(t)
  BY <1>1, PolicyAssumption DEF CacheInv, FramesOK, FrameOK, Owner
<1>3. NodesOK(node') /\ UsesOK(node', Tasks \ {t})
  BY <1>1, <1>2, LinkedOK DEF Found
<1>4. FrameOK(g) /\ g.hit = None /\ g.pc = "decide"
  BY <1>1, <1>2 DEF FrameOK, Frame
<1> HIDE DEF g
<1>5. FramesOK' /\ task'[t] = g /\ \A u \in Tasks \ {t} : task'[u] = task[u]
  BY <1>1, <1>4, GotoOK DEF CacheInv
<1>6. HitOK(node, t)' /\ NewOK(node, t)' /\ ~Owner(t)'
  BY <1>4, <1>5 DEF HitOK, NewOK, Owner
<1> QED
  BY <1>1, <1>3, <1>5, <1>6, FrameStep

LEMMA DecideStep ==
  ASSUME CacheInv, NEW t \in Tasks, Decide(t)
  PROVE  CacheInv'
<1> DEFINE f == task[t]
           avd == TheAvd(f)
           g == [f EXCEPT !.avd = avd]
<1>1. /\ f.pc = "decide" /\ loaded' = loaded
      /\ avc_alloc_node(t, g, "update") \/ Leave(t, node)
  BY DEF Decide, ServerKeeps
<1>2. FrameOK(f) /\ HitOK(node, t)
  BY DEF CacheInv, FramesOK, UsesOK
<1>3. avd \in Avd
  <2>1. f.hit # None => f.hit \in Nodes
    BY <1>2 DEF FrameOK, Frame
  <2> QED
    BY <1>1, <1>2, <2>1 DEF TheAvd, HitOK, FrameOK, CacheInv, NodesOK
<1> HIDE DEF avd
<1>4. /\ FrameOK(g) /\ g.avd \in Avd /\ g.pc = "decide"
      /\ g.hit = f.hit /\ g.chk = f.chk
  BY <1>1, <1>2, <1>3 DEF FrameOK, Frame
<1>5. CASE avc_alloc_node(t, g, "update")
  <2> HIDE DEF g
  <2> QED
    BY <1>1, <1>4, <1>5, AllocOK
<1>6. CASE Leave(t, node)
  BY <1>1, <1>6, LeaveOK DEF CacheInv, UsesOK
<1> QED
  BY <1>1, <1>5, <1>6

LEMMA UpdateStep ==
  ASSUME CacheInv, NEW t \in Tasks, avc_update_node(t)
  PROVE  CacheInv'
<1> DEFINE f == task[t]
<1>1. /\ f.pc = "update" /\ loaded' = loaded
      /\ FrameOK(f) /\ f.avd \in Avd /\ f.chk.key \in Keys /\ Owner(t)
      /\ f.chk.requested \subseteq Perms
      /\ f.new \in Nodes /\ node[f.new].state = "new"
  BY PolicyAssumption DEF avc_update_node, ServerKeeps, CacheInv, FramesOK, FrameOK,
     Owner, UsesOK, NewOK
<1>2. ASSUME NEW n \in SamePolicy(f.chk.key, f.avd),
             Leave(t, Linked(f.new, f.chk.key,
                       [node[n].avd EXCEPT !.allowed = @ \cup f.chk.requested], {n}))
      PROVE  CacheInv'
  <2> DEFINE a == [node[n].avd EXCEPT !.allowed = @ \cup f.chk.requested]
             mem == Linked(f.new, f.chk.key, a, {n})
  <2>1. n \in Found(f.chk.key) /\ n \in Nodes /\ node[n].state = "linked"
    BY DEF SamePolicy, Found, LinkedNodes
  <2>2. node[n].avd \in Avd
    BY <2>1 DEF CacheInv, NodesOK
  <2>3. a \in Avd
    BY <1>1, <2>2 DEF Avd
  <2>4. Found(f.chk.key) \subseteq {n} /\ {n} \subseteq LinkedNodes
    BY <2>1 DEF Found, LinkedNodes, CacheInv, NodesOK
  <2> HIDE DEF a
  <2>5. NodesOK(mem) /\ UsesOK(mem, Tasks \ {t})
    BY <1>1, <2>3, <2>4, LinkedOK
  <2>6. Leave(t, mem)
    BY <1>2 DEF a
  <2> HIDE DEF mem
  <2> QED
    BY <1>1, <2>5, <2>6, LeaveOK
<1>3. CASE avc_node_kill(t, f.new)
  <2> DEFINE mem == [node EXCEPT ![f.new] = Free]
  <2>1. Leave(t, mem)
    BY <1>3 DEF avc_node_kill
  <2>2. mem \in [Nodes -> Memory] /\ mem[f.new] = Free
        /\ \A n \in Nodes \ {f.new} : mem[n] = node[n]
    BY <1>1, FreeIsMemory DEF CacheInv, NodesOK
  <2>3. Free.state = "free" /\ Free.readers = {}
    BY DEF Free
  <2> HIDE DEF mem
  <2>4. NodesOK(mem)
    BY <2>2, <2>3 DEF CacheInv, NodesOK
  <2>5. UsesOK(mem, Tasks \ {t})
    <3> SUFFICES ASSUME NEW u \in Tasks \ {t} PROVE HitOK(mem, u) /\ NewOK(mem, u)
      BY DEF UsesOK
    <3>1. HitOK(node, u) /\ NewOK(node, u)
      BY DEF CacheInv, UsesOK
    <3>2. task[u].hit # None => task[u].hit \in Nodes \ {f.new}
      BY <1>1, <3>1 DEF CacheInv, FramesOK, Frame, HitOK
    <3>3. Owner(u) => task[u].new # f.new
      BY <1>1 DEF CacheInv, NewsDiffer
    <3> QED
      BY <2>2, <3>1, <3>2, <3>3 DEF HitOK, NewOK
  <2> QED
    BY <1>1, <2>1, <2>4, <2>5, LeaveOK
<1> QED
  BY <1>2, <1>3 DEF avc_update_node

LEMMA LoadStep ==
  ASSUME CacheInv, NEW p \in Policies, security_load_policy(p)
  PROVE  CacheInv'
<1>1. loaded' = Append(loaded, p) /\ UNCHANGED <<node, task>>
  BY DEF security_load_policy, CacheKeeps
<1>2. loaded' \in Seq(Policies) /\ Len(loaded') > 0
  BY <1>1 DEF CacheInv
<1> QED
  BY <1>1, <1>2 DEF CacheInv, FramesOK, UsesOK, HitOK, NewOK, Owner, NewsDiffer

LEMMA FlushStep ==
  ASSUME CacheInv, NEW r, avc_flush(r)
  PROVE  CacheInv'
<1> DEFINE ns == InSlot(reset[r].slot)
<1>1. node' = Deleted(ns) /\ UNCHANGED <<loaded, task>>
  BY DEF avc_flush
<1>2. ns \subseteq LinkedNodes
  BY DEF InSlot
<1> HIDE DEF ns
<1>3. NodesOK(node') /\ UsesOK(node', Tasks)
  BY <1>1, <1>2, DeletedOK
<1> QED
  BY <1>1, <1>3 DEF CacheInv, FramesOK, UsesOK, HitOK, NewOK, Owner, NewsDiffer

LEMMA NextCacheInv == CacheInv /\ [Next]_vars => CacheInv'
<1> SUFFICES ASSUME CacheInv, [Next]_vars PROVE CacheInv'
  OBVIOUS
<1>1. CASE \E t \in Tasks : \E c \in Checks : avc_lookup(t, c)
  BY <1>1, LookupStep
<1>2. CASE \E t \in Tasks : TaskStep(t)
  BY <1>2, ComputeStep, AdmitStep, InsertStep, DecideStep, UpdateStep DEF TaskStep
<1>3. CASE \E p \in Policies : security_load_policy(p)
  BY <1>3, LoadStep
<1>4. CASE UNCHANGED <<loaded, node, task>>
  BY <1>4 DEF CacheInv, FramesOK, UsesOK, HitOK, NewOK, Owner, NewsDiffer
<1>5. CASE \E b \in BOOLEAN : sel_write_enforce(b)
  BY <1>4, <1>5 DEF sel_write_enforce, CacheKeeps
<1>6. CASE \E r \in {"load", "enforce"} : avc_flush(r)
  BY <1>6, FlushStep
<1>7. CASE \E r \in {"load", "enforce"} : Notify(r)
  BY <1>4, <1>7 DEF Notify, CacheKeeps
<1>8. CASE UNCHANGED vars
  BY <1>4, <1>8 DEF vars
<1> QED
  BY <1>1, <1>2, <1>3, <1>5, <1>6, <1>7, <1>8 DEF Next

LEMMA AlwaysCacheInv == Spec => []CacheInv
BY InitCacheInv, NextCacheInv, PTL DEF Spec

(* The node that avc_lookup returned is neither freed nor reused before    *)
(* the task has left its read section.                                     *)
THEOREM HitsStayReadable == Spec => []HitStaysReadable
<1>1. CacheInv => HitStaysReadable
  BY DEF CacheInv, UsesOK, HitOK, HitStaysReadable
<1> QED
  BY <1>1, AlwaysCacheInv, PTL

(* Insertions and grants that run at the same time never leave two nodes   *)
(* for one key: each replaces what it finds under the lock of the slot.    *)
THEOREM KeysStayUnique == Spec => []OneNodePerKey
<1>1. CacheInv => OneNodePerKey
  <2> SUFFICES ASSUME CacheInv, NEW k \in Keys PROVE Cardinality(Found(k)) <= 1
    BY DEF OneNodePerKey
  <2>1. CASE Found(k) = {}
    BY <2>1, FS_EmptySet
  <2>2. ASSUME NEW n \in Found(k) PROVE Cardinality(Found(k)) <= 1
    <3>1. Found(k) = {n}
      BY DEF Found, LinkedNodes, CacheInv, NodesOK
    <3>2. Cardinality({n}) = 1
      BY FS_Singleton
    <3> QED
      BY <3>1, <3>2
  <2> QED
    BY <2>1, <2>2
<1> QED
  BY <1>1, AlwaysCacheInv, PTL

-----------------------------------------------------------------------------
(* The nodes that active_nodes counts.                                     *)
Active(mem) == {n \in Nodes : mem[n].state \in {"new", "linked"}}

CountInv == CacheInv /\ ActiveNodesExact

LEMMA ActiveFinite ==
  ASSUME NEW mem
  PROVE  IsFiniteSet(Active(mem)) /\ Cardinality(Active(mem)) \in Nat
<1>1. Active(mem) \subseteq Nodes /\ IsFiniteSet(Nodes)
  BY SizeAssumption DEF Active
<1>2. IsFiniteSet(Active(mem))
  BY <1>1, FS_Subset
<1> QED
  BY <1>2, FS_CardinalityType

(* Every node that is deleted was counted.                                 *)
LEMMA ActiveDeleted ==
  ASSUME CacheInv, NEW ns, ns \subseteq LinkedNodes
  PROVE  /\ Active(Deleted(ns)) = Active(node) \ ns
         /\ Cardinality(Active(Deleted(ns))) = Cardinality(Active(node)) - Cardinality(ns)
         /\ Cardinality(ns) \in Nat
<1>1. Active(Deleted(ns)) = Active(node) \ ns /\ ns \subseteq Active(node)
  BY DeletedOK DEF Active, LinkedNodes
<1>2. Active(node) \cap ns = ns
  BY <1>1
<1>3. IsFiniteSet(Active(node)) /\ IsFiniteSet(ns)
  BY <1>1, ActiveFinite, FS_Subset
<1> QED
  BY <1>1, <1>2, <1>3, FS_Difference, FS_CardinalityType

(* A new node, once linked, stays counted; those it replaces do not.       *)
LEMMA ActiveLinked ==
  ASSUME CacheInv, NEW t \in Tasks, Owner(t), NEW k, NEW a,
         NEW olds, olds \subseteq LinkedNodes
  PROVE  Cardinality(Active(Linked(task[t].new, k, a, olds)))
           = Cardinality(Active(node)) - Cardinality(olds)
<1> DEFINE del == Deleted(olds)
           cell == [state |-> "linked", key |-> k, avd |-> a, readers |-> {}]
           mem == [del EXCEPT ![task[t].new] = cell]
<1>1. task[t].new \in Nodes /\ del[task[t].new].state = "new" /\ DOMAIN del = Nodes
  BY DeletedOK DEF UsesOK, NewOK, Deleted
<1>2. cell.state = "linked"
  OBVIOUS
<1>3. mem[task[t].new] = cell /\ \A n \in Nodes \ {task[t].new} : mem[n] = del[n]
  BY <1>1 DEF Deleted
<1>4. Cardinality(Active(del)) = Cardinality(Active(node)) - Cardinality(olds)
  BY ActiveDeleted
<1> HIDE DEF del, cell, mem
<1>5. Active(mem) = Active(del)
  BY <1>1, <1>2, <1>3 DEF Active
<1>6. mem = Linked(task[t].new, k, a, olds)
  BY DEF mem, del, cell, Linked
<1> QED
  BY <1>4, <1>5, <1>6

(* What leaving a read section frees was not counted any more.             *)
LEMMA ActiveLeft ==
  ASSUME NEW t \in Tasks, NEW mem, NodesOK(mem)
  PROVE  Active(Left(t, mem)) = Active(mem)
<1>1. \A n \in Nodes : \/ Left(t, mem)[n].state = "free" /\ mem[n].state = "dead"
                       \/ Left(t, mem)[n].state = mem[n].state
  BY DEF Left, Free, NodesOK, Memory
<1> QED
  BY <1>1 DEF Active

LEMMA ActiveAlloc ==
  ASSUME CountInv, NEW t \in Tasks, NEW STATE f, NEW then, avc_alloc_node(t, f, then)
  PROVE  ActiveNodesExact'
<1>1. PICK n \in Nodes, ns \in SUBSET LinkedNodes :
        /\ node[n].state = "free"
        /\ node' = [Deleted(ns) EXCEPT ![n].state = "new"]
        /\ active_nodes' = active_nodes + 1 - Cardinality(ns)
  BY DEF avc_alloc_node, avc_reclaim_node
<1> DEFINE del == Deleted(ns)
<1>2. /\ del \in [Nodes -> Memory] /\ n \notin Active(del)
      /\ Cardinality(Active(del)) = Cardinality(Active(node)) - Cardinality(ns)
      /\ Cardinality(ns) \in Nat
  BY <1>1, DeletedOK, ActiveDeleted DEF CountInv, NodesOK, Active
<1>3. node' = [del EXCEPT ![n].state = "new"]
  BY <1>1
<1> HIDE DEF del
<1>4. node'[n].state = "new" /\ \A m \in Nodes \ {n} : node'[m] = del[m]
  <2> DEFINE c == [del[n] EXCEPT !.state = "new"]
  <2>1. c.state = "new"
    <3>1. del[n] \in Memory
      BY <1>2
    <3> QED
      BY <3>1 DEF Memory
  <2>2. node' = [del EXCEPT ![n] = c]
    BY <1>3
  <2> HIDE DEF c
  <2> QED
    BY <1>2, <2>1, <2>2
<1>5. Active(node') = Active(del) \cup {n}
  BY <1>4 DEF Active
<1>6. Cardinality(Active(node')) = Cardinality(Active(del)) + 1
  BY <1>2, <1>5, ActiveFinite, FS_AddElement
<1>7. active_nodes = Cardinality(Active(node)) /\ Cardinality(Active(node)) \in Nat
  BY ActiveFinite DEF CountInv, ActiveNodesExact, Active
<1>8. active_nodes' = Cardinality(Active(node'))
  BY <1>1, <1>2, <1>6, <1>7
<1> QED
  BY <1>8 DEF ActiveNodesExact, Active

LEMMA NextCountInv == CountInv /\ [Next]_vars => CountInv'
<1> SUFFICES ASSUME CountInv, [Next]_vars PROVE ActiveNodesExact'
  BY NextCacheInv DEF CountInv
<1>1. active_nodes = Cardinality(Active(node)) /\ Cardinality(Active(node)) \in Nat
  BY ActiveFinite DEF CountInv, ActiveNodesExact, Active
<1>2. SUFFICES \/ ActiveNodesExact'
               \/ active_nodes' = Cardinality(Active(node'))
  BY DEF ActiveNodesExact, Active
<1>3. CASE CacheKeeps
  BY <1>1, <1>3 DEF CacheKeeps
<1>4. ASSUME NEW t \in Tasks, Admit(t)
      PROVE  ActiveNodesExact' \/ active_nodes' = Cardinality(Active(node'))
  BY <1>3, <1>4, ActiveAlloc DEF Admit
<1>5. ASSUME NEW t \in Tasks, avc_insert(t)
      PROVE  active_nodes' = Cardinality(Active(node'))
  <2>1. /\ Owner(t)
        /\ node' = Linked(task[t].new, task[t].chk.key, task[t].avd, Found(task[t].chk.key))
        /\ active_nodes' = active_nodes - Cardinality(Found(task[t].chk.key))
    BY <1>5 DEF avc_insert, Replaced, Owner
  <2>2. Found(task[t].chk.key) \subseteq LinkedNodes
    BY DEF Found
  <2> QED
    BY <1>1, <2>1, <2>2, ActiveLinked DEF CountInv
<1>6. ASSUME NEW t \in Tasks, Decide(t)
      PROVE  ActiveNodesExact' \/ active_nodes' = Cardinality(Active(node'))
  <2>1. CASE Leave(t, node) /\ UNCHANGED active_nodes
    <3>1. node' = Left(t, node)
      BY <2>1 DEF Leave, Left
    <3> QED
      BY <1>1, <2>1, <3>1, ActiveLeft DEF CountInv, CacheInv
  <2> DEFINE g == [task[t] EXCEPT !.avd = TheAvd(task[t])]
  <2>2. CASE avc_alloc_node(t, g, "update")
    <3> HIDE DEF g
    <3> QED
      BY <2>2, ActiveAlloc
  <2> QED
    BY <1>6, <2>1, <2>2 DEF Decide
<1>7. ASSUME NEW t \in Tasks, avc_update_node(t)
      PROVE  active_nodes' = Cardinality(Active(node'))
  <2> DEFINE f == task[t]
  <2>1. /\ FrameOK(f) /\ f.chk.key \in Keys /\ Owner(t) /\ f.chk.requested \subseteq Perms
        /\ f.new \in Nodes /\ node[f.new].state = "new"
    BY <1>7, PolicyAssumption DEF avc_update_node, CountInv, CacheInv, FramesOK, FrameOK,
       Owner, UsesOK, NewOK
  <2>2. ASSUME NEW n \in SamePolicy(f.chk.key, f.avd),
               Leave(t, Linked(f.new, f.chk.key,
                         [node[n].avd EXCEPT !.allowed = @ \cup f.chk.requested], {n})),
               active_nodes' = active_nodes - 1
        PROVE  active_nodes' = Cardinality(Active(node'))
    <3> DEFINE a == [node[n].avd EXCEPT !.allowed = @ \cup f.chk.requested]
               mem == Linked(f.new, f.chk.key, a, {n})
    <3>1. n \in Found(f.chk.key) /\ n \in Nodes /\ node[n].state = "linked"
      BY DEF SamePolicy, Found, LinkedNodes
    <3>2. node[n].avd \in Avd
      BY <3>1 DEF CountInv, CacheInv, NodesOK
    <3>3. a \in Avd
      BY <2>1, <3>2 DEF Avd
    <3>4. Found(f.chk.key) \subseteq {n} /\ {n} \subseteq LinkedNodes
      BY <3>1 DEF Found, LinkedNodes, CountInv, CacheInv, NodesOK
    <3>5. node' = Left(t, mem)
      BY <2>2 DEF Leave, Left
    <3> HIDE DEF a
    <3>6. NodesOK(mem)
      BY <2>1, <3>3, <3>4, LinkedOK DEF CountInv
    <3>7. Cardinality(Active(mem)) = Cardinality(Active(node)) - Cardinality({n})
      BY <2>1, <3>4, ActiveLinked DEF CountInv
    <3>8. Cardinality({n}) = 1
      BY FS_Singleton
    <3> HIDE DEF mem
    <3>9. Active(node') = Active(mem)
      BY <3>5, <3>6, ActiveLeft
    <3> QED
      BY <1>1, <2>2, <3>7, <3>8, <3>9
  <2>3. CASE avc_node_kill(t, f.new)
    <3> DEFINE mem == [node EXCEPT ![f.new] = Free]
    <3>1. node' = Left(t, mem) /\ active_nodes' = active_nodes - 1
      BY <2>3 DEF avc_node_kill, Leave, Left
    <3>2. mem \in [Nodes -> Memory] /\ mem[f.new] = Free
          /\ \A n \in Nodes \ {f.new} : mem[n] = node[n]
      BY <2>1, FreeIsMemory DEF CountInv, CacheInv, NodesOK
    <3>3. Free.state = "free" /\ Free.readers = {}
      BY DEF Free
    <3> HIDE DEF mem
    <3>4. NodesOK(mem)
      BY <3>2, <3>3 DEF CountInv, CacheInv, NodesOK
    <3>5. Active(mem) = Active(node) \ {f.new} /\ f.new \in Active(node)
      BY <2>1, <3>2, <3>3 DEF Active
    <3>6. Cardinality(Active(mem)) = Cardinality(Active(node)) - 1
      <4>1. IsFiniteSet(Active(node))
        BY ActiveFinite
      <4>2. Cardinality(Active(node) \ {f.new}) = Cardinality(Active(node)) - 1
        BY <3>5, <4>1, FS_RemoveElement
      <4> QED
        BY <3>5, <4>2
    <3>7. Active(node') = Active(mem)
      BY <3>1, <3>4, ActiveLeft
    <3> QED
      BY <1>1, <3>1, <3>6, <3>7
  <2> QED
    BY <1>7, <2>2, <2>3 DEF avc_update_node
<1>8. ASSUME NEW r, avc_flush(r)
      PROVE  active_nodes' = Cardinality(Active(node'))
  <2> DEFINE ns == InSlot(reset[r].slot)
  <2>1. /\ node' = Deleted(ns) /\ active_nodes' = active_nodes - Cardinality(ns)
        /\ ns \subseteq LinkedNodes
    BY <1>8 DEF avc_flush, InSlot
  <2> HIDE DEF ns
  <2> QED
    BY <1>1, <2>1, ActiveDeleted DEF CountInv
<1>9. CASE UNCHANGED vars
  BY <1>3, <1>9 DEF vars, CacheKeeps
<1> QED
  BY <1>3, <1>4, <1>5, <1>6, <1>7, <1>8, <1>9
     DEF Next, TaskStep, avc_lookup, Compute, security_load_policy, sel_write_enforce, Notify

(* active_nodes counts what is in the cache or on the way into it, however *)
(* insertions, grants, reclaims and flushes interleave.                    *)
THEOREM CountStaysExact == Spec => []ActiveNodesExact
<1>1. Init => CountInv
  <2> SUFFICES ASSUME Init PROVE ActiveNodesExact
    BY InitCacheInv DEF CountInv
  <2>1. Active(node) = {} /\ active_nodes = 0
    BY DEF Init, Active, Free
  <2> QED
    BY <2>1, FS_EmptySet DEF ActiveNodesExact, Active
<1>2. CountInv => ActiveNodesExact
  BY DEF CountInv
<1> QED
  BY <1>1, <1>2, NextCountInv, PTL DEF Spec
=============================================================================
