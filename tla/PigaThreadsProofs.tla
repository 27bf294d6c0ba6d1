-------------------------- MODULE PigaThreadsProofs --------------------------
(***************************************************************************)
(* Memory of the PIGA monitor for every number of tasks, loaders, blocks   *)
(* and every set of policies: no block is lost, and as long as calls take  *)
(* turns the tables are used only while they live, inside their bounds.    *)
(***************************************************************************)
EXTENDS PigaThreads, TLAPS

Globals == {"seq", "link", "s_len", "l_len"}
Pointers == Blocks \cup {Null}

LoadPcs == {"allocS", "copyS", "allocL", "copyL", "freeS", "freeL", "publish"}
LoadFrame == [pc : LoadPcs, p : Policies, s : Pointers, l : Pointers,
              todo : (SUBSET Globals) \ {{}}]

(* What the frame of a loader says of its blocks.                          *)
LoaderOK(f) ==
  \/ f = Idle
  \/ /\ f \in LoadFrame
     /\ f.s = Null <=> f.pc = "allocS"
     /\ f.l = Null <=> f.pc \in {"allocS", "copyS", "allocL"}
     /\ f.s # Null => f.s # f.l
     /\ f.pc # "publish" => f.todo = Globals

(* The blocks a loader with frame f has to free or to publish.             *)
Owns(f, b) ==
  /\ f.pc # "idle"
  /\ \/ b = f.s /\ "seq" \in f.todo
     \/ b = f.l /\ "link" \in f.todo

(* Between the vfree of a table and the assignment to its pointer.         *)
SeqGone == \E d \in Loaders : \/ loader[d].pc = "freeL"
                              \/ loader[d].pc = "publish" /\ "seq" \in loader[d].todo
LinkGone == \E d \in Loaders : loader[d].pc = "publish" /\ "link" \in loader[d].todo

Installed(b) == \/ b = seq /\ ~SeqGone
                \/ b = link /\ ~LinkGone

(* A heap of blocks with a state and cells.                                *)
HeapShape(h) ==
  /\ h = [b \in Blocks |-> h[b]]
  /\ \A b \in Blocks : h[b] = [state |-> h[b].state, cells |-> h[b].cells]

(* Every live block has one owner: a loader, or one of the two pointers.   *)
Ownership ==
  /\ HeapShape(heap)
  /\ seq \in Pointers /\ link \in Pointers
  /\ loader = [d \in Loaders |-> loader[d]]
  /\ \A d \in Loaders : LoaderOK(loader[d])
  /\ \A b \in Blocks : heap[b].state = "live" <=>
                          Installed(b) \/ \E d \in Loaders : Owns(loader[d], b)
  /\ \A b \in Blocks : \A d \in Loaders :
       Owns(loader[d], b) => /\ ~Installed(b)
                     /\ \A e \in Loaders \ {d} : ~Owns(loader[e], b)
  /\ ~SeqGone /\ ~LinkGone => seq # link \/ seq = Null

(* The inductive invariant for NoLeak.                                     *)
LeakInv ==
  /\ Overlapping => overlap
  /\ ~overlap /\ ~oops => Ownership

-----------------------------------------------------------------------------
(* The pcs of a task in avc_has_perm_flags, and its frame there.           *)
TaskPcs == LoopPcs \cup {"status", "mode", "getseq", "audit"}
Frame == [pc : TaskPcs, vec : Vectors, avd : UNION {AvdOf[v] : v \in Vectors},
          walks : {BOOLEAN, {FALSE}}, denied : BOOLEAN, seen : BOOLEAN,
          seqs : Pointers, i : Nat, reg : Nat, start : Nat]
CallRecord == [vec : Vectors, denied : BOOLEAN, retried : BOOLEAN, start : Nat]

(* No policy, or one in whose tables every token is on a link of its       *)
(* sequence.                                                               *)
TablesGood ==
  \/ s_len = 0 /\ seq = Null /\ link = Null
  \/ /\ s_len \in Nat /\ l_len \in Nat
     /\ seq \in Blocks /\ link \in Blocks
     /\ heap[seq].cells \in [Index(s_len) -> Sequence]
     /\ DOMAIN heap[link].cells = Index(l_len)
     /\ \A i \in Index(s_len) :
          LET sq == heap[seq].cells[i]
          IN  /\ sq.current_position < sq.length
              /\ sq.link_offset + sq.length <= l_len

(* The copies of a loader are those of its policy.                         *)
CopiesGood(f) ==
  /\ f.pc \in {"allocL", "copyL", "freeS", "freeL", "publish"} =>
       heap[f.s].cells = f.p.seq
  /\ f.pc \in {"freeS", "freeL", "publish"} => heap[f.l].cells = f.p.link
  /\ f.pc = "publish" =>
       /\ "seq" \notin f.todo => seq = f.s
       /\ "link" \notin f.todo => link = f.l
       /\ "s_len" \notin f.todo => s_len = f.p.s_len
       /\ "l_len" \notin f.todo => l_len = f.p.l_len

(* Where a task in the loop stands, with the cell sq of its sequence.      *)
PlaceGood(f, sq) ==
  /\ f.pc = "load" => sq.current_position + 1 < sq.length
  /\ f.pc = "store" => f.reg = sq.current_position + 1 /\ f.reg < sq.length
  /\ f.pc = "test" => f.reg = sq.current_position
  /\ f.pc # "dec"

TaskGood(f) ==
  /\ f = Idle \/ f \in Frame
  /\ f.pc \in LoopPcs => f.seqs = seq
  /\ f.pc \in LoopPcs \ {"loop"} =>
       f.i \in Index(s_len) /\ PlaceGood(f, heap[seq].cells[f.i])

Turns ==
  /\ Ownership
  /\ status \in BOOLEAN /\ calls \in Seq(CallRecord)
  /\ retry \in [Tasks -> Vectors \cup {NoVector}]
  /\ task = [t \in Tasks |-> task[t]]
  /\ \A t \in Tasks : TaskGood(task[t])
  /\ \A d \in Loaders : CopiesGood(loader[d])
  /\ (\A d \in Loaders : ~InSetPol(d)) => TablesGood

(* The inductive invariant for MemorySafeInTurns.                          *)
TurnsInv ==
  /\ Overlapping => overlap
  /\ (\E t, u \in Tasks : t # u /\ InLoop(t) /\ InLoop(u)) => raced
  /\ ~overlap /\ ~raced => ~oops /\ Turns

-----------------------------------------------------------------------------
(* Memory operations keep the shape of the heap.                           *)

LEMMA NullIsNoBlock == Null \notin Blocks
BY BoundAssumption DEF Null, Blocks

LEMMA FreedShape ==
  ASSUME HeapShape(heap), NEW bs
  PROVE  /\ HeapShape(Freed(bs))
         /\ \A b \in Blocks : /\ b \in bs => Freed(bs)[b].state = "freed"
                              /\ b \notin bs => Freed(bs)[b] = heap[b]
BY DEF HeapShape, Freed

-----------------------------------------------------------------------------
(* Ownership of the blocks.                                                *)

(* Steps that leave pointers, loaders and the states of blocks alone.      *)
LEMMA OwnershipKept ==
  ASSUME Ownership, UNCHANGED <<seq, link, loader>>, HeapShape(heap'),
         \A b \in Blocks : heap'[b].state = heap[b].state
  PROVE  Ownership'
BY DEF Ownership, Owns, Installed, SeqGone, LinkGone, HeapShape

(* A loader whose frame becomes g while no table is gone on its account.   *)
LEMMA OwnershipMoved ==
  ASSUME Ownership, NEW d \in Loaders, NEW g, LoaderOK(g),
         loader' = [loader EXCEPT ![d] = g], UNCHANGED <<seq, link>>,
         loader[d].pc \notin {"freeL", "publish"}, g.pc \notin {"freeL", "publish"},
         HeapShape(heap'),
         \A b \in Blocks :
           /\ Owns(g, b) <=> (/\ heap'[b].state = "live"
                              /\ heap[b].state # "live" \/ Owns(loader[d], b))
           /\ ~Owns(g, b) => (heap'[b].state = "live" <=>
                                heap[b].state = "live" /\ ~Owns(loader[d], b))
  PROVE  Ownership'
<1>1. /\ loader'[d] = g /\ loader' = [e \in Loaders |-> loader'[e]]
      /\ \A e \in Loaders \ {d} : loader'[e] = loader[e]
  BY DEF Ownership
<1>2. (SeqGone' <=> SeqGone) /\ (LinkGone' <=> LinkGone)
  BY <1>1 DEF SeqGone, LinkGone
<1>3. \A b \in Blocks : Installed(b)' <=> Installed(b)
  BY <1>2 DEF Installed
<1>4. \A e \in Loaders \ {d} : \A b \in Blocks : Owns(loader[e], b)' <=> Owns(loader[e], b)
  BY <1>1 DEF Owns
<1>5. \A b \in Blocks : Owns(loader[d], b)' <=>
          heap'[b].state = "live" /\ (heap[b].state # "live" \/ Owns(loader[d], b))
  BY <1>1 DEF Owns
<1>6. \A b \in Blocks : ~Owns(loader[d], b)' =>
          (heap'[b].state = "live" <=> heap[b].state = "live" /\ ~Owns(loader[d], b))
  BY <1>1 DEF Owns
<1>7. \A e \in Loaders : LoaderOK(loader'[e])
  BY <1>1 DEF Ownership
<1>8. \A b \in Blocks : heap'[b].state = "live" <=>
          Installed(b)' \/ \E e \in Loaders : Owns(loader[e], b)'
  BY <1>3, <1>4, <1>5, <1>6 DEF Ownership
<1>9. \A b \in Blocks : \A e \in Loaders :
        Owns(loader[e], b)' => ~Installed(b)' /\ \A c \in Loaders \ {e} : ~Owns(loader[c], b)'
  BY <1>3, <1>4, <1>5 DEF Ownership
<1> QED
  BY <1>1, <1>2, <1>7, <1>8, <1>9 DEF Ownership, LoaderOK

(* A loader owns the live blocks it names, and no other loader does.       *)
LEMMA OwnedIsLive ==
  ASSUME Ownership, NEW d \in Loaders, NEW b \in Blocks, Owns(loader[d], b)
  PROVE  heap[b].state = "live"
BY DEF Ownership

LEMMA BeginLoadOwnership ==
  ASSUME Ownership, NEW d \in Loaders, NEW p \in Policies, BeginLoad(d, p)
  PROVE  Ownership'
<1> DEFINE g == [pc |-> "allocS", p |-> p, s |-> Null, l |-> Null,
                 todo |-> {"seq", "link", "s_len", "l_len"}]
<1>1. loader' = [loader EXCEPT ![d] = g] /\ loader[d].pc = "idle"
      /\ UNCHANGED <<heap, seq, link>>
  BY DEF BeginLoad, Loading, LoaderKeeps
<1>2. LoaderOK(g)
  BY DEF LoaderOK, LoadFrame, LoadPcs, Pointers, Globals
<1>3. \A b \in Blocks : ~Owns(g, b) /\ ~Owns(loader[d], b)
  BY <1>1, NullIsNoBlock DEF Owns
<1>4. g.pc = "allocS"
  OBVIOUS
<1> HIDE DEF g
<1>5. HeapShape(heap')
  BY <1>1 DEF Ownership, HeapShape
<1> QED
  BY <1>1, <1>2, <1>3, <1>4, <1>5, OwnershipMoved

LEMMA VmallocOwnership ==
  ASSUME Ownership, NEW d \in Loaders, vmalloc(d)
  PROVE  Ownership'
<1> DEFINE f == loader[d]
           g == IF f.pc = "allocS" THEN [f EXCEPT !.pc = "copyS", !.s = Fresh]
                                   ELSE [f EXCEPT !.pc = "copyL", !.l = Fresh]
<1>1. /\ f.pc \in {"allocS", "allocL"} /\ Unused # {}
      /\ heap' = [heap EXCEPT ![Fresh].state = "live"]
      /\ loader' = [loader EXCEPT ![d] = g] /\ UNCHANGED <<seq, link>>
  BY DEF vmalloc, Loading, LoaderKeeps
<1>2. Fresh \in Blocks /\ heap[Fresh].state = "unused"
  BY <1>1 DEF Fresh, Unused
<1>3. /\ f \in LoadFrame /\ f.todo = Globals /\ f.l = Null
      /\ f.pc = "allocS" => f.s = Null
      /\ f.pc = "allocL" => f.s \in Blocks
  BY <1>1 DEF Ownership, LoaderOK, Idle, LoadFrame, Pointers
<1>4. f.s # Fresh
  <2>1. f.pc = "allocL" => Owns(f, f.s)
    BY <1>3 DEF Owns, Globals
  <2> QED
    BY <1>1, <1>2, <1>3, <2>1, OwnedIsLive, NullIsNoBlock
<1>5. /\ g \in LoadFrame /\ g.todo = Globals
      /\ f.pc = "allocS" => g.pc = "copyS" /\ g.s = Fresh /\ g.l = Null
      /\ f.pc = "allocL" => g.pc = "copyL" /\ g.s = f.s /\ g.l = Fresh
  BY <1>1, <1>2, <1>3 DEF LoadFrame, LoadPcs, Pointers
<1> HIDE DEF g
<1>6. LoaderOK(g)
  BY <1>1, <1>2, <1>3, <1>4, <1>5, NullIsNoBlock DEF LoaderOK
<1>7. \A b \in Blocks : Owns(g, b) <=> (b = Fresh \/ Owns(f, b))
  BY <1>1, <1>3, <1>5, NullIsNoBlock DEF Owns, Globals
<1>8. /\ HeapShape(heap') /\ heap'[Fresh].state = "live"
      /\ \A b \in Blocks \ {Fresh} : heap'[b] = heap[b]
  <2> DEFINE r == [heap[Fresh] EXCEPT !.state = "live"]
  <2>1. r = [state |-> r.state, cells |-> r.cells] /\ r.state = "live"
    BY <1>2 DEF Ownership, HeapShape
  <2>2. heap' = [heap EXCEPT ![Fresh] = r]
    BY <1>1
  <2> HIDE DEF r
  <2> QED
    BY <1>2, <2>1, <2>2 DEF Ownership, HeapShape
<1>9. \A b \in Blocks : Owns(f, b) => heap[b].state = "live"
  BY OwnedIsLive
<1>10. \A b \in Blocks :
         /\ Owns(g, b) <=> (/\ heap'[b].state = "live"
                            /\ heap[b].state # "live" \/ Owns(f, b))
         /\ ~Owns(g, b) => (heap'[b].state = "live" <=>
                              heap[b].state = "live" /\ ~Owns(f, b))
  BY <1>2, <1>7, <1>8, <1>9
<1>11. g.pc \notin {"freeL", "publish"} /\ f.pc \notin {"freeL", "publish"}
  BY <1>1, <1>5
<1> QED
  BY <1>1, <1>6, <1>8, <1>10, <1>11, OwnershipMoved

LEMMA CopyOwnership ==
  ASSUME Ownership, NEW d \in Loaders, copy_from_user(d)
  PROVE  Ownership'
<1> DEFINE f == loader[d]
           g == [f EXCEPT !.pc = IF f.pc = "copyS" THEN "allocL" ELSE "freeS"]
<1>1. /\ f.pc \in {"copyS", "copyL"}
      /\ heap' = IF f.pc = "copyS" THEN [heap EXCEPT ![f.s].cells = f.p.seq]
                                   ELSE [heap EXCEPT ![f.l].cells = f.p.link]
      /\ loader' = [loader EXCEPT ![d] = g] /\ UNCHANGED <<seq, link>>
  BY DEF copy_from_user, Loading, LoaderKeeps
<1>2. f \in LoadFrame /\ LoaderOK(f)
  BY <1>1 DEF Ownership, LoaderOK, Idle
<1>3. /\ g \in LoadFrame /\ g.todo = f.todo /\ g.s = f.s /\ g.l = f.l
      /\ g.pc = IF f.pc = "copyS" THEN "allocL" ELSE "freeS"
  BY <1>2 DEF LoadFrame, LoadPcs
<1> HIDE DEF g
<1>4. LoaderOK(g)
  BY <1>1, <1>2, <1>3 DEF LoaderOK, Idle
<1>5. \A b \in Blocks : Owns(g, b) <=> Owns(f, b)
  BY <1>1, <1>3 DEF Owns
<1>6. HeapShape(heap') /\ \A b \in Blocks : heap'[b].state = heap[b].state
  <2> DEFINE x == IF f.pc = "copyS" THEN f.s ELSE f.l
             r == [heap[x] EXCEPT !.cells = IF f.pc = "copyS" THEN f.p.seq ELSE f.p.link]
  <2>1. x \in Blocks
    BY <1>1, <1>2 DEF LoaderOK, LoadFrame, Pointers, Idle
  <2>2. r = [state |-> r.state, cells |-> r.cells] /\ r.state = heap[x].state
    BY <2>1 DEF Ownership, HeapShape
  <2>3. heap' = [heap EXCEPT ![x] = r]
    BY <1>1
  <2> HIDE DEF r, x
  <2> QED
    BY <2>1, <2>2, <2>3 DEF Ownership, HeapShape
<1>7. \A b \in Blocks : Owns(f, b) => heap[b].state = "live"
  BY OwnedIsLive
<1> QED
  BY <1>1, <1>3, <1>4, <1>5, <1>6, <1>7, OwnershipMoved

LEMMA LoadFailsOwnership ==
  ASSUME Ownership, NEW d \in Loaders, LoadFails(d)
  PROVE  Ownership'
<1> DEFINE f == loader[d]
<1>1. /\ f.pc \in {"allocS", "copyS", "allocL", "copyL"}
      /\ heap' = Freed({f.s, f.l})
      /\ loader' = [loader EXCEPT ![d] = Idle] /\ UNCHANGED <<seq, link>>
  BY DEF LoadFails, GiveBack, Loading, LoaderKeeps
<1>2. f.todo = Globals
  BY <1>1 DEF Ownership, LoaderOK, Idle
<1>3. \A b \in Blocks : Owns(f, b) <=> b \in {f.s, f.l}
  BY <1>1, <1>2 DEF Owns, Globals
<1>4. LoaderOK(Idle) /\ Idle.pc = "idle" /\ \A b : ~Owns(Idle, b)
  BY DEF LoaderOK, Owns, Idle
<1>5. /\ HeapShape(heap')
      /\ \A b \in Blocks : /\ b \in {f.s, f.l} => heap'[b].state = "freed"
                           /\ b \notin {f.s, f.l} => heap'[b] = heap[b]
  BY <1>1, FreedShape DEF Ownership
<1>6. \A b \in Blocks :
        /\ ~(heap'[b].state = "live" /\ (heap[b].state # "live" \/ Owns(f, b)))
        /\ heap'[b].state = "live" <=> heap[b].state = "live" /\ ~Owns(f, b)
  BY <1>3, <1>5
<1> QED
  BY <1>1, <1>4, <1>5, <1>6, OwnershipMoved

(* Only one loader is in piga_set_pol when nobody's use overlaps.          *)
LEMMA AloneInSetPol ==
  ASSUME ~Overlapping, NEW d \in Loaders, InSetPol(d)
  PROVE  /\ \A e \in Loaders \ {d} : loader[e].pc \notin {"freeS", "freeL", "publish"}
         /\ \A t \in Tasks : ~InLoop(t)
BY DEF Overlapping, InSetPol

LEMMA FreeOldOwnership ==
  ASSUME Ownership, ~Overlapping, NEW d \in Loaders, FreeOldTables(d), ~oops'
  PROVE  Ownership'
<1> DEFINE f == loader[d]
<1>1. PICK ptr, then :
        /\ \/ f.pc = "freeS" /\ ptr = seq /\ then = "freeL"
           \/ f.pc = "freeL" /\ ptr = link /\ then = "publish"
        /\ heap' = Freed({ptr})
        /\ loader' = [loader EXCEPT ![d] = [loader[d] EXCEPT !.pc = then]]
        /\ UNCHANGED <<seq, link>>
  BY DEF FreeOldTables, FreeOld, Loading, LoaderKeeps, Oops
<1> DEFINE g == [f EXCEPT !.pc = then]
<1>2. /\ f \in LoadFrame /\ f.todo = Globals /\ f.s # f.l
      /\ f.s \in Blocks /\ f.l \in Blocks
  BY <1>1 DEF Ownership, LoaderOK, LoadFrame, Pointers, Idle
<1>3. /\ g \in LoadFrame /\ g.todo = Globals /\ g.s = f.s /\ g.l = f.l /\ g.pc = then
      /\ LoaderOK(g)
  <2>1. g \in LoadFrame /\ g.todo = Globals /\ g.s = f.s /\ g.l = f.l /\ g.pc = then
    BY <1>1, <1>2 DEF LoadFrame, LoadPcs
  <2> HIDE DEF g
  <2> QED
    BY <1>1, <1>2, <2>1, NullIsNoBlock DEF LoaderOK
<1>4. /\ loader'[d] = g /\ loader' = [e \in Loaders |-> loader'[e]]
      /\ \A e \in Loaders \ {d} : loader'[e] = loader[e]
  BY <1>1 DEF Ownership
<1> HIDE DEF g
<1>5. \A e \in Loaders \ {d} : loader[e].pc \notin {"freeS", "freeL", "publish"}
  BY <1>1, AloneInSetPol DEF InSetPol
<1>6. /\ SeqGone <=> f.pc = "freeL"
      /\ ~LinkGone /\ SeqGone'
      /\ LinkGone' <=> f.pc = "freeL"
  BY <1>1, <1>3, <1>4, <1>5 DEF SeqGone, LinkGone, Globals
<1>7. \A b \in Blocks : Installed(b)' <=> Installed(b) /\ b # ptr
  BY <1>1, <1>6 DEF Installed, Ownership, Null, Blocks
<1>8. \A e \in Loaders : \A b \in Blocks : Owns(loader[e], b)' <=> Owns(loader[e], b)
  BY <1>1, <1>2, <1>3, <1>4 DEF Owns
<1>9. /\ HeapShape(heap')
      /\ \A b \in Blocks : /\ b = ptr => heap'[b].state = "freed"
                           /\ b # ptr => heap'[b] = heap[b]
  BY <1>1, FreedShape DEF Ownership
<1>10. \A b \in Blocks : b = ptr => Installed(b)
  BY <1>1, <1>6 DEF Installed
<1>11. \A e \in Loaders : LoaderOK(loader'[e])
  BY <1>3, <1>4 DEF Ownership
<1>12. \A b \in Blocks : heap'[b].state = "live" <=>
          Installed(b)' \/ \E e \in Loaders : Owns(loader[e], b)'
  BY <1>7, <1>8, <1>9, <1>10 DEF Ownership
<1>13. \A b \in Blocks : \A e \in Loaders :
        Owns(loader[e], b)' => ~Installed(b)' /\ \A c \in Loaders \ {e} : ~Owns(loader[c], b)'
  BY <1>7, <1>8 DEF Ownership
<1> QED
  BY <1>1, <1>4, <1>6, <1>9, <1>11, <1>12, <1>13 DEF Ownership

LEMMA PublishOwnership ==
  ASSUME Ownership, ~Overlapping, NEW d \in Loaders, Publish(d)
  PROVE  Ownership'
<1> DEFINE f == loader[d]
<1>1. PICK g \in f.todo :
        /\ f.pc = "publish" /\ heap' = heap
        /\ seq'  = IF g = "seq"  THEN f.s ELSE seq
        /\ link' = IF g = "link" THEN f.l ELSE link
        /\ \/ f.todo = {g} /\ loader' = [loader EXCEPT ![d] = Idle]
           \/ f.todo # {g} /\ loader' = [loader EXCEPT ![d] = [f EXCEPT !.todo = f.todo \ {g}]]
  BY DEF Publish, Loading
<1>2. /\ f \in LoadFrame /\ f.s # f.l /\ f.s \in Blocks /\ f.l \in Blocks
      /\ f.todo \subseteq Globals
  BY <1>1 DEF Ownership, LoaderOK, LoadFrame, Pointers, Idle
<1>3. PICK k : /\ loader' = [loader EXCEPT ![d] = k]
               /\ LoaderOK(k)
               /\ \/ k = Idle /\ f.todo = {g}
                  \/ k.pc = "publish" /\ k.s = f.s /\ k.l = f.l /\ k.todo = f.todo \ {g}
  <2>1. CASE f.todo = {g}
    BY <1>1, <2>1 DEF LoaderOK
  <2>2. CASE f.todo # {g}
    <3> DEFINE k == [f EXCEPT !.todo = f.todo \ {g}]
    <3>1. loader' = [loader EXCEPT ![d] = k]
      BY <1>1, <2>2
    <3>2. f.todo \ {g} \in (SUBSET Globals) \ {{}}
      BY <1>1, <1>2, <2>2
    <3>3. k \in LoadFrame /\ k.pc = "publish" /\ k.s = f.s /\ k.l = f.l /\ k.todo = f.todo \ {g}
      BY <1>1, <1>2, <3>2 DEF LoadFrame
    <3> HIDE DEF k
    <3> QED
      BY <1>2, <3>1, <3>3, NullIsNoBlock DEF LoaderOK
  <2> QED
    BY <2>1, <2>2
<1>4. /\ loader'[d] = k /\ loader' = [e \in Loaders |-> loader'[e]]
      /\ \A e \in Loaders \ {d} : loader'[e] = loader[e]
  BY <1>3 DEF Ownership
<1>5. \A e \in Loaders \ {d} : loader[e].pc \notin {"freeS", "freeL", "publish"}
  BY <1>1, AloneInSetPol DEF InSetPol
<1>6. /\ SeqGone <=> "seq" \in f.todo
      /\ LinkGone <=> "link" \in f.todo
      /\ SeqGone' <=> "seq" \in f.todo \ {g}
      /\ LinkGone' <=> "link" \in f.todo \ {g}
  BY <1>1, <1>3, <1>4, <1>5 DEF SeqGone, LinkGone, Idle
<1>7. \A b \in Blocks :
        /\ Owns(f, b) <=> ((b = f.s /\ "seq" \in f.todo) \/ (b = f.l /\ "link" \in f.todo))
        /\ Owns(k, b) <=> (\/ b = f.s /\ "seq" \in f.todo \ {g}
                           \/ b = f.l /\ "link" \in f.todo \ {g})
  BY <1>1, <1>3 DEF Owns, Idle
<1>8. \A b \in Blocks :
        Installed(b)' <=> (\/ Installed(b)
                           \/ b = f.s /\ g = "seq"
                           \/ b = f.l /\ g = "link")
  BY <1>1, <1>6 DEF Installed
<1>9. \A e \in Loaders \ {d} : \A b \in Blocks : Owns(loader[e], b)' <=> Owns(loader[e], b)
  BY <1>4
<1>10. \A b \in Blocks : Owns(loader[d], b)' <=> Owns(k, b)
  BY <1>4
<1>11. \A b \in Blocks : Installed(b)' \/ Owns(k, b) <=> Installed(b) \/ Owns(f, b)
  BY <1>1, <1>7, <1>8
<1>12. \A b \in Blocks : heap'[b].state = "live" <=>
          Installed(b)' \/ \E e \in Loaders : Owns(loader[e], b)'
  BY <1>1, <1>9, <1>10, <1>11 DEF Ownership
<1>13. \A b \in Blocks : \A e \in Loaders :
        Owns(loader[e], b)' => ~Installed(b)' /\ \A c \in Loaders \ {e} : ~Owns(loader[c], b)'
  <2>1. \A b \in Blocks : ~(Owns(k, b) /\ Installed(b)')
    BY <1>2, <1>7, <1>8 DEF Ownership
  <2>2. \A b \in Blocks : Owns(k, b) => Owns(f, b)
    BY <1>7
  <2>3. \A b \in Blocks : Installed(b)' => Installed(b) \/ Owns(f, b)
    BY <1>11
  <2> QED
    BY <1>9, <1>10, <2>1, <2>2, <2>3 DEF Ownership
<1>14. \A e \in Loaders : LoaderOK(loader'[e])
  BY <1>3, <1>4 DEF Ownership
<1>15. ~SeqGone' /\ ~LinkGone' => seq' # link' \/ seq' = Null
  <2>1. \A b \in Blocks : Owns(f, b) => ~Installed(b)
    BY DEF Ownership
  <2> QED
    BY <1>1, <1>2, <1>6, <1>7, <2>1 DEF Installed, Ownership
<1>16. HeapShape(heap')
  BY <1>1 DEF Ownership
<1>17. seq' \in Pointers /\ link' \in Pointers
  BY <1>1, <1>2 DEF Ownership, Pointers
<1> QED
  BY <1>4, <1>12, <1>13, <1>14, <1>15, <1>16, <1>17 DEF Ownership

(* piga_seq_next writes a cell of a block; the block stays what it is.     *)
LEMMA SetPositionShape ==
  ASSUME HeapShape(heap), NEW t \in Tasks, NEW n, NEW frame, SetPosition(t, n, frame)
  PROVE  LET x == task[t].seqs
         IN  /\ HeapShape(heap')
             /\ \A b \in Blocks : heap'[b].state = heap[b].state
             /\ \A b \in Blocks \ {x} : heap'[b] = heap[b]
             /\ x \in Blocks => heap'[x].cells = [heap[x].cells EXCEPT
                                   ![task[t].i] = [@ EXCEPT !.current_position = n]]
<1> DEFINE x == task[t].seqs
           c == [heap[x].cells EXCEPT ![task[t].i] = [@ EXCEPT !.current_position = n]]
           r == [heap[x] EXCEPT !.cells = c]
<1>1. heap' = [heap EXCEPT ![x] = r]
  BY DEF SetPosition
<1> HIDE DEF c
<1>2. CASE x \in Blocks
  <2>1. r = [state |-> r.state, cells |-> r.cells] /\ r.state = heap[x].state /\ r.cells = c
    BY <1>2 DEF HeapShape
  <2> HIDE DEF r, x
  <2>2. /\ HeapShape(heap') /\ heap'[x] = r
        /\ \A b \in Blocks \ {x} : heap'[b] = heap[b]
    BY <1>1, <1>2, <2>1 DEF HeapShape
  <2> QED
    BY <1>2, <2>1, <2>2 DEF x, c
<1>3. CASE x \notin Blocks
  <2> HIDE DEF r, x
  <2>1. heap' = heap
    BY <1>1, <1>3 DEF HeapShape
  <2> QED
    BY <1>3, <2>1 DEF x
<1> QED
  BY <1>2, <1>3

(* The steps of tasks and the writes to the switches.                      *)
LEMMA TaskKeeps ==
  ASSUME NEW t \in Tasks,
         (\E v \in Vectors : Begin(t, v)) \/ BeginRetry(t) \/ TaskStep(t)
  PROVE  /\ UNCHANGED <<seq, link, s_len, l_len, loader>>
         /\ \/ UNCHANGED heap
            \/ \E n, frame : SetPosition(t, n, frame)
<1>1. CASE \E v \in Vectors : Begin(t, v)
  BY <1>1 DEF Begin, Enter, Goto
<1>2. CASE BeginRetry(t)
  BY <1>2 DEF BeginRetry, Enter, Goto
<1>3. CASE ReadStatus(t) \/ ReadMode(t) \/ piga_get_sequence_at(t) \/ LoopTest(t)
  BY <1>3 DEF ReadStatus, ReadMode, piga_get_sequence_at, LoopTest, Goto
<1>4. CASE Getter(t) \/ EndTest(t) \/ LoadPosition(t) \/ TestPosition(t)
  BY <1>4 DEF Getter, EndTest, LoadPosition, TestPosition, Goto, Oops
<1>5. CASE StorePosition(t)
  BY <1>5 DEF StorePosition, SetPosition, Oops
<1>6. CASE TakeBack(t)
  BY <1>6 DEF TakeBack, SetPosition, Oops
<1>7. CASE Return(t)
  BY <1>7 DEF Return
<1> QED
  BY <1>1, <1>2, <1>3, <1>4, <1>5, <1>6, <1>7 DEF TaskStep

LEMMA TaskOwnership ==
  ASSUME Ownership, NEW t \in Tasks,
         (\E v \in Vectors : Begin(t, v)) \/ BeginRetry(t) \/ TaskStep(t)
  PROVE  Ownership'
<1>1. UNCHANGED <<seq, link, loader>>
  BY TaskKeeps
<1>2. HeapShape(heap') /\ \A b \in Blocks : heap'[b].state = heap[b].state
  <2>1. HeapShape(heap)
    BY DEF Ownership
  <2>2. CASE UNCHANGED heap
    BY <2>1, <2>2
  <2>3. CASE \E n, frame : SetPosition(t, n, frame)
    BY <2>1, <2>3, SetPositionShape
  <2> QED
    BY <2>2, <2>3, TaskKeeps
<1> QED
  BY <1>1, <1>2, OwnershipKept

LEMMA SwitchKeeps ==
  ASSUME \/ \E b \in StatusWrites : piga_proc_status_write(b)
         \/ \E b \in ModeWrites : piga_proc_mode_write(b)
         \/ UNCHANGED vars
  PROVE  /\ UNCHANGED <<heap, seq, link, s_len, l_len, task, loader, retry, calls, oops>>
         /\ status' \in {status} \cup StatusWrites
BY DEF piga_proc_status_write, piga_proc_mode_write, vars

LEMMA OwnershipStep ==
  ASSUME Ownership, ~Overlapping, [Next]_vars, ~oops'
  PROVE  Ownership'
<1>1. ASSUME NEW t \in Tasks,
             (\E v \in Vectors : Begin(t, v)) \/ BeginRetry(t) \/ TaskStep(t)
      PROVE  Ownership'
  BY <1>1, TaskOwnership
<1>2. ASSUME NEW d \in Loaders, NEW p \in Policies, BeginLoad(d, p)
      PROVE  Ownership'
  BY <1>2, BeginLoadOwnership
<1>3. ASSUME NEW d \in Loaders, LoaderStep(d)
      PROVE  Ownership'
  BY <1>3, VmallocOwnership, CopyOwnership, LoadFailsOwnership, FreeOldOwnership,
     PublishOwnership DEF LoaderStep
<1>4. ASSUME \/ \E b \in StatusWrites : piga_proc_status_write(b)
             \/ \E b \in ModeWrites : piga_proc_mode_write(b)
             \/ UNCHANGED vars
      PROVE  Ownership'
  <2>1. UNCHANGED <<heap, seq, link, loader>>
    BY <1>4, SwitchKeeps
  <2>2. HeapShape(heap') /\ \A b \in Blocks : heap'[b].state = heap[b].state
    BY <2>1 DEF Ownership
  <2> QED
    BY <2>1, <2>2, OwnershipKept
<1> QED
  BY <1>1, <1>2, <1>3, <1>4 DEF Next

LEMMA OwnershipInit == Init => Ownership
<1> SUFFICES ASSUME Init PROVE Ownership
  OBVIOUS
<1>1. HeapShape(heap) /\ \A b \in Blocks : heap[b].state # "live"
  BY DEF Init, HeapShape
<1>2. /\ \A d \in Loaders : loader[d] = Idle
      /\ loader = [d \in Loaders |-> loader[d]]
  BY DEF Init
<1>3. \A b : ~Owns(Idle, b)
  BY DEF Owns, Idle
<1>4. seq = Null /\ link = Null
  BY DEF Init
<1> QED
  BY <1>1, <1>2, <1>3, <1>4, NullIsNoBlock DEF Ownership, LoaderOK, Installed, Pointers

LEMMA HistoryGrows ==
  ASSUME [Next]_vars, Overlapping => overlap
  PROVE  /\ Overlapping' => overlap'
         /\ overlap => overlap'
         /\ raced => raced'
<1>1. CASE Next
  BY <1>1 DEF Next, NoteHistory
<1>2. CASE UNCHANGED vars
  BY <1>2 DEF vars, Overlapping, InSetPol, InLoop
<1> QED
  BY <1>1, <1>2

LEMMA OopsStays == ASSUME [Next]_vars, oops PROVE oops'
BY DEF Next, vars

(* The inductive invariant holds in every reachable state.                 *)
LEMMA AlwaysLeakInv == Spec => []LeakInv
<1>1. Init => LeakInv
  BY OwnershipInit DEF Init, LeakInv, Overlapping, InSetPol, Idle
<1>2. LeakInv /\ [Next]_vars => LeakInv'
  <2> SUFFICES ASSUME LeakInv, [Next]_vars PROVE LeakInv'
    OBVIOUS
  <2>1. Overlapping' => overlap'
    BY HistoryGrows DEF LeakInv
  <2>2. ASSUME ~overlap', ~oops' PROVE Ownership'
    <3>1. ~overlap /\ ~oops
      BY <2>2, HistoryGrows, OopsStays DEF LeakInv
    <3>2. Ownership /\ ~Overlapping
      BY <3>1 DEF LeakInv
    <3> QED
      BY <2>2, <3>2, OwnershipStep
  <2> QED
    BY <2>1, <2>2 DEF LeakInv
<1> QED
  BY <1>1, <1>2, PTL DEF Spec

(* No path of sys_piga_add_sequence loses a block, for every number of     *)
(* loaders and every failure of vmalloc and copy_from_user: when no call   *)
(* is under way the live blocks are the two tables in use, unless a        *)
(* piga_set_pol met another user of the tables.                            *)
THEOREM BlocksAreNotLost == Spec => []NoLeak
<1>1. LeakInv => NoLeak
  <2> SUFFICES ASSUME LeakInv, \A d \in Loaders : loader[d].pc = "idle", ~overlap, ~oops
               PROVE  {b \in Blocks : heap[b].state = "live"} = {seq, link} \ {Null}
    BY DEF NoLeak
  <2>1. Ownership
    BY DEF LeakInv
  <2>2. ~SeqGone /\ ~LinkGone /\ \A d \in Loaders : \A b : ~Owns(loader[d], b)
    BY DEF SeqGone, LinkGone, Owns
  <2>3. \A b \in Blocks : heap[b].state = "live" <=> b \in {seq, link}
    BY <2>1, <2>2 DEF Ownership, Installed
  <2> QED
    BY <2>1, <2>3, NullIsNoBlock DEF Ownership, Pointers
<1> QED
  BY <1>1, AlwaysLeakInv, PTL

-----------------------------------------------------------------------------
(* Calls that take turns.                                                  *)

(* A token on a link of its sequence is inside the link table.             *)
LEMMA TokenInside ==
  ASSUME NEW sq \in Sequence, NEW n \in Nat,
         sq.current_position < sq.length, sq.link_offset + sq.length <= n
  PROVE  TokenIndex(sq) \in Index(n)
BY DEF TokenIndex, Index, Sequence

(* What a task inside a round of the loop finds.                           *)
LEMMA InRound ==
  ASSUME Turns, ~Overlapping, NEW t \in Tasks, task[t].pc \in LoopPcs \ {"loop"}
  PROVE  /\ task[t] \in Frame /\ task[t].seqs = seq /\ task[t].i \in Index(s_len)
         /\ seq \in Blocks /\ link \in Blocks /\ s_len \in Nat /\ l_len \in Nat
         /\ heap[seq].cells \in [Index(s_len) -> Sequence]
         /\ Cell(t) \in Sequence /\ Cell(t) = heap[seq].cells[task[t].i]
         /\ Cell(t).current_position < Cell(t).length
         /\ CellValid(t) /\ Valid(link, TokenIndex(Cell(t)))
         /\ PlaceGood(task[t], Cell(t))
         /\ \A d \in Loaders : ~InSetPol(d)
<1>1. \A d \in Loaders : ~InSetPol(d)
  BY DEF Overlapping, InLoop
<1>2. ~SeqGone /\ ~LinkGone
  BY <1>1 DEF SeqGone, LinkGone, InSetPol
<1>3. /\ task[t] \in Frame /\ task[t].seqs = seq /\ task[t].i \in Index(s_len)
      /\ PlaceGood(task[t], heap[seq].cells[task[t].i])
  BY DEF Turns, TaskGood, Idle, LoopPcs
<1>4. /\ s_len \in Nat /\ l_len \in Nat /\ seq \in Blocks /\ link \in Blocks
      /\ heap[seq].cells \in [Index(s_len) -> Sequence]
      /\ DOMAIN heap[link].cells = Index(l_len)
      /\ heap[seq].cells[task[t].i].current_position < heap[seq].cells[task[t].i].length
      /\ heap[seq].cells[task[t].i].link_offset + heap[seq].cells[task[t].i].length <= l_len
  <2>1. s_len # 0
    BY <1>3 DEF Index
  <2> QED
    BY <1>1, <1>3, <2>1 DEF Turns, TablesGood
<1>5. heap[seq].state = "live" /\ heap[link].state = "live"
  BY <1>2, <1>4 DEF Turns, Ownership, Installed
<1>6. Cell(t) = heap[seq].cells[task[t].i] /\ Cell(t) \in Sequence
  BY <1>3, <1>4 DEF Cell
<1>7. CellValid(t)
  BY <1>3, <1>4, <1>5, NullIsNoBlock DEF CellValid, Valid
<1>8. TokenIndex(Cell(t)) \in Index(l_len)
  BY <1>4, <1>6, TokenInside
<1>9. Valid(link, TokenIndex(Cell(t)))
  BY <1>4, <1>5, <1>8, NullIsNoBlock DEF Valid
<1> QED
  BY <1>1, <1>3, <1>4, <1>6, <1>7, <1>9

(* A step that only moves one task, to a place that is good.               *)
LEMMA GotoTurns ==
  ASSUME Turns, NEW t \in Tasks, NEW frame, Goto(t, frame), TaskGood(frame)
  PROVE  Turns'
<1>1. /\ UNCHANGED <<status, heap, seq, link, s_len, l_len, loader, retry, calls>>
      /\ task' = [task EXCEPT ![t] = frame]
  BY DEF Goto
<1>2. Ownership'
  <2>1. /\ Ownership /\ HeapShape(heap')
        /\ \A b \in Blocks : heap'[b].state = heap[b].state
    BY <1>1 DEF Turns, Ownership
  <2> QED
    BY <1>1, <2>1, OwnershipKept
<1>3. /\ task'[t] = frame /\ \A u \in Tasks \ {t} : task'[u] = task[u]
      /\ task' = [u \in Tasks |-> task'[u]]
  BY <1>1 DEF Turns
<1>4. ASSUME NEW u \in Tasks PROVE TaskGood(task[u])'
  <2>1. TaskGood(task'[u])
    BY <1>3 DEF Turns
  <2> QED
    BY <1>1, <2>1 DEF TaskGood
<1>5. ASSUME NEW d \in Loaders PROVE CopiesGood(loader[d])'
  BY <1>1 DEF Turns, CopiesGood
<1>6. (\A d \in Loaders : ~InSetPol(d)') => TablesGood'
  BY <1>1 DEF Turns, InSetPol, TablesGood
<1> QED
  BY <1>1, <1>2, <1>3, <1>4, <1>5, <1>6 DEF Turns

LEMMA EnterTurns ==
  ASSUME Turns, NEW t \in Tasks, NEW v \in Vectors, NEW avd \in AvdOf[v],
         NEW walks \in {BOOLEAN, {FALSE}}, Enter(t, v, avd, walks)
  PROVE  Turns'
<1> DEFINE pc == IF A!SelinuxDenies(v, avd) THEN "audit" ELSE "status"
           denied == A!SelinuxDenies(v, avd)
           frame == [pc |-> pc, vec |-> v, avd |-> avd, walks |-> walks,
                     denied |-> denied, seen |-> FALSE,
                     seqs |-> Null, i |-> 0, reg |-> 0, start |-> Len(calls)]
<1>2. Goto(t, frame)
  BY DEF Enter
<1>3. /\ pc \in {"audit", "status"} /\ denied \in BOOLEAN /\ Len(calls) \in Nat
      /\ avd \in UNION {AvdOf[w] : w \in Vectors} /\ Null \in Pointers
  BY DEF A!SelinuxDenies, Turns, Pointers
<1> HIDE DEF pc, denied
<1>4. frame \in Frame /\ frame.pc = pc
  BY <1>3 DEF Frame, TaskPcs
<1> HIDE DEF frame
<1>5. TaskGood(frame)
  BY <1>3, <1>4 DEF TaskGood, LoopPcs
<1> QED
  BY <1>2, <1>5, GotoTurns

LEMMA BeginTurns ==
  ASSUME Turns, NEW t \in Tasks, (\E v \in Vectors : Begin(t, v)) \/ BeginRetry(t)
  PROVE  Turns'
<1>1. ASSUME NEW v \in Vectors, Begin(t, v)
      PROVE  Turns'
  <2>1. PICK avd \in AvdOf[v] : Enter(t, v, avd, BOOLEAN)
    BY <1>1, Zenon DEF Begin
  <2>2. PICK walks \in {BOOLEAN, {FALSE}} : walks = BOOLEAN
    BY Zenon
  <2>3. Enter(t, v, avd, walks)
    BY <2>1, <2>2, Zenon
  <2> QED
    BY <2>3, EnterTurns
<1>2. CASE BeginRetry(t)
  <2>1. PICK avd \in AvdOf[retry[t]] : Enter(t, retry[t], avd, {FALSE})
    BY <1>2, Zenon DEF BeginRetry
  <2>2. retry[t] \in Vectors
    BY <1>2 DEF BeginRetry, Turns
  <2>3. PICK walks \in {BOOLEAN, {FALSE}} : walks = {FALSE}
    BY Zenon
  <2>4. Enter(t, retry[t], avd, walks)
    BY <2>1, <2>3, Zenon
  <2> QED
    BY <2>1, <2>2, <2>4, EnterTurns
<1> QED
  BY <1>1, <1>2

(* Up to the loop, and its test.                                           *)
LEMMA WalkTurns ==
  ASSUME Turns, ~Overlapping, NEW t \in Tasks,
         ReadStatus(t) \/ ReadMode(t) \/ piga_get_sequence_at(t) \/ LoopTest(t)
  PROVE  Turns' /\ UNCHANGED oops
<1> DEFINE f == task[t]
<1>1. f \in Frame
  BY DEF Turns, TaskGood, Idle, ReadStatus, ReadMode, piga_get_sequence_at, LoopTest
<1>2. CASE ReadStatus(t)
  <2> DEFINE g == [f EXCEPT !.pc = IF status THEN "mode" ELSE "audit", !.seen = status]
  <2>1. Goto(t, g)
    BY <1>2 DEF ReadStatus
  <2>2. g \in Frame /\ g.pc \notin LoopPcs
    BY <1>1 DEF Frame, TaskPcs, LoopPcs, Turns
  <2> HIDE DEF g
  <2> QED
    BY <2>1, <2>2, GotoTurns DEF TaskGood, Goto
<1>3. CASE ReadMode(t)
  <2> DEFINE pc == IF A!AuditOnlySkips(f.vec, f.avd) THEN "audit" ELSE "getseq"
             g == [f EXCEPT !.pc = pc]
  <2>1. Goto(t, g)
    BY <1>3 DEF ReadMode
  <2>2. pc \in {"audit", "getseq"}
    OBVIOUS
  <2> HIDE DEF pc
  <2>3. g \in Frame /\ g.pc \notin LoopPcs
    BY <1>1, <2>2 DEF Frame, TaskPcs, LoopPcs
  <2> HIDE DEF g
  <2> QED
    BY <2>1, <2>3, GotoTurns DEF TaskGood, Goto
<1>4. CASE piga_get_sequence_at(t)
  <2> DEFINE g == [f EXCEPT !.pc = "loop", !.seqs = seq, !.i = 0]
  <2>1. Goto(t, g)
    BY <1>4 DEF piga_get_sequence_at
  <2>2. g \in Frame /\ g.pc = "loop" /\ g.seqs = seq
    BY <1>1 DEF Frame, TaskPcs, LoopPcs, Turns, Ownership
  <2> HIDE DEF g
  <2> QED
    BY <2>1, <2>2, GotoTurns DEF TaskGood, Goto
<1>5. CASE LoopTest(t)
  <2> DEFINE g == [f EXCEPT !.pc = IF f.i < s_len THEN "cs" ELSE "audit"]
  <2>1. Goto(t, g) /\ f.pc = "loop"
    BY <1>5 DEF LoopTest
  <2>2. /\ g \in Frame /\ g.seqs = f.seqs /\ g.i = f.i /\ f.i \in Nat
        /\ g.pc = IF f.i < s_len THEN "cs" ELSE "audit"
    BY <1>1 DEF Frame, TaskPcs, LoopPcs
  <2>3. f.seqs = seq
    BY <2>1 DEF Turns, TaskGood, LoopPcs
  <2>4. s_len \in Nat
    BY <2>1 DEF Turns, TablesGood, Overlapping, InLoop, LoopPcs
  <2> HIDE DEF g
  <2>5. g.pc = "cs" => g.i \in Index(s_len)
    BY <2>2, <2>4 DEF Index
  <2> QED
    BY <2>1, <2>2, <2>3, <2>5, GotoTurns DEF TaskGood, Goto, LoopPcs, PlaceGood
<1> QED
  BY <1>2, <1>3, <1>4, <1>5

(* The next round, and the next step of the same round.                    *)
LEMMA RoundGood ==
  ASSUME Turns, ~Overlapping, NEW t \in Tasks, task[t].pc \in LoopPcs \ {"loop"}
  PROVE  /\ NextRound(t) \in Frame /\ TaskGood(NextRound(t))
         /\ \A d \in BOOLEAN : TaskGood([NextRound(t) EXCEPT !.denied = d])
         /\ \A pc \in {"cc", "tclass", "requested", "end"} :
              TaskGood([task[t] EXCEPT !.pc = pc])
<1> DEFINE f == task[t]
<1>1. f \in Frame /\ f.seqs = seq /\ f.i \in Index(s_len)
  BY InRound
<1>2. /\ NextRound(t) \in Frame /\ NextRound(t).pc = "loop" /\ NextRound(t).seqs = seq
  <2>1. f.i \in Nat
    BY <1>1 DEF Frame
  <2>2. PICK j \in Nat : j = f.i + 1
    BY <2>1
  <2>3. NextRound(t) = [f EXCEPT !.pc = "loop", !.i = j]
    BY <2>2 DEF NextRound
  <2> QED
    BY <1>1, <2>3 DEF Frame, TaskPcs, LoopPcs
<1>3. ASSUME NEW d \in BOOLEAN PROVE TaskGood([NextRound(t) EXCEPT !.denied = d])
  <2> DEFINE g == [NextRound(t) EXCEPT !.denied = d]
  <2>1. g \in Frame /\ g.pc = "loop" /\ g.seqs = seq
    BY <1>2 DEF Frame
  <2> HIDE DEF g
  <2>2. TaskGood(g)
    BY <2>1 DEF TaskGood
  <2> QED
    BY <2>2 DEF g
<1>4. ASSUME NEW pc \in {"cc", "tclass", "requested", "end"}
      PROVE  TaskGood([f EXCEPT !.pc = pc])
  <2> DEFINE g == [f EXCEPT !.pc = pc]
  <2>1. g \in Frame /\ g.pc = pc /\ g.seqs = seq /\ g.i = f.i
    BY <1>1 DEF Frame, TaskPcs, LoopPcs
  <2> HIDE DEF g
  <2>2. TaskGood(g)
    BY <1>1, <2>1 DEF TaskGood, PlaceGood
  <2> QED
    BY <2>2 DEF g
<1>5. TaskGood(NextRound(t))
  BY <1>2 DEF TaskGood
<1> QED
  BY <1>2, <1>3, <1>4, <1>5

LEMMA GetterTurns ==
  ASSUME Turns, ~Overlapping, NEW t \in Tasks, Getter(t)
  PROVE  Turns' /\ UNCHANGED oops
<1> DEFINE f == task[t]
<1>1. f.pc \in {"cs", "cc", "tclass", "requested"}
  BY DEF Getter, AfterGetter
<1>2. CellValid(t) /\ Valid(link, TokenIndex(Cell(t)))
  BY <1>1, InRound DEF LoopPcs
<1>3. AfterGetter[f.pc] \in {"cc", "tclass", "requested", "end"}
  BY <1>1 DEF AfterGetter
<1>4. PICK g : /\ Goto(t, g)
               /\ g = NextRound(t) \/ g = [f EXCEPT !.pc = AfterGetter[f.pc]]
  BY <1>2 DEF Getter
<1>5. TaskGood(g)
  BY <1>1, <1>3, <1>4, RoundGood DEF LoopPcs
<1> QED
  BY <1>4, <1>5, GotoTurns DEF Goto

LEMMA EndTestTurns ==
  ASSUME Turns, ~Overlapping, NEW t \in Tasks, EndTest(t)
  PROVE  Turns' /\ UNCHANGED oops
<1> DEFINE f == task[t]
<1>1. f.pc = "end" /\ f.pc \in LoopPcs \ {"loop"}
  BY DEF EndTest, LoopPcs
<1>2. /\ f \in Frame /\ f.seqs = seq /\ f.i \in Index(s_len)
      /\ Cell(t) \in Sequence /\ Cell(t) = heap[seq].cells[f.i] /\ CellValid(t)
      /\ Cell(t).current_position < Cell(t).length
  BY <1>1, InRound
<1>3. CASE piga_seq_end(Cell(t))
  BY <1>1, <1>2, <1>3, GotoTurns, RoundGood DEF EndTest, Goto
<1>4. CASE ~piga_seq_end(Cell(t))
  <2> DEFINE g == [f EXCEPT !.pc = "load"]
  <2>1. Goto(t, g)
    BY <1>2, <1>4 DEF EndTest
  <2>2. g \in Frame /\ g.pc = "load" /\ g.seqs = seq /\ g.i = f.i
    BY <1>2 DEF Frame, TaskPcs, LoopPcs
  <2>3. Cell(t).current_position + 1 < Cell(t).length
    BY <1>2, <1>4 DEF piga_seq_end, Sequence
  <2> HIDE DEF g
  <2>4. TaskGood(g)
    BY <1>2, <2>2, <2>3 DEF TaskGood, PlaceGood
  <2> QED
    BY <2>1, <2>4, GotoTurns DEF Goto
<1> QED
  BY <1>3, <1>4

LEMMA LoadPositionTurns ==
  ASSUME Turns, ~Overlapping, NEW t \in Tasks, LoadPosition(t)
  PROVE  Turns' /\ UNCHANGED oops
<1> DEFINE f == task[t]
           g == [f EXCEPT !.pc = "store", !.reg = Cell(t).current_position + 1]
<1>1. f.pc = "load" /\ f.pc \in LoopPcs \ {"loop"}
  BY DEF LoadPosition, LoopPcs
<1>2. /\ f \in Frame /\ f.seqs = seq /\ f.i \in Index(s_len)
      /\ Cell(t) \in Sequence /\ Cell(t) = heap[seq].cells[f.i] /\ CellValid(t)
      /\ PlaceGood(f, Cell(t))
  BY <1>1, InRound
<1>3. Goto(t, g)
  BY <1>2 DEF LoadPosition
<1>4. Cell(t).current_position + 1 \in Nat
  BY <1>2 DEF Sequence
<1>5. /\ g \in Frame /\ g.pc = "store" /\ g.seqs = seq /\ g.i = f.i
      /\ g.reg = Cell(t).current_position + 1
  BY <1>2, <1>4 DEF Frame, TaskPcs, LoopPcs
<1> HIDE DEF g
<1>6. TaskGood(g)
  BY <1>1, <1>2, <1>5 DEF TaskGood, PlaceGood
<1> QED
  BY <1>3, <1>6, GotoTurns DEF Goto

(* The token never meets the end of its sequence after EndTest.            *)
LEMMA TestPositionTurns ==
  ASSUME Turns, ~Overlapping, NEW t \in Tasks, TestPosition(t)
  PROVE  Turns' /\ UNCHANGED oops
<1>1. task[t].pc = "test" /\ task[t].pc \in LoopPcs \ {"loop"}
  BY DEF TestPosition, LoopPcs
<1>2. /\ Cell(t) \in Sequence /\ CellValid(t) /\ PlaceGood(task[t], Cell(t))
      /\ Cell(t).current_position < Cell(t).length
  BY <1>1, InRound
<1>3. \A n \in {task[t].reg, Cell(t).current_position} : n # Cell(t).length
  BY <1>1, <1>2 DEF PlaceGood, Sequence
<1>4. Goto(t, NextRound(t))
  BY <1>2, <1>3 DEF TestPosition
<1> QED
  BY <1>1, <1>4, GotoTurns, RoundGood DEF Goto

LEMMA NoTakeBack ==
  ASSUME Turns, ~Overlapping, NEW t \in Tasks
  PROVE  ~TakeBack(t)
BY InRound DEF TakeBack, PlaceGood, LoopPcs

(* The increment moves the token of the only task in the loop one link on. *)
LEMMA StorePositionTurns ==
  ASSUME Turns, ~Overlapping, NEW t \in Tasks, StorePosition(t),
         \A u \in Tasks \ {t} : ~InLoop(u)
  PROVE  Turns' /\ UNCHANGED oops
<1> DEFINE f == task[t]
           g == [f EXCEPT !.pc = "test"]
           old == heap[seq].cells
           new == [old EXCEPT ![f.i] = [@ EXCEPT !.current_position = f.reg]]
<1>1. f.pc = "store" /\ f.pc \in LoopPcs \ {"loop"}
  BY DEF StorePosition, LoopPcs
<1>2. /\ f \in Frame /\ f.seqs = seq /\ f.i \in Index(s_len)
      /\ seq \in Blocks /\ link \in Blocks /\ s_len \in Nat /\ l_len \in Nat
      /\ old \in [Index(s_len) -> Sequence]
      /\ Cell(t) = old[f.i] /\ CellValid(t)
      /\ PlaceGood(f, old[f.i])
      /\ \A d \in Loaders : ~InSetPol(d)
  BY <1>1, InRound
<1>3. SetPosition(t, f.reg, g)
  BY <1>2 DEF StorePosition
<1>4. /\ UNCHANGED <<status, seq, link, s_len, l_len, loader, retry, calls, oops>>
      /\ task' = [task EXCEPT ![t] = g]
  BY <1>3 DEF SetPosition
<1>5. /\ \A b \in Blocks \ {seq} : heap'[b] = heap[b]
      /\ heap'[seq].cells = new
  <2>1. HeapShape(heap)
    BY DEF Turns, Ownership
  <2> QED
    BY <1>2, <1>3, <2>1, SetPositionShape
<1>6. f.reg \in Nat /\ f.reg < old[f.i].length
  BY <1>1, <1>2 DEF Frame, PlaceGood
<1>7. /\ new \in [Index(s_len) -> Sequence]
      /\ new[f.i].current_position = f.reg
      /\ new[f.i].length = old[f.i].length
      /\ new[f.i].link_offset = old[f.i].link_offset
      /\ \A i \in Index(s_len) \ {f.i} : new[i] = old[i]
  <2> DEFINE c == [old[f.i] EXCEPT !.current_position = f.reg]
  <2>1. c \in Sequence /\ c.current_position = f.reg
        /\ c.length = old[f.i].length /\ c.link_offset = old[f.i].link_offset
    BY <1>2, <1>6 DEF Sequence
  <2>2. new = [old EXCEPT ![f.i] = c]
    OBVIOUS
  <2> HIDE DEF c, old, new
  <2> QED
    BY <1>2, <2>1, <2>2
<1> HIDE DEF new
<1>8. Ownership'
  BY TaskOwnership DEF Turns, TaskStep
<1>9. /\ g \in Frame /\ g.pc = "test" /\ g.seqs = seq /\ g.i = f.i /\ g.reg = f.reg
  BY <1>2 DEF Frame, TaskPcs, LoopPcs
<1> HIDE DEF g
<1>10. /\ task'[t] = g /\ \A u \in Tasks \ {t} : task'[u] = task[u]
       /\ task' = [u \in Tasks |-> task'[u]]
  BY <1>4 DEF Turns
<1>11. ASSUME NEW u \in Tasks PROVE TaskGood(task[u])'
  <2>1. CASE u = t
    <3>1. PlaceGood(g, new[f.i])
      BY <1>7, <1>9 DEF PlaceGood
    <3>2. task'[u] = g
      BY <1>10, <2>1
    <3> QED
      BY <1>2, <1>4, <1>5, <1>9, <3>1, <3>2 DEF TaskGood
  <2>2. CASE u # t
    <3>1. task'[u] = task[u] /\ task[u].pc \notin LoopPcs
      BY <1>10, <2>2 DEF InLoop
    <3> QED
      BY <3>1 DEF Turns, TaskGood
  <2> QED
    BY <2>1, <2>2
<1>12. ASSUME NEW d \in Loaders PROVE CopiesGood(loader[d])'
  <2>1. loader[d].pc \notin {"freeS", "freeL", "publish"}
    BY <1>2 DEF InSetPol
  <2>2. ASSUME loader[d].pc \in {"allocL", "copyL"}
        PROVE  heap'[loader[d].s] = heap[loader[d].s]
    <3>1. loader[d].s \in Blocks /\ loader[d].todo = Globals
      BY <2>2 DEF Turns, Ownership, LoaderOK, LoadFrame, Pointers, Idle
    <3>2. Owns(loader[d], loader[d].s)
      BY <2>2, <3>1 DEF Owns, Globals
    <3>3. Installed(seq)
      BY <1>2 DEF Installed, SeqGone, InSetPol
    <3> QED
      BY <1>2, <1>5, <3>1, <3>2, <3>3 DEF Turns, Ownership
  <2> QED
    BY <1>4, <2>1, <2>2 DEF Turns, CopiesGood
<1>13. TablesGood'
  <2>1. TablesGood /\ s_len # 0
    BY <1>2 DEF Turns, Index
  <2>2. link # seq
    BY <1>2, NullIsNoBlock DEF Turns, Ownership, SeqGone, LinkGone, InSetPol
  <2>3. DOMAIN heap'[link].cells = Index(l_len)
    BY <1>2, <1>5, <2>1, <2>2 DEF TablesGood
  <2>4. \A i \in Index(s_len) :
          /\ new[i].current_position < new[i].length
          /\ new[i].link_offset + new[i].length <= l_len
    BY <1>6, <1>7, <2>1 DEF TablesGood
  <2> QED
    BY <1>2, <1>4, <1>5, <1>7, <2>3, <2>4 DEF TablesGood
<1> QED
  BY <1>4, <1>8, <1>10, <1>11, <1>12, <1>13 DEF Turns

LEMMA ReturnTurns ==
  ASSUME Turns, NEW t \in Tasks, Return(t)
  PROVE  Turns' /\ UNCHANGED oops
<1> DEFINE f == task[t]
<1>1. /\ UNCHANGED <<status, heap, seq, link, s_len, l_len, loader, oops>>
      /\ task' = [task EXCEPT ![t] = Idle]
  BY DEF Return
<1>2. f \in Frame
  BY DEF Return, Turns, TaskGood, Idle
<1>3. PICK echild \in BOOLEAN :
        /\ retry' = [retry EXCEPT ![t] = IF echild THEN f.vec ELSE NoVector]
        /\ calls' = IF f.seen
                    THEN Append(calls, [vec |-> f.vec, denied |-> f.denied,
                                        retried |-> echild, start |-> f.start])
                    ELSE calls
  BY Zenon DEF Return
<1>4. retry' \in [Tasks -> Vectors \cup {NoVector}]
  <2>1. f.vec \in Vectors
    BY <1>2 DEF Frame
  <2> QED
    BY <1>3, <2>1 DEF Turns
<1>5. calls' \in Seq(CallRecord)
  <2>1. [vec |-> f.vec, denied |-> f.denied, retried |-> echild, start |-> f.start]
           \in CallRecord
    BY <1>2, <1>3 DEF Frame, CallRecord
  <2> QED
    BY <1>3, <2>1 DEF Turns
<1>6. Ownership'
  BY TaskOwnership DEF Turns, TaskStep
<1>7. TaskGood(Idle)
  BY DEF TaskGood, Idle, LoopPcs
<1>8. /\ \A u \in Tasks : TaskGood(task'[u])
      /\ task' = [u \in Tasks |-> task'[u]]
  BY <1>1, <1>7 DEF Turns
<1>9. \A u \in Tasks : TaskGood(task[u])'
  BY <1>1, <1>8 DEF TaskGood
<1>10. \A d \in Loaders : CopiesGood(loader[d])'
  BY <1>1 DEF Turns, CopiesGood
<1>11. (\A d \in Loaders : ~InSetPol(d)') => TablesGood'
  BY <1>1 DEF Turns, InSetPol, TablesGood
<1> QED
  BY <1>1, <1>4, <1>5, <1>6, <1>8, <1>9, <1>10, <1>11 DEF Turns

(* A step of a task while no other task is in the loop.                    *)
LEMMA TaskTurns ==
  ASSUME Turns, ~Overlapping, NEW t \in Tasks,
         (\E v \in Vectors : Begin(t, v)) \/ BeginRetry(t) \/ TaskStep(t),
         \A u, w \in Tasks : InLoop(u) /\ InLoop(w) => u = w
  PROVE  Turns' /\ UNCHANGED oops
<1>1. CASE (\E v \in Vectors : Begin(t, v)) \/ BeginRetry(t)
  <2>1. UNCHANGED oops
    BY <1>1 DEF Begin, BeginRetry, Enter, Goto
  <2> QED
    BY <1>1, <2>1, BeginTurns
<1>2. CASE StorePosition(t)
  BY <1>2, StorePositionTurns DEF StorePosition, InLoop, LoopPcs
<1>3. CASE TaskStep(t) /\ ~StorePosition(t)
  BY <1>3, WalkTurns, GetterTurns, EndTestTurns, LoadPositionTurns, TestPositionTurns,
     NoTakeBack, ReturnTurns DEF TaskStep
<1> QED
  BY <1>1, <1>2, <1>3

(* The tables that another loader has filled are not blocks of d.          *)
LEMMA ForeignBlocks ==
  ASSUME Turns, ~Overlapping, NEW d \in Loaders, NEW e \in Loaders \ {d}
  PROVE  /\ loader[e].pc \in {"allocL", "copyL", "freeS", "freeL", "publish"} =>
              loader[e].s \in Blocks /\ ~Owns(loader[d], loader[e].s)
         /\ loader[e].pc \in {"freeS", "freeL", "publish"} =>
              loader[e].l \in Blocks /\ ~Owns(loader[d], loader[e].l)
<1> DEFINE f == loader[e]
<1>1. Ownership /\ LoaderOK(f) /\ CopiesGood(f)
  BY DEF Turns, Ownership
<1>2. ASSUME f.pc \in {"allocL", "copyL", "freeS", "freeL", "publish"}
      PROVE  f.s \in Blocks /\ ~Owns(loader[d], f.s)
  <2>1. f.s \in Blocks /\ (f.pc # "publish" => f.todo = Globals)
    BY <1>1, <1>2 DEF LoaderOK, LoadFrame, Pointers, Idle
  <2>2. CASE "seq" \in f.todo
    <3>1. Owns(f, f.s)
      BY <1>2, <2>2 DEF Owns
    <3> QED
      BY <1>1, <2>1, <3>1 DEF Ownership
  <2>3. CASE "seq" \notin f.todo
    <3>1. f.pc = "publish" /\ seq = f.s
      BY <1>1, <2>1, <2>3 DEF CopiesGood, Globals
    <3>2. ~SeqGone
      BY <2>3, <3>1, AloneInSetPol DEF SeqGone, InSetPol
    <3> QED
      BY <1>1, <2>1, <3>1, <3>2 DEF Ownership, Installed
  <2> QED
    BY <2>2, <2>3
<1>3. ASSUME f.pc \in {"freeS", "freeL", "publish"}
      PROVE  f.l \in Blocks /\ ~Owns(loader[d], f.l)
  <2>1. f.l \in Blocks /\ (f.pc # "publish" => f.todo = Globals)
    BY <1>1, <1>3 DEF LoaderOK, LoadFrame, Pointers, Idle
  <2>2. CASE "link" \in f.todo
    <3>1. Owns(f, f.l)
      BY <1>3, <2>2 DEF Owns
    <3> QED
      BY <1>1, <2>1, <3>1 DEF Ownership
  <2>3. CASE "link" \notin f.todo
    <3>1. f.pc = "publish" /\ link = f.l
      BY <1>1, <2>1, <2>3 DEF CopiesGood, Globals
    <3>2. ~LinkGone
      BY <2>3, <3>1, AloneInSetPol DEF LinkGone, InSetPol
    <3> QED
      BY <1>1, <2>1, <3>1, <3>2 DEF Ownership, Installed
  <2> QED
    BY <2>2, <2>3
<1> QED
  BY <1>2, <1>3

(* A step of a loader before piga_set_pol that writes to its own blocks.   *)
LEMMA OwnBlocksTurns ==
  ASSUME Turns, ~Overlapping, NEW d \in Loaders, ~InSetPol(d),
         LoaderKeeps, Ownership', CopiesGood(loader[d])',
         \A e \in Loaders \ {d} : loader'[e] = loader[e],
         \A b \in Blocks : heap'[b].cells = heap[b].cells \/ Owns(loader[d], b)
  PROVE  Turns'
<1>1. UNCHANGED <<status, seq, link, s_len, l_len, task, retry, calls>>
  BY DEF LoaderKeeps
<1>2. ASSUME \A e \in Loaders : ~InSetPol(e), NEW b \in Blocks, b = seq \/ b = link
      PROVE  heap'[b].cells = heap[b].cells
  <2>1. Installed(b)
    BY <1>2 DEF Installed, SeqGone, LinkGone, InSetPol
  <2> QED
    BY <2>1 DEF Turns, Ownership
<1>3. ASSUME NEW t \in Tasks PROVE TaskGood(task[t])'
  <2>1. CASE task[t].pc \in LoopPcs \ {"loop"}
    <3>1. seq \in Blocks /\ \A e \in Loaders : ~InSetPol(e)
      BY <2>1, InRound
    <3>2. heap'[seq].cells = heap[seq].cells
      BY <1>2, <3>1
    <3> QED
      BY <1>1, <3>2 DEF Turns, TaskGood
  <2>2. CASE task[t].pc \notin LoopPcs \ {"loop"}
    BY <1>1, <2>2 DEF Turns, TaskGood
  <2> QED
    BY <2>1, <2>2
<1>4. ASSUME NEW e \in Loaders \ {d} PROVE CopiesGood(loader[e])'
  <2>1. CopiesGood(loader[e]) /\ loader'[e] = loader[e]
    BY DEF Turns
  <2>2. loader[e].pc \in {"allocL", "copyL", "freeS", "freeL", "publish"} =>
          heap'[loader[e].s].cells = heap[loader[e].s].cells
    BY ForeignBlocks
  <2>3. loader[e].pc \in {"freeS", "freeL", "publish"} =>
          heap'[loader[e].l].cells = heap[loader[e].l].cells
    BY ForeignBlocks
  <2> QED
    BY <1>1, <2>1, <2>2, <2>3 DEF CopiesGood
<1>5. ASSUME \A e \in Loaders : ~InSetPol(e)' PROVE TablesGood'
  <2>1. \A e \in Loaders : ~InSetPol(e)
    BY <1>5 DEF InSetPol
  <2>2. TablesGood
    BY <2>1 DEF Turns
  <2>3. \A b \in Blocks : b = seq \/ b = link => heap'[b].cells = heap[b].cells
    BY <1>2, <2>1
  <2> QED
    BY <1>1, <2>2, <2>3 DEF TablesGood
<1> QED
  BY <1>1, <1>3, <1>4, <1>5 DEF Turns

LEMMA BeginLoadTurns ==
  ASSUME Turns, ~Overlapping, NEW d \in Loaders, NEW p \in Policies, BeginLoad(d, p)
  PROVE  Turns' /\ UNCHANGED oops
<1> DEFINE g == [pc |-> "allocS", p |-> p, s |-> Null, l |-> Null,
                 todo |-> {"seq", "link", "s_len", "l_len"}]
<1>1. /\ loader' = [loader EXCEPT ![d] = g] /\ loader[d].pc = "idle"
      /\ UNCHANGED heap /\ LoaderKeeps
  BY DEF BeginLoad, Loading
<1>2. g.pc = "allocS"
  OBVIOUS
<1> HIDE DEF g
<1>3. loader'[d] = g /\ \A e \in Loaders \ {d} : loader'[e] = loader[e]
  BY <1>1 DEF Turns, Ownership
<1>4. Ownership' /\ ~InSetPol(d)
  BY <1>1, BeginLoadOwnership DEF Turns, InSetPol
<1>5. CopiesGood(loader[d])'
  BY <1>2, <1>3 DEF CopiesGood
<1> QED
  BY <1>1, <1>3, <1>4, <1>5, OwnBlocksTurns DEF LoaderKeeps

LEMMA VmallocCells ==
  ASSUME Turns, NEW d \in Loaders, vmalloc(d)
  PROVE  \A b \in Blocks : heap'[b].cells = heap[b].cells
<1> DEFINE r == [heap[Fresh] EXCEPT !.state = "live"]
<1>1. heap' = [heap EXCEPT ![Fresh] = r] /\ Fresh \in Blocks
  BY DEF vmalloc, Fresh, Unused
<1>2. HeapShape(heap)
  BY DEF Turns, Ownership
<1>3. r.cells = heap[Fresh].cells
  BY <1>1, <1>2 DEF HeapShape
<1> HIDE DEF r
<1> QED
  BY <1>1, <1>2, <1>3 DEF HeapShape

LEMMA VmallocTurns ==
  ASSUME Turns, ~Overlapping, NEW d \in Loaders, vmalloc(d)
  PROVE  Turns' /\ UNCHANGED oops
<1> DEFINE f == loader[d]
           g == IF f.pc = "allocS" THEN [f EXCEPT !.pc = "copyS", !.s = Fresh]
                                   ELSE [f EXCEPT !.pc = "copyL", !.l = Fresh]
<1>1. /\ f.pc \in {"allocS", "allocL"}
      /\ loader' = [loader EXCEPT ![d] = g] /\ LoaderKeeps
  BY DEF vmalloc, Loading
<1>2. f \in LoadFrame /\ CopiesGood(f)
  BY <1>1 DEF Turns, Ownership, LoaderOK, Idle
<1>3. /\ f.pc = "allocS" => g.pc = "copyS"
      /\ f.pc = "allocL" => g.pc = "copyL" /\ g.s = f.s /\ g.p = f.p
  BY <1>1, <1>2 DEF LoadFrame
<1> HIDE DEF g
<1>4. loader'[d] = g /\ \A e \in Loaders \ {d} : loader'[e] = loader[e]
  BY <1>1 DEF Turns, Ownership
<1>5. Ownership' /\ ~InSetPol(d)
  BY <1>1, VmallocOwnership DEF Turns, InSetPol
<1>6. \A b \in Blocks : heap'[b].cells = heap[b].cells
  BY VmallocCells
<1>7. f.pc = "allocL" => f.s \in Blocks
  BY <1>2 DEF Turns, Ownership, LoaderOK, LoadFrame, Pointers, Idle
<1>8. CopiesGood(loader[d])'
  BY <1>1, <1>2, <1>3, <1>4, <1>6, <1>7 DEF CopiesGood
<1> QED
  BY <1>1, <1>4, <1>5, <1>6, <1>8, OwnBlocksTurns DEF LoaderKeeps

LEMMA CopyCells ==
  ASSUME Turns, NEW d \in Loaders, copy_from_user(d)
  PROVE  LET f == loader[d]
             x == IF f.pc = "copyS" THEN f.s ELSE f.l
         IN  /\ f.s \in Blocks
             /\ f.pc = "copyL" => f.l \in Blocks /\ f.s # f.l
             /\ x \in Blocks /\ Owns(f, x)
             /\ heap'[x].cells = IF f.pc = "copyS" THEN f.p.seq ELSE f.p.link
             /\ \A b \in Blocks \ {x} : heap'[b].cells = heap[b].cells
<1> DEFINE f == loader[d]
           x == IF f.pc = "copyS" THEN f.s ELSE f.l
           c == IF f.pc = "copyS" THEN f.p.seq ELSE f.p.link
           r == [heap[x] EXCEPT !.cells = c]
<1>1. f.pc \in {"copyS", "copyL"} /\ heap' = [heap EXCEPT ![x] = r]
  BY DEF copy_from_user
<1>2. LoaderOK(f) /\ HeapShape(heap)
  BY <1>1 DEF Turns, Ownership
<1>3. /\ f.s \in Blocks /\ f.todo = Globals
      /\ f.pc = "copyL" => f.l \in Blocks /\ f.s # f.l
  BY <1>1, <1>2 DEF LoaderOK, LoadFrame, Pointers, Idle
<1>4. x \in Blocks /\ Owns(f, x)
  BY <1>1, <1>3 DEF Owns, Globals
<1> HIDE DEF x, c
<1>5. r.cells = c
  BY <1>2, <1>4 DEF HeapShape
<1> HIDE DEF r
<1>6. heap'[x].cells = c /\ \A b \in Blocks \ {x} : heap'[b].cells = heap[b].cells
  BY <1>1, <1>2, <1>4, <1>5 DEF HeapShape
<1> QED
  BY <1>3, <1>4, <1>6 DEF x, c

LEMMA CopyTurns ==
  ASSUME Turns, ~Overlapping, NEW d \in Loaders, copy_from_user(d)
  PROVE  Turns' /\ UNCHANGED oops
<1> DEFINE f == loader[d]
           g == [f EXCEPT !.pc = IF f.pc = "copyS" THEN "allocL" ELSE "freeS"]
<1>1. /\ f.pc \in {"copyS", "copyL"}
      /\ loader' = [loader EXCEPT ![d] = g] /\ LoaderKeeps
  BY DEF copy_from_user, Loading
<1>2. f \in LoadFrame /\ CopiesGood(f)
  BY <1>1 DEF Turns, Ownership, LoaderOK, Idle
<1>3. /\ g.s = f.s /\ g.l = f.l /\ g.p = f.p
      /\ g.pc = IF f.pc = "copyS" THEN "allocL" ELSE "freeS"
  BY <1>2 DEF LoadFrame
<1> HIDE DEF g
<1>4. loader'[d] = g /\ \A e \in Loaders \ {d} : loader'[e] = loader[e]
  BY <1>1 DEF Turns, Ownership
<1>5. Ownership' /\ ~InSetPol(d)
  BY <1>1, CopyOwnership DEF Turns, InSetPol
<1> DEFINE x == IF f.pc = "copyS" THEN f.s ELSE f.l
<1>6. /\ f.s \in Blocks
      /\ f.pc = "copyL" => f.l \in Blocks /\ f.s # f.l
      /\ x \in Blocks /\ Owns(f, x)
      /\ heap'[x].cells = IF f.pc = "copyS" THEN f.p.seq ELSE f.p.link
      /\ \A b \in Blocks \ {x} : heap'[b].cells = heap[b].cells
  BY CopyCells
<1>7. CopiesGood(loader[d])'
  BY <1>1, <1>2, <1>3, <1>4, <1>6 DEF CopiesGood
<1>8. \A b \in Blocks : heap'[b].cells = heap[b].cells \/ Owns(loader[d], b)
  BY <1>6
<1> QED
  BY <1>1, <1>4, <1>5, <1>7, <1>8, OwnBlocksTurns DEF LoaderKeeps

LEMMA LoadFailsCells ==
  ASSUME Turns, NEW d \in Loaders, LoadFails(d)
  PROVE  \A b \in Blocks : heap'[b].cells = heap[b].cells \/ Owns(loader[d], b)
<1> DEFINE f == loader[d]
<1>1. f.pc \in {"allocS", "copyS", "allocL", "copyL"} /\ heap' = Freed({f.s, f.l})
  BY DEF LoadFails, GiveBack
<1>2. f.todo = Globals
  BY <1>1 DEF Turns, Ownership, LoaderOK, Idle
<1>3. \A b \in Blocks : b \in {f.s, f.l} => Owns(f, b)
  BY <1>1, <1>2 DEF Owns, Globals
<1> QED
  BY <1>1, <1>3, FreedShape DEF Turns, Ownership

LEMMA LoadFailsTurns ==
  ASSUME Turns, ~Overlapping, NEW d \in Loaders, LoadFails(d)
  PROVE  Turns' /\ UNCHANGED oops
<1> DEFINE f == loader[d]
<1>1. /\ f.pc \in {"allocS", "copyS", "allocL", "copyL"}
      /\ loader' = [loader EXCEPT ![d] = Idle] /\ LoaderKeeps
  BY DEF LoadFails, Loading
<1>2. \A b \in Blocks : heap'[b].cells = heap[b].cells \/ Owns(f, b)
  BY LoadFailsCells
<1>3. loader'[d] = Idle /\ \A e \in Loaders \ {d} : loader'[e] = loader[e]
  BY <1>1 DEF Turns, Ownership
<1>4. CopiesGood(loader[d])'
  BY <1>3 DEF CopiesGood, Idle
<1>5. Ownership' /\ ~InSetPol(d)
  BY <1>1, LoadFailsOwnership DEF Turns, InSetPol
<1> QED
  BY <1>1, <1>2, <1>3, <1>4, <1>5, OwnBlocksTurns DEF LoaderKeeps

(* piga_set_pol frees tables that live, and that nobody uses.              *)
LEMMA FreeOldTurns ==
  ASSUME Turns, ~Overlapping, ~oops, NEW d \in Loaders, FreeOldTables(d)
  PROVE  Turns' /\ UNCHANGED oops
<1> DEFINE f == loader[d]
<1>1. PICK ptr, then :
        /\ \/ f.pc = "freeS" /\ ptr = seq /\ then = "freeL"
           \/ f.pc = "freeL" /\ ptr = link /\ then = "publish"
        /\ FreeOld(d, f.pc, ptr, then)
  BY DEF FreeOldTables, FreeOld
<1>2. /\ InSetPol(d)
      /\ \A e \in Loaders \ {d} : loader[e].pc \notin {"freeS", "freeL", "publish"}
      /\ \A t \in Tasks : ~InLoop(t)
  BY <1>1, AloneInSetPol DEF InSetPol
<1>3. \A b \in Blocks : b = ptr => Installed(b)
  BY <1>1, <1>2 DEF Installed, SeqGone, LinkGone
<1>4. ptr = Null \/ heap[ptr].state = "live"
  BY <1>1, <1>3 DEF Turns, Ownership, Pointers
<1> DEFINE g == [f EXCEPT !.pc = then]
<1>5. /\ heap' = Freed({ptr}) /\ loader' = [loader EXCEPT ![d] = g] /\ LoaderKeeps
  BY <1>1, <1>4 DEF FreeOld, Loading
<1>6. UNCHANGED <<status, seq, link, s_len, l_len, task, retry, calls, oops>>
  BY <1>5 DEF LoaderKeeps
<1>7. f \in LoadFrame /\ CopiesGood(f) /\ f.todo = Globals /\ f.s \in Blocks /\ f.l \in Blocks
  BY <1>1 DEF Turns, Ownership, LoaderOK, LoadFrame, Pointers, Idle
<1>8. g.s = f.s /\ g.l = f.l /\ g.p = f.p /\ g.todo = Globals /\ g.pc = then
  BY <1>7 DEF LoadFrame
<1> HIDE DEF g
<1>9. loader'[d] = g /\ \A e \in Loaders \ {d} : loader'[e] = loader[e]
  BY <1>5 DEF Turns, Ownership
<1>10. \A b \in Blocks \ {ptr} : heap'[b] = heap[b]
  BY <1>5, FreedShape DEF Turns, Ownership
<1>11. \A e \in Loaders : \A b \in Blocks : Owns(loader[e], b) => heap'[b] = heap[b]
  BY <1>3, <1>10 DEF Turns, Ownership
<1>12. CopiesGood(loader[d])'
  <2>1. Owns(f, f.s) /\ Owns(f, f.l)
    BY <1>1, <1>7 DEF Owns, Globals
  <2>2. heap'[f.s] = heap[f.s] /\ heap'[f.l] = heap[f.l]
    BY <1>7, <1>11, <2>1
  <2> QED
    BY <1>1, <1>7, <1>8, <1>9, <2>2 DEF CopiesGood, Globals
<1>13. ASSUME NEW e \in Loaders \ {d} PROVE CopiesGood(loader[e])'
  <2>1. ASSUME loader[e].pc \in {"allocL", "copyL"}
        PROVE  heap'[loader[e].s] = heap[loader[e].s]
    <3>1. loader[e].s \in Blocks /\ loader[e].todo = Globals
      BY <2>1 DEF Turns, Ownership, LoaderOK, LoadFrame, Pointers, Idle
    <3>2. Owns(loader[e], loader[e].s)
      BY <2>1, <3>1 DEF Owns, Globals
    <3> QED
      BY <1>11, <3>1, <3>2
  <2> QED
    BY <1>2, <1>9, <2>1 DEF Turns, CopiesGood
<1>14. ASSUME NEW t \in Tasks PROVE TaskGood(task[t])'
  BY <1>2, <1>6 DEF Turns, TaskGood, InLoop
<1>15. InSetPol(d)'
  BY <1>1, <1>8, <1>9 DEF InSetPol
<1>16. Ownership'
  BY <1>6, FreeOldOwnership DEF Turns
<1> QED
  BY <1>6, <1>12, <1>13, <1>14, <1>15, <1>16 DEF Turns

(* In a well-formed policy every token is on a link of its sequence.       *)
LEMMA PolicyGood ==
  ASSUME NEW p \in Policies
  PROVE  /\ p.s_len \in Nat /\ p.l_len \in Nat
         /\ p.seq \in [Index(p.s_len) -> Sequence] /\ DOMAIN p.link = Index(p.l_len)
         /\ \A i \in Index(p.s_len) :
              /\ p.seq[i].current_position < p.seq[i].length
              /\ p.seq[i].link_offset + p.seq[i].length <= p.l_len
BY PolicyAssumption DEF WellFormed, Sequence

(* The frame of a task after a policy is installed.                        *)
LEMMA ResetGood ==
  ASSUME NEW f, f = Idle \/ f \in Frame, f.pc \notin LoopPcs
  PROVE  LET g == [f EXCEPT !.seen = FALSE, !.start = 0]
         IN  (g = Idle \/ g \in Frame) /\ g.pc \notin LoopPcs
<1>1. CASE f = Idle
  <2>1. f \in [pc : {"idle"}, seen : {FALSE}, start : {0}]
    BY <1>1 DEF Idle
  <2>2. Idle.pc \notin LoopPcs
    BY DEF Idle, LoopPcs
  <2>3. [f EXCEPT !.seen = FALSE, !.start = 0] = f
    BY <2>1
  <2> QED
    BY <1>1, <2>2, <2>3
<1>2. CASE f \in Frame
  <2> DEFINE g == [f EXCEPT !.seen = FALSE, !.start = 0]
  <2>1. g \in Frame /\ g.pc = f.pc
    BY <1>2 DEF Frame
  <2> QED
    BY <2>1
<1> QED
  BY <1>1, <1>2

LEMMA PublishTurns ==
  ASSUME Turns, ~Overlapping, NEW d \in Loaders, Publish(d)
  PROVE  Turns' /\ UNCHANGED oops
<1> DEFINE f == loader[d]
<1>1. PICK g \in f.todo :
        /\ f.pc = "publish"
        /\ seq'   = IF g = "seq"   THEN f.s ELSE seq
        /\ link'  = IF g = "link"  THEN f.l ELSE link
        /\ s_len' = IF g = "s_len" THEN f.p.s_len ELSE s_len
        /\ l_len' = IF g = "l_len" THEN f.p.l_len ELSE l_len
        /\ \/ /\ f.todo = {g} /\ loader' = [loader EXCEPT ![d] = Idle]
              /\ calls' = <<>>
              /\ task' = [t \in Tasks |-> [task[t] EXCEPT !.seen = FALSE, !.start = 0]]
           \/ /\ f.todo # {g}
              /\ loader' = [loader EXCEPT ![d] = [f EXCEPT !.todo = f.todo \ {g}]]
              /\ UNCHANGED <<calls, task>>
        /\ UNCHANGED <<status, heap, retry, oops>>
  BY DEF Publish, Loading
<1>2. /\ \A e \in Loaders \ {d} : loader[e].pc \notin {"freeS", "freeL", "publish"}
      /\ \A t \in Tasks : task[t].pc \notin LoopPcs
  BY <1>1, AloneInSetPol DEF InSetPol, InLoop
<1>3. /\ f \in LoadFrame /\ CopiesGood(f) /\ f.s \in Blocks /\ f.l \in Blocks
      /\ f.p \in Policies
  <2>1. LoaderOK(f) /\ CopiesGood(f) /\ f.pc = "publish"
    BY <1>1 DEF Turns, Ownership
  <2>2. f \in LoadFrame /\ f.s # Null /\ f.l # Null
    BY <2>1 DEF LoaderOK, Idle
  <2> QED
    BY <2>1, <2>2 DEF LoadFrame, Pointers
<1>4. Ownership'
  BY PublishOwnership DEF Turns
<1>5. \A e \in Loaders \ {d} : loader'[e] = loader[e]
  BY <1>1 DEF Turns, Ownership
<1>6. ASSUME NEW e \in Loaders \ {d} PROVE CopiesGood(loader[e])'
  BY <1>1, <1>2, <1>5 DEF Turns, CopiesGood
<1>7. status' \in BOOLEAN /\ retry' \in [Tasks -> Vectors \cup {NoVector}]
  BY <1>1 DEF Turns
<1>8. CASE f.todo = {g}
  <2>1. loader' = [loader EXCEPT ![d] = Idle] /\ calls' = <<>> /\ heap' = heap
    BY <1>1, <1>8
  <2>2. CopiesGood(loader[d])'
    <3>1. loader'[d] = Idle
      BY <2>1 DEF Turns, Ownership
    <3> QED
      BY <3>1 DEF CopiesGood, Idle
  <2>3. seq' = f.s /\ link' = f.l /\ s_len' = f.p.s_len /\ l_len' = f.p.l_len
    BY <1>1, <1>3, <1>8 DEF CopiesGood
  <2>4. heap'[seq'].cells = f.p.seq /\ heap'[link'].cells = f.p.link
    BY <1>1, <1>3, <2>1, <2>3 DEF CopiesGood
  <2>5. TablesGood'
    BY <1>3, <2>3, <2>4, PolicyGood DEF TablesGood
  <2>6. ASSUME NEW t \in Tasks PROVE TaskGood(task[t])'
    <3>1. task[t] = Idle \/ task[t] \in Frame
      BY DEF Turns, TaskGood
    <3>2. task'[t] = [task[t] EXCEPT !.seen = FALSE, !.start = 0]
      BY <1>1, <1>8
    <3>3. /\ task'[t] = Idle \/ task'[t] \in Frame
          /\ task'[t].pc \notin LoopPcs
      BY <1>2, <3>1, <3>2, ResetGood
    <3> QED
      BY <3>3 DEF TaskGood
  <2>7. calls' \in Seq(CallRecord) /\ task' = [t \in Tasks |-> task'[t]]
    <3> DEFINE F(t) == [task[t] EXCEPT !.seen = FALSE, !.start = 0]
    <3>1. task' = [t \in Tasks |-> F(t)]
      BY <1>1, <1>8
    <3> HIDE DEF F
    <3>2. task' = [t \in Tasks |-> task'[t]]
      BY <3>1
    <3> QED
      BY <2>1, <3>2
  <2> QED
    BY <1>1, <1>4, <1>6, <1>7, <2>2, <2>5, <2>6, <2>7 DEF Turns
<1>9. CASE f.todo # {g}
  <2> DEFINE k == [f EXCEPT !.todo = f.todo \ {g}]
  <2>1. loader' = [loader EXCEPT ![d] = k] /\ UNCHANGED <<calls, task, heap>>
    BY <1>1, <1>9
  <2>2. /\ k.pc = "publish" /\ k.s = f.s /\ k.l = f.l /\ k.p = f.p
        /\ k.todo = f.todo \ {g}
    BY <1>1, <1>3 DEF LoadFrame
  <2> HIDE DEF k
  <2>3. loader'[d] = k
    BY <2>1 DEF Turns, Ownership
  <2>4. CopiesGood(loader[d])'
    BY <1>1, <1>3, <2>1, <2>2, <2>3 DEF CopiesGood
  <2>5. InSetPol(d)'
    BY <2>2, <2>3 DEF InSetPol
  <2>6. ASSUME NEW t \in Tasks PROVE TaskGood(task[t])'
    BY <1>2, <2>1 DEF Turns, TaskGood
  <2> QED
    BY <1>1, <1>4, <1>6, <1>7, <2>1, <2>4, <2>5, <2>6 DEF Turns
<1> QED
  BY <1>8, <1>9

LEMMA SwitchTurns ==
  ASSUME Turns, \/ \E b \in StatusWrites : piga_proc_status_write(b)
                \/ \E b \in ModeWrites : piga_proc_mode_write(b)
                \/ UNCHANGED vars
  PROVE  Turns' /\ UNCHANGED oops
<1>1. /\ UNCHANGED <<heap, seq, link, s_len, l_len, task, loader, retry, calls, oops>>
      /\ status' \in BOOLEAN
  BY SwitchKeeps, SwitchAssumption DEF Turns
<1>2. Ownership'
  <2>1. HeapShape(heap') /\ \A b \in Blocks : heap'[b].state = heap[b].state
    BY <1>1 DEF Turns, Ownership
  <2> QED
    BY <1>1, <2>1, OwnershipKept DEF Turns
<1>3. \A t \in Tasks : TaskGood(task[t])'
  BY <1>1 DEF Turns, TaskGood
<1>4. \A d \in Loaders : CopiesGood(loader[d])'
  BY <1>1 DEF Turns, CopiesGood
<1>5. (\A d \in Loaders : ~InSetPol(d)') => TablesGood'
  BY <1>1 DEF Turns, InSetPol, TablesGood
<1> QED
  BY <1>1, <1>2, <1>3, <1>4, <1>5 DEF Turns

LEMMA TurnsStep ==
  ASSUME Turns, ~Overlapping, ~oops, [Next]_vars,
         \A u, w \in Tasks : InLoop(u) /\ InLoop(w) => u = w
  PROVE  Turns' /\ ~oops'
<1>1. ASSUME NEW t \in Tasks,
             (\E v \in Vectors : Begin(t, v)) \/ BeginRetry(t) \/ TaskStep(t)
      PROVE  Turns' /\ UNCHANGED oops
  BY <1>1, TaskTurns
<1>2. ASSUME NEW d \in Loaders, NEW p \in Policies, BeginLoad(d, p)
      PROVE  Turns' /\ UNCHANGED oops
  BY <1>2, BeginLoadTurns
<1>3. ASSUME NEW d \in Loaders, LoaderStep(d)
      PROVE  Turns' /\ UNCHANGED oops
  BY <1>3, VmallocTurns, CopyTurns, LoadFailsTurns, FreeOldTurns, PublishTurns
     DEF LoaderStep
<1>4. ASSUME \/ \E b \in StatusWrites : piga_proc_status_write(b)
             \/ \E b \in ModeWrites : piga_proc_mode_write(b)
             \/ UNCHANGED vars
      PROVE  Turns' /\ UNCHANGED oops
  BY <1>4, SwitchTurns
<1> QED
  BY <1>1, <1>2, <1>3, <1>4 DEF Next

LEMMA TurnsInit == Init => Turns
<1> SUFFICES ASSUME Init PROVE Turns
  OBVIOUS
<1>1. /\ \A t \in Tasks : task[t] = Idle
      /\ \A d \in Loaders : loader[d] = Idle
      /\ status \in BOOLEAN
      /\ retry \in [Tasks -> Vectors \cup {NoVector}]
  BY DEF Init
<1>2. calls \in Seq(CallRecord)
  <2>1. calls = << >>
    BY DEF Init
  <2> QED
    BY <2>1
<1>3. TablesGood
  BY DEF Init, TablesGood
<1>4. \A t \in Tasks : TaskGood(task[t])
  BY <1>1 DEF TaskGood, Idle, LoopPcs
<1>5. \A d \in Loaders : CopiesGood(loader[d])
  BY <1>1 DEF CopiesGood, Idle
<1>6. task = [t \in Tasks |-> task[t]]
  BY DEF Init
<1> QED
  BY <1>1, <1>2, <1>3, <1>4, <1>5, <1>6, OwnershipInit DEF Turns

(* As long as calls take turns, nobody uses a table that is freed or reads *)
(* or writes past its end, and no table is freed twice: for every number   *)
(* of tasks and loaders, every schedule and all well-formed policies.      *)
THEOREM SafeInTurns == Spec => []MemorySafeInTurns
<1>1. Init => TurnsInv
  BY TurnsInit DEF Init, TurnsInv, Overlapping, InSetPol, InLoop, Idle, LoopPcs
<1>2. TurnsInv /\ [Next]_vars => TurnsInv'
  <2> SUFFICES ASSUME TurnsInv, [Next]_vars PROVE TurnsInv'
    OBVIOUS
  <2>1. Overlapping' => overlap'
    BY HistoryGrows DEF TurnsInv
  <2>2. (\E t, u \in Tasks : t # u /\ InLoop(t)' /\ InLoop(u)') => raced'
    <3>1. CASE Next
      BY <3>1 DEF Next, NoteHistory
    <3>2. CASE UNCHANGED vars
      BY <3>2 DEF vars, InLoop, TurnsInv
    <3> QED
      BY <3>1, <3>2
  <2>3. ASSUME ~overlap', ~raced' PROVE ~oops' /\ Turns'
    <3>1. ~overlap /\ ~raced
      BY <2>3, HistoryGrows DEF TurnsInv
    <3>2. /\ Turns /\ ~oops /\ ~Overlapping
          /\ \A u, w \in Tasks : InLoop(u) /\ InLoop(w) => u = w
      BY <3>1 DEF TurnsInv
    <3> QED
      BY <3>2, TurnsStep
  <2> QED
    BY <2>1, <2>2, <2>3 DEF TurnsInv
<1>3. TurnsInv => MemorySafeInTurns
  BY DEF TurnsInv, MemorySafeInTurns
<1> QED
  BY <1>1, <1>2, <1>3, PTL DEF Spec
=============================================================================
