---------------------------- MODULE PigaThreads -----------------------------
(***************************************************************************)
(* The PIGA monitor step by step.  Tasks run avc_has_perm_flags and, in    *)
(* it, the loop of piga_has_perm; loaders run sys_piga_add_sequence.  The  *)
(* code takes no lock, so the steps of all of them interleave.             *)
(*                                                                         *)
(* One step is one access to shared memory.  Where the compiler may keep   *)
(* a value in a register or read it again, both are possible.  Memory is a *)
(* heap of blocks that are never reused, so that a use after vfree shows;  *)
(* it sets oops, after which nothing is claimed and nothing happens.       *)
(***************************************************************************)
EXTENDS PigaTables, Sequences, FiniteSets

CONSTANTS
  Tasks, Loaders,
  Vectors, AvdOf, Policies,  \* as in Piga
  NoVector,
  StatusWrites, ModeWrites,  \* what is written to the two switches
  MaxCalls,                  \* bound on the checks recorded per policy
  MaxBlocks                  \* bound on the blocks ever allocated

ASSUME SwitchAssumption == StatusWrites \subseteq BOOLEAN /\ ModeWrites \subseteq BOOLEAN
ASSUME BoundAssumption == MaxCalls \in Nat /\ MaxBlocks \in Nat \ {0}
ASSUME PolicyAssumption == \A p \in Policies : WellFormed(p)

VARIABLES
  status, audit_only,   \* the two procfs switches
  heap,                 \* the blocks
  seq, link,            \* pointers: numbers of blocks, 0 for NULL
  s_len, l_len,
  task,                 \* the frame of every task in avc_has_perm_flags
  loader,               \* the frame of every loader in sys_piga_add_sequence
  retry, calls,         \* as in Piga; a record also says how many checks were
                        \* complete when this one began
  oops,                 \* history: a wild access has happened
  overlap,              \* history: a policy was installed while another
                        \* task or loader was using the tables
  raced                 \* history: two tasks were in the loop at once

vars == <<status, audit_only, heap, seq, link, s_len, l_len, task, loader,
          retry, calls, oops, overlap, raced>>

Null == 0
Blocks == 1 .. MaxBlocks

(* The answers of avc_has_perm_noaudit and avc_audit are those of Piga;    *)
(* the tables of that module are the contents of the two blocks.           *)
NoCells == [i \in {} |-> 0]
Cells(b) == IF b = Null THEN NoCells ELSE heap[b].cells

A == INSTANCE Piga WITH seq <- Cells(seq), link <- Cells(link)

Idle == [pc |-> "idle", seen |-> FALSE, start |-> 0]

Init ==
  /\ status = FALSE /\ audit_only = FALSE
  /\ heap = [b \in Blocks |-> [state |-> "unused", cells |-> NoCells]]
  /\ seq = Null /\ link = Null /\ s_len = 0 /\ l_len = 0
  /\ task = [t \in Tasks |-> Idle]
  /\ loader = [d \in Loaders |-> Idle]
  /\ retry = [t \in Tasks |-> NoVector]
  /\ calls = <<>>
  /\ oops = FALSE /\ overlap = FALSE /\ raced = FALSE

(* Who is using the tables, and who is installing new ones.                *)
LoopPcs == {"loop", "cs", "cc", "tclass", "requested", "end",
            "load", "store", "test", "dec"}
InLoop(t) == task[t].pc \in LoopPcs
InSetPol(d) == loader[d].pc \in {"freeS", "freeL", "publish"}
Overlapping == \E d \in Loaders : /\ InSetPol(d)
                                  /\ \/ \E t \in Tasks : InLoop(t)
                                     \/ \E e \in Loaders \ {d} : InSetPol(e)

-----------------------------------------------------------------------------
(* Memory.                                                                 *)

(* Can cell k of block b be read?                                          *)
Valid(b, k) == b # Null /\ heap[b].state = "live" /\ k \in DOMAIN heap[b].cells

Oops == oops' = TRUE /\ UNCHANGED <<status, audit_only, heap, seq, link, s_len,
                                    l_len, task, loader, retry, calls>>

(* The frame of task t after a step, everything shared left alone.         *)
Goto(t, frame) ==
  /\ task' = [task EXCEPT ![t] = frame]
  /\ UNCHANGED <<status, audit_only, heap, seq, link, s_len, l_len, loader,
                 retry, calls, oops>>

-----------------------------------------------------------------------------
(* avc_has_perm_flags.                                                     *)

(* The decision of avc_has_perm_noaudit; PIGA is asked unless it refuses.  *)
(* walks holds FALSE for a ref-walk and TRUE for an rcu-walk: which of     *)
(* them this check is made in only matters in avc_audit.                   *)
Enter(t, v, avd, walks) ==
  Goto(t, [pc |-> IF A!SelinuxDenies(v, avd) THEN "audit" ELSE "status",
           vec |-> v, avd |-> avd, walks |-> walks,
           denied |-> A!SelinuxDenies(v, avd), seen |-> FALSE,
           seqs |-> Null, i |-> 0, reg |-> 0, start |-> Len(calls)])

Begin(t, v) ==
  /\ task[t].pc = "idle" /\ retry[t] = NoVector
  /\ Len(calls) + Cardinality({u \in Tasks : retry[u] # NoVector \/ task[u].pc # "idle"})
       < MaxCalls
  /\ \E avd \in AvdOf[v] : Enter(t, v, avd, BOOLEAN)

BeginRetry(t) ==
  /\ task[t].pc = "idle" /\ retry[t] # NoVector
  /\ \E avd \in AvdOf[retry[t]] : Enter(t, retry[t], avd, {FALSE})

(* piga_has_perm up to the loop.                                           *)
ReadStatus(t) ==
  /\ task[t].pc = "status"
  /\ Goto(t, [task[t] EXCEPT !.pc = IF status THEN "mode" ELSE "audit",
                             !.seen = status])

ReadMode(t) ==
  /\ task[t].pc = "mode"
  /\ Goto(t, [task[t] EXCEPT
       !.pc = IF A!AuditOnlySkips(task[t].vec, task[t].avd) THEN "audit" ELSE "getseq"])

piga_get_sequence_at(t) ==
  /\ task[t].pc = "getseq"
  /\ Goto(t, [task[t] EXCEPT !.pc = "loop", !.seqs = seq, !.i = 0])

LoopTestShort(t) ==
  /\ task[t].pc = "loop"
  /\ Goto(t, [task[t] EXCEPT !.pc = IF task[t].i + 1 < s_len THEN "cs" ELSE "audit"])

LoopTestInclusive(t) ==
  /\ task[t].pc = "loop"
  /\ Goto(t, [task[t] EXCEPT !.pc = IF task[t].i <= s_len THEN "cs" ELSE "audit"])

LoopTest(t) ==
  /\ task[t].pc = "loop"
  /\ Goto(t, [task[t] EXCEPT !.pc = IF task[t].i < s_len THEN "cs" ELSE "audit"])

(* The frame for the next round of the loop.                               *)
NextRound(t) == [task[t] EXCEPT !.pc = "loop", !.i = task[t].i + 1]

(* Cell i of the table that piga_get_sequence_at returned.                 *)
Cell(t) == heap[task[t].seqs].cells[task[t].i]
CellValid(t) == Valid(task[t].seqs, task[t].i)

(* The four getters, in the order of the condition of the loop.            *)
AfterGetter == [cs |-> "cc", cc |-> "tclass", tclass |-> "requested", requested |-> "end"]

(* What the condition makes of the field that a getter returns.            *)
Agrees(field, lk, v) ==
  CASE field = "cs"        -> lk.cs = v.ssid
    [] field = "cc"        -> lk.cc = v.tsid
    [] field = "tclass"    -> lk.tclass = v.tclass
    [] field = "requested" -> lk.requested \cap v.requested # {}

Getter(t) ==
  LET at == task[t].pc IN
  /\ at \in DOMAIN AfterGetter
  /\ IF CellValid(t) /\ Valid(link, TokenIndex(Cell(t)))
     THEN Goto(t, IF Agrees(at, heap[link].cells[TokenIndex(Cell(t))], task[t].vec)
                  THEN [task[t] EXCEPT !.pc = AfterGetter[at]]
                  ELSE NextRound(t))
     ELSE Oops

EndTestStops(t) ==
  /\ task[t].pc = "end"
  /\ IF CellValid(t)
     THEN Goto(t, IF piga_seq_end(Cell(t))
                  THEN [task[t] EXCEPT !.pc = "audit", !.denied = TRUE]
                  ELSE [task[t] EXCEPT !.pc = "load"])
     ELSE Oops

(* A sequence at its end refuses the access; the loop goes on.             *)
EndTest(t) ==
  /\ task[t].pc = "end"
  /\ IF CellValid(t)
     THEN Goto(t, IF piga_seq_end(Cell(t)) THEN [NextRound(t) EXCEPT !.denied = TRUE]
                                           ELSE [task[t] EXCEPT !.pc = "load"])
     ELSE Oops

(* piga_seq_next: the increment is a load and a store; the test and the    *)
(* decrement use the register or read the memory again.  A decrement of 0  *)
(* wraps in C; the cell before the table or before the stretch that the    *)
(* getters then read is the one -1 names.                                  *)
LoadPosition(t) ==
  /\ task[t].pc = "load"
  /\ IF CellValid(t)
     THEN Goto(t, [task[t] EXCEPT !.pc = "store", !.reg = Cell(t).current_position + 1])
     ELSE Oops

SetPosition(t, n, frame) ==
  /\ heap' = [heap EXCEPT ![task[t].seqs].cells[task[t].i].current_position = n]
  /\ task' = [task EXCEPT ![t] = frame]
  /\ UNCHANGED <<status, audit_only, seq, link, s_len, l_len, loader, retry,
                 calls, oops>>

StorePosition(t) ==
  /\ task[t].pc = "store"
  /\ IF CellValid(t)
     THEN SetPosition(t, task[t].reg, [task[t] EXCEPT !.pc = "test"])
     ELSE Oops

TestPosition(t) ==
  /\ task[t].pc = "test"
  /\ IF CellValid(t)
     THEN \E n \in {task[t].reg, Cell(t).current_position} :
            Goto(t, IF n = Cell(t).length THEN [task[t] EXCEPT !.pc = "dec"]
                                          ELSE NextRound(t))
     ELSE Oops

TakeBack(t) ==
  /\ task[t].pc = "dec"
  /\ IF CellValid(t)
     THEN \E n \in {task[t].reg, Cell(t).current_position} :
            SetPosition(t, n - 1, NextRound(t))
     ELSE Oops

(* avc_audit, and the return to the caller.                                *)
Return(t) ==
  /\ task[t].pc = "audit"
  /\ \E rcu \in task[t].walks : \E quiet \in BOOLEAN :
       LET f == task[t]
           echild == rcu /\ A!Audited(f.vec, f.avd, f.denied, quiet) # {}
       IN  /\ retry' = [retry EXCEPT ![t] = IF echild THEN f.vec ELSE NoVector]
           /\ calls' = IF f.seen
                       THEN Append(calls, [vec |-> f.vec, denied |-> f.denied,
                                           retried |-> echild, start |-> f.start])
                       ELSE calls
  /\ task' = [task EXCEPT ![t] = Idle]
  /\ UNCHANGED <<status, audit_only, heap, seq, link, s_len, l_len, loader, oops>>

-----------------------------------------------------------------------------
(* sys_piga_add_sequence.                                                  *)

Loading(d, frame) == loader' = [loader EXCEPT ![d] = frame]

LoaderKeeps == UNCHANGED <<status, audit_only, seq, link, s_len, l_len, task,
                           retry, calls, oops>>

Unused == {b \in Blocks : heap[b].state = "unused"}

(* The block vmalloc returns.                                              *)
Fresh == CHOOSE b \in Unused : TRUE

Freed(bs) == [b \in Blocks |-> IF b \in bs THEN [state |-> "freed", cells |-> NoCells]
                                           ELSE heap[b]]

(* The system call with its arguments; a policy has both tables and        *)
(* lengths.  No call is modelled once the blocks are used up.              *)
BeginLoad(d, p) ==
  /\ loader[d].pc = "idle" /\ Unused # {}
  /\ Loading(d, [pc |-> "allocS", p |-> p, s |-> Null, l |-> Null,
                 todo |-> {"seq", "link", "s_len", "l_len"}])
  /\ UNCHANGED heap /\ LoaderKeeps

(* There is memory.                                                        *)
vmalloc(d) ==
  LET f == loader[d] IN
  /\ f.pc \in {"allocS", "allocL"} /\ Unused # {}
  /\ heap' = [heap EXCEPT ![Fresh].state = "live"]
  /\ Loading(d, IF f.pc = "allocS" THEN [f EXCEPT !.pc = "copyS", !.s = Fresh]
                                   ELSE [f EXCEPT !.pc = "copyL", !.l = Fresh])
  /\ LoaderKeeps

copy_from_user(d) ==
  LET f == loader[d] IN
  /\ f.pc \in {"copyS", "copyL"}
  /\ heap' = IF f.pc = "copyS" THEN [heap EXCEPT ![f.s].cells = f.p.seq]
                               ELSE [heap EXCEPT ![f.l].cells = f.p.link]
  /\ Loading(d, [f EXCEPT !.pc = IF f.pc = "copyS" THEN "allocL" ELSE "freeS"])
  /\ LoaderKeeps

GiveBackLast(f) == Freed({IF f.l # Null THEN f.l ELSE f.s})

(* The error paths free what the call has allocated so far.                *)
GiveBack(f) == Freed({f.s, f.l})

(* vmalloc finds no memory, or copy_from_user meets a bad address.         *)
LoadFails(d) ==
  /\ loader[d].pc \in {"allocS", "copyS", "allocL", "copyL"}
  /\ heap' = GiveBack(loader[d])
  /\ Loading(d, Idle)
  /\ LoaderKeeps

(* piga_set_pol: free the table that the pointer names, if any; a block    *)
(* that is not live would be freed twice.                                  *)
FreeOld(d, pc, ptr, then) ==
  /\ loader[d].pc = pc
  /\ IF ptr = Null \/ heap[ptr].state = "live"
     THEN /\ heap' = Freed({ptr})
          /\ Loading(d, [loader[d] EXCEPT !.pc = then])
          /\ LoaderKeeps
     ELSE Oops

FreeOldTables(d) ==
  FreeOld(d, "freeS", seq, "freeL") \/ FreeOld(d, "freeL", link, "publish")

(* The four assignments, in the order the compiler likes.  With the last   *)
(* one the policy is installed; checks then under way are not recorded.    *)
Publish(d) ==
  LET f == loader[d] IN
  /\ f.pc = "publish"
  /\ \E g \in f.todo :
       /\ seq'   = IF g = "seq"   THEN f.s ELSE seq
       /\ link'  = IF g = "link"  THEN f.l ELSE link
       /\ s_len' = IF g = "s_len" THEN f.p.s_len ELSE s_len
       /\ l_len' = IF g = "l_len" THEN f.p.l_len ELSE l_len
       /\ IF f.todo = {g}
          THEN /\ Loading(d, Idle)
               /\ calls' = <<>>
               /\ task' = [t \in Tasks |-> [task[t] EXCEPT !.seen = FALSE, !.start = 0]]
          ELSE /\ Loading(d, [f EXCEPT !.todo = @ \ {g}])
               /\ UNCHANGED <<calls, task>>
  /\ UNCHANGED <<status, audit_only, heap, retry, oops>>

-----------------------------------------------------------------------------
piga_proc_status_write(b) ==
  /\ status' = b
  /\ UNCHANGED <<audit_only, heap, seq, link, s_len, l_len, task, loader, retry,
                 calls, oops>>

piga_proc_mode_write(b) ==
  /\ audit_only' = b
  /\ UNCHANGED <<status, heap, seq, link, s_len, l_len, task, loader, retry,
                 calls, oops>>

(* The steps of a task that has entered avc_has_perm_flags.                *)
TaskStep(t) ==
  \/ ReadStatus(t) \/ ReadMode(t) \/ piga_get_sequence_at(t) \/ LoopTest(t)
  \/ Getter(t) \/ EndTest(t)
  \/ LoadPosition(t) \/ StorePosition(t) \/ TestPosition(t) \/ TakeBack(t)
  \/ Return(t)

LoaderStep(d) ==
  vmalloc(d) \/ copy_from_user(d) \/ LoadFails(d) \/ FreeOldTables(d) \/ Publish(d)

(* The two histories of what happened at the same time go on with every    *)
(* step.                                                                   *)
NoteHistory ==
  /\ overlap' = (overlap \/ Overlapping')
  /\ raced' = (raced \/ \E t, u \in Tasks : t # u /\ InLoop(t)' /\ InLoop(u)')

Next ==
  /\ ~oops
  /\ \/ \E t \in Tasks : \E v \in Vectors : Begin(t, v)
     \/ \E t \in Tasks : BeginRetry(t) \/ TaskStep(t)
     \/ \E d \in Loaders : \E p \in Policies : BeginLoad(d, p)
     \/ \E d \in Loaders : LoaderStep(d)
     \/ \E b \in StatusWrites : piga_proc_status_write(b)
     \/ \E b \in ModeWrites : piga_proc_mode_write(b)
  /\ NoteHistory

Spec == Init /\ [][Next]_vars

-----------------------------------------------------------------------------
(* Properties.                                                             *)

(* The tables are used only while they live and inside their bounds, and   *)
(* freed only once, as long as calls take turns: one task at a time in the *)
(* loop of piga_has_perm, and nobody in it during piga_set_pol.  piga.c    *)
(* has no lock that would make them.                                       *)
MemorySafeInTurns == oops => overlap \/ raced

(* Every block is given back or in use: the error paths of                 *)
(* sys_piga_add_sequence and piga_set_pol lose none.                       *)
NoLeak ==
  ((\A d \in Loaders : loader[d].pc = "idle") /\ ~overlap /\ ~oops) =>
     {b \in Blocks : heap[b].state = "live"} = {seq, link} \ {Null}

(* The ways to find sequence i among the checks that passed, each one      *)
(* complete before the next began.                                         *)
Chains(i) ==
  LET sq == Cells(seq)[i]
      passed == {n \in 1 .. Len(calls) : ~calls[n].denied}
  IN  {f \in [Index(sq.length) -> passed] :
         /\ \A a, b \in Index(sq.length) : a < b => f[a] <= calls[f[b]].start
         /\ \A a \in Index(sq.length) :
              Matches(Cells(link)[sq.link_offset + a], calls[f[a]].vec)}

(* PIGA is there to impose its signatures with the memory it adds to       *)
(* SELinux: accesses made one after the other never complete one, also     *)
(* when other tasks make accesses at the same time.                        *)
NoSignaturePassed ==
  (~overlap /\ ~oops /\ \A d \in Loaders : ~InSetPol(d)) =>
     \A i \in DOMAIN Cells(seq) : Chains(i) = {}
=============================================================================
