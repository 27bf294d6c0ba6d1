--------------------------- MODULE PigaSerialProofs ---------------------------
(***************************************************************************)
(* Taken in turns, the steps of PigaThreads implement the atomic monitor,  *)
(* for every number of tasks and loaders and all well-formed policies.     *)
(***************************************************************************)
EXTENDS PigaSerial, PigaThreadsProofs, SequenceTheorems

(* What the loop has to do for access v, in terms of the settled tables.   *)
Waits(j, v) == Matches(settled.link[TokenIndex(settled.seq[j])], v)
Ends(j) == piga_seq_end(settled.seq[j])
Moved(j, v) == IF Waits(j, v) /\ ~Ends(j) THEN piga_seq_next(settled.seq[j])
                                          ELSE settled.seq[j]
Refuses(v, S) == \E j \in S : Waits(j, v) /\ Ends(j)
AllMoved(v) == [j \in Index(settled.s_len) |-> Moved(j, v)]

(* Nothing but the tokens differs from the settled tables, or nothing.     *)
SameLinks == Cells(link) = settled.link /\ s_len = settled.s_len /\ l_len = settled.l_len
Unmoved == SameLinks /\ Cells(seq) = settled.seq

(* At most one task or loader is under way.                                *)
Alone ==
  /\ \A t, u \in Tasks : task[t].pc # "idle" /\ task[u].pc # "idle" => t = u
  /\ \A d, e \in Loaders : loader[d].pc # "idle" /\ loader[e].pc # "idle" => d = e
  /\ \A t \in Tasks : \A d \in Loaders : task[t].pc = "idle" \/ loader[d].pc = "idle"

(* What the getters have found out of the link under the token.            *)
Tested(f) ==
  LET lk == settled.link[TokenIndex(settled.seq[f.i])]
      past == {"end", "load", "store", "test"}
  IN  /\ f.pc \in {"cc", "tclass", "requested"} \cup past => lk.cs = f.vec.ssid
      /\ f.pc \in {"tclass", "requested"} \cup past => lk.cc = f.vec.tsid
      /\ f.pc \in {"requested"} \cup past => lk.tclass = f.vec.tclass
      /\ f.pc \in past => lk.requested \cap f.vec.requested # {}
      /\ f.pc \in {"load", "store", "test"} => ~Ends(f.i)

(* The tokens of the sequences the loop has done are moved.                *)
Done(f) == IF f.pc = "test" THEN f.i + 1 ELSE f.i
LoopProgress(f) ==
  /\ f.i \in 0 .. s_len
  /\ f.denied <=> Refuses(f.vec, Index(f.i))
  /\ \A j \in Index(s_len) :
       Cells(seq)[j] = IF j < Done(f) THEN Moved(j, f.vec) ELSE settled.seq[j]
  /\ Tested(f)

Consulted(f) == ~A!SelinuxDenies(f.vec, f.avd)
Examined(f) == Consulted(f) /\ status /\ ~A!AuditOnlySkips(f.vec, f.avd)

(* The loop is over, or was not needed.                                    *)
Answered(f) ==
  /\ f.seen <=> Consulted(f) /\ status
  /\ f.denied <=> ~Consulted(f) \/ (Examined(f) /\ Refuses(f.vec, Index(settled.s_len)))
  /\ Cells(seq) = IF Examined(f) THEN AllMoved(f.vec) ELSE settled.seq

(* The guard of the atomic operation that the check of task t amounts to.  *)
Asked(t, f) ==
  /\ f.avd \in AvdOf[f.vec]
  /\ retry[t] # NoVector => f.vec = retry[t] /\ f.walks = {FALSE}
  /\ retry[t] = NoVector =>
       Len(calls) + Cardinality({u \in Tasks : retry[u] # NoVector}) < MaxCalls

(* How far a check has come.                                               *)
CheckProgress(f) ==
  /\ SameLinks
  /\ f.pc \in {"status", "mode", "getseq"} =>
       Cells(seq) = settled.seq /\ ~f.denied /\ Consulted(f)
  /\ f.pc = "status" => ~f.seen
  /\ f.pc = "mode" => f.seen /\ status
  /\ f.pc \in {"getseq"} \cup LoopPcs => f.seen /\ Examined(f)
  /\ f.pc \in LoopPcs => LoopProgress(f)
  /\ f.pc = "audit" => Answered(f)

Progress ==
  /\ settled.s_len \in Nat /\ settled.seq \in [Index(settled.s_len) -> Sequence]
  /\ \A t \in Tasks : task[t].pc # "idle" => Asked(t, task[t]) /\ CheckProgress(task[t])
  /\ (\A t \in Tasks : task[t].pc = "idle") /\ (\A d \in Loaders : ~InSetPol(d)) => Unmoved

(* The inductive invariant for ImplementsMonitor.                          *)
SerialInv ==
  /\ Turns /\ ~oops
  /\ Alone
  /\ Progress

-----------------------------------------------------------------------------
LEMMA AloneFacts ==
  ASSUME Alone
  PROVE  /\ ~Overlapping
         /\ \A u, w \in Tasks : InLoop(u) /\ InLoop(w) => u = w
         /\ \A t \in Tasks : task[t].pc # "idle" => \A d \in Loaders : ~InSetPol(d)
BY DEF Alone, Overlapping, InLoop, InSetPol, LoopPcs

LEMMA AloneStep ==
  ASSUME SerialNext
  PROVE  Alone'
<1>1. \A x, y \in Busy' : x = y
  BY DEF SerialNext
<1> QED
  BY <1>1, UserAssumption DEF Busy, Alone

LEMMA SerialTurns ==
  ASSUME SerialInv, [SerialNext]_allvars
  PROVE  Turns' /\ ~oops' /\ Alone'
<1>1. [Next]_vars
  BY DEF SerialNext, allvars, vars
<1>2. Turns' /\ ~oops'
  BY <1>1, AloneFacts, TurnsStep DEF SerialInv
<1>3. Alone'
  <2>1. CASE SerialNext
    BY <2>1, AloneStep
  <2>2. CASE UNCHANGED allvars
    BY <2>2 DEF SerialInv, Alone, allvars
  <2> QED
    BY <2>1, <2>2
<1> QED
  BY <1>2, <1>3

(* What the settled tables and the current ones look like during a check.  *)
LEMMA TablesInCheck ==
  ASSUME SerialInv, NEW t \in Tasks, task[t].pc # "idle"
  PROVE  /\ task[t] \in Frame /\ Asked(t, task[t]) /\ CheckProgress(task[t])
         /\ s_len \in Nat /\ s_len = settled.s_len
         /\ Cells(seq) = [j \in Index(s_len) |-> Cells(seq)[j]]
         /\ settled.seq \in [Index(s_len) -> Sequence]
<1>1. task[t] \in Frame /\ Asked(t, task[t]) /\ CheckProgress(task[t])
  BY DEF SerialInv, Turns, TaskGood, Idle, Progress
<1>2. s_len = settled.s_len /\ s_len \in Nat /\ settled.seq \in [Index(s_len) -> Sequence]
  BY <1>1 DEF CheckProgress, SameLinks, SerialInv, Progress
<1>3. TablesGood
  BY AloneFacts DEF SerialInv, Turns
<1>4. Cells(seq) = [j \in Index(s_len) |-> Cells(seq)[j]]
  <2>1. CASE s_len = 0 /\ seq = Null
    <3>1. Index(0) = {}
      BY DEF Index
    <3> QED
      BY <2>1, <3>1 DEF Cells, NoCells
  <2>2. CASE seq \in Blocks /\ heap[seq].cells \in [Index(s_len) -> Sequence]
    BY <2>2, NullIsNoBlock DEF Cells
  <2> QED
    BY <1>3, <2>1, <2>2 DEF TablesGood
<1> QED
  BY <1>1, <1>2, <1>4

(* What a task in a round of the loop reads.                               *)
LEMMA CellsInRound ==
  ASSUME SerialInv, NEW t \in Tasks, task[t].pc \in LoopPcs \ {"loop", "test"}
  PROVE  /\ task[t].i \in Index(s_len)
         /\ Cells(seq)[task[t].i] = settled.seq[task[t].i]
         /\ Cell(t) = settled.seq[task[t].i]
         /\ heap[link].cells = settled.link
<1> DEFINE f == task[t]
<1>1. f.pc # "idle" /\ f.pc \in LoopPcs
  BY DEF LoopPcs
<1>2. LoopProgress(f) /\ SameLinks
  BY <1>1, TablesInCheck DEF CheckProgress
<1>3. /\ f \in Frame /\ f.seqs = seq /\ f.i \in Index(s_len) /\ seq \in Blocks /\ link \in Blocks
      /\ Cell(t) = heap[seq].cells[f.i]
  BY AloneFacts, InRound DEF SerialInv
<1>4. Cells(seq) = heap[seq].cells /\ Cells(link) = heap[link].cells
  BY <1>3, NullIsNoBlock DEF Cells
<1>5. f.i \in Nat /\ Done(f) = f.i
  BY <1>3 DEF Frame, Done
<1>6. Cells(seq)[f.i] = settled.seq[f.i]
  BY <1>2, <1>3, <1>5 DEF LoopProgress
<1> QED
  BY <1>2, <1>3, <1>4, <1>6 DEF SameLinks

-----------------------------------------------------------------------------
(* Steps of a check.                                                       *)

(* The part of the frame that stays what it was.                           *)
Same(f, g) == g.vec = f.vec /\ g.avd = f.avd /\ g.walks = f.walks

(* What a step of the check leaves of the atomic monitor.                  *)
MonitorKept == UNCHANGED <<status, audit_only, retry, calls, settled>>

(* How far a check has come depends on the tables and switches only.       *)
LEMMA CheckKept ==
  ASSUME NEW g, CheckProgress(g),
         UNCHANGED <<status, audit_only, heap, seq, link, s_len, l_len, settled>>
  PROVE  CheckProgress(g)'
<1>1. Cells(seq)' = Cells(seq) /\ (SameLinks' <=> SameLinks)
  BY DEF Cells, SameLinks
<1>2. (Consulted(g)' <=> Consulted(g)) /\ (Examined(g)' <=> Examined(g))
  BY DEF Consulted, Examined, A!SelinuxDenies, A!AuditOnlySkips
<1>3. Tested(g)' <=> Tested(g)
  BY DEF Tested, Ends
<1>4. LoopProgress(g)' <=> LoopProgress(g)
  BY <1>1, <1>3 DEF LoopProgress, Done, Refuses, Moved, Waits, Ends
<1>5. Answered(g)' <=> Answered(g)
  BY <1>1, <1>2 DEF Answered, Refuses, AllMoved, Moved, Waits, Ends
<1> QED
  BY <1>1, <1>2, <1>4, <1>5 DEF CheckProgress

LEMMA GotoProgress ==
  ASSUME SerialInv, SerialNext, NEW t \in Tasks, NEW g, Goto(t, g), g.pc # "idle",
         Asked(t, g), CheckProgress(g)
  PROVE  Progress' /\ MonitorKept
<1>1. /\ UNCHANGED <<status, audit_only, heap, seq, link, s_len, l_len, loader, retry, calls>>
      /\ task' = [task EXCEPT ![t] = g]
  BY DEF Goto
<1>2. task'[t] = g
  BY <1>1 DEF SerialInv, Turns
<1>3. Busy' # {}
  BY <1>2 DEF Busy
<1>4. settled' = settled
  BY <1>3 DEF SerialNext
<1>5. \A u \in Tasks : task'[u].pc # "idle" => u = t
  BY <1>2, AloneStep DEF Alone
<1>6. Asked(t, task[t])'
  BY <1>1, <1>2 DEF Asked
<1>7. CheckProgress(task[t])'
  BY <1>1, <1>2, <1>4, CheckKept
<1> QED
  BY <1>1, <1>2, <1>4, <1>5, <1>6, <1>7 DEF Progress, MonitorKept, SerialInv

LEMMA EnterProgress ==
  ASSUME SerialInv, SerialNext, NEW t \in Tasks, task[t].pc = "idle",
         NEW v \in Vectors, NEW avd \in AvdOf[v], NEW walks,
         Enter(t, v, avd, walks),
         retry[t] # NoVector => v = retry[t] /\ walks = {FALSE},
         retry[t] = NoVector =>
           Len(calls) + Cardinality({u \in Tasks : retry[u] # NoVector}) < MaxCalls
  PROVE  Progress' /\ MonitorKept
<1> DEFINE pc == IF A!SelinuxDenies(v, avd) THEN "audit" ELSE "status"
           denied == A!SelinuxDenies(v, avd)
           g == [pc |-> pc, vec |-> v, avd |-> avd, walks |-> walks,
                 denied |-> denied, seen |-> FALSE,
                 seqs |-> Null, i |-> 0, reg |-> 0, start |-> Len(calls)]
<1>1. Goto(t, g)
  BY DEF Enter
<1>2. denied \in BOOLEAN
  BY DEF A!SelinuxDenies
<1>3. /\ g.pc = pc /\ g.vec = v /\ g.avd = avd /\ g.walks = walks /\ g.denied = denied
      /\ g.seen = FALSE
  OBVIOUS
<1>4. (Consulted(g) <=> ~denied) /\ pc = IF denied THEN "audit" ELSE "status"
  BY <1>3 DEF Consulted
<1> HIDE DEF g, denied, pc
<1>5. Unmoved
  <2>1. task'[t] = g /\ g.pc # "idle" /\ \A u \in Tasks \ {t} : task'[u] = task[u]
    BY <1>1, <1>3, <1>4 DEF Goto, SerialInv, Turns
  <2>2. /\ \A u \in Tasks \ {t} : task[u].pc = "idle"
        /\ \A d \in Loaders : loader[d].pc = "idle"
    <3>1. loader' = loader
      BY <1>1 DEF Goto
    <3> QED
      BY <2>1, <3>1, AloneStep DEF Alone
  <2> QED
    BY <2>2 DEF SerialInv, Progress, InSetPol
<1>6. Asked(t, g)
  BY <1>3 DEF Asked
<1>7. CheckProgress(g)
  <2>1. CASE denied
    BY <1>3, <1>4, <1>5, <2>1 DEF CheckProgress, Unmoved, Answered, Examined, LoopPcs
  <2>2. CASE ~denied
    BY <1>3, <1>4, <1>5, <2>2 DEF CheckProgress, Unmoved, LoopPcs
  <2> QED
    BY <2>1, <2>2
<1> QED
  BY <1>1, <1>3, <1>4, <1>6, <1>7, GotoProgress

LEMMA BeginProgress ==
  ASSUME SerialInv, SerialNext, NEW t \in Tasks,
         (\E v \in Vectors : Begin(t, v)) \/ BeginRetry(t)
  PROVE  Progress' /\ MonitorKept
<1>1. ASSUME NEW v \in Vectors, Begin(t, v)
      PROVE  Progress' /\ MonitorKept
  <2>1. PICK avd \in AvdOf[v] : Enter(t, v, avd, BOOLEAN)
    BY <1>1, Zenon DEF Begin
  <2>2. PICK walks : walks = BOOLEAN
    BY Zenon
  <2>3. Enter(t, v, avd, walks)
    BY <2>1, <2>2, Zenon
  <2>4. \A u \in Tasks \ {t} : task[u].pc = "idle"
    <3>1. task'[t].pc # "idle" /\ \A u \in Tasks \ {t} : task'[u] = task[u]
      BY <2>3 DEF Enter, Goto, SerialInv, Turns
    <3> QED
      BY <3>1, AloneStep DEF Alone
  <2>5. /\ task[t].pc = "idle" /\ retry[t] = NoVector
        /\ Len(calls) + Cardinality({u \in Tasks : retry[u] # NoVector}) < MaxCalls
    <3>1. /\ task[t].pc = "idle" /\ retry[t] = NoVector
          /\ Len(calls) + Cardinality({u \in Tasks : retry[u] # NoVector \/ task[u].pc # "idle"})
               < MaxCalls
      BY <1>1 DEF Begin
    <3>2. {u \in Tasks : retry[u] # NoVector \/ task[u].pc # "idle"}
             = {u \in Tasks : retry[u] # NoVector}
      BY <2>4, <3>1
    <3> QED
      BY <3>1, <3>2
  <2> QED
    BY <2>1, <2>3, <2>5, EnterProgress
<1>2. CASE BeginRetry(t)
  <2>1. PICK avd \in AvdOf[retry[t]] : Enter(t, retry[t], avd, {FALSE})
    BY <1>2, Zenon DEF BeginRetry
  <2>2. task[t].pc = "idle" /\ retry[t] # NoVector /\ retry[t] \in Vectors
    BY <1>2 DEF BeginRetry, SerialInv, Turns
  <2>3. PICK v \in Vectors : v = retry[t]
    BY <2>2
  <2>4. PICK walks : walks = {FALSE}
    OBVIOUS
  <2>5. Enter(t, v, avd, walks)
    BY <2>1, <2>3, <2>4, Zenon
  <2> QED
    BY <2>1, <2>2, <2>3, <2>4, <2>5, EnterProgress
<1> QED
  BY <1>1, <1>2

(* Up to the loop.                                                         *)
LEMMA WalkProgress ==
  ASSUME SerialInv, SerialNext, NEW t \in Tasks,
         ReadStatus(t) \/ ReadMode(t) \/ piga_get_sequence_at(t)
  PROVE  Progress' /\ MonitorKept
<1> DEFINE f == task[t]
<1>1. f.pc \in {"status", "mode", "getseq"}
  BY DEF ReadStatus, ReadMode, piga_get_sequence_at
<1>2. /\ f \in Frame /\ Asked(t, f) /\ CheckProgress(f) /\ s_len \in Nat
      /\ settled.seq \in [Index(s_len) -> Sequence] /\ status \in BOOLEAN
  BY <1>1, TablesInCheck DEF SerialInv, Turns
<1>3. Unmoved /\ ~f.denied /\ Consulted(f)
  BY <1>1, <1>2 DEF CheckProgress, Unmoved
<1>4. CASE ReadStatus(t)
  <2> DEFINE g == [f EXCEPT !.pc = IF status THEN "mode" ELSE "audit", !.seen = status]
  <2>1. Goto(t, g)
    BY <1>4 DEF ReadStatus
  <2>2. /\ g.pc = (IF status THEN "mode" ELSE "audit") /\ g.seen = status /\ Same(f, g)
        /\ g.denied = f.denied
    BY <1>2 DEF Frame, Same
  <2> HIDE DEF g
  <2>3. Asked(t, g) /\ Consulted(g) /\ ~g.denied /\ (Examined(g) => status)
    BY <1>2, <1>3, <2>2 DEF Asked, Same, Consulted, Examined
  <2>4. CheckProgress(g)
    <3>1. CASE status
      BY <1>3, <2>2, <2>3, <3>1 DEF CheckProgress, Unmoved, LoopPcs
    <3>2. CASE ~status
      BY <1>2, <1>3, <2>2, <2>3, <3>2 DEF CheckProgress, Unmoved, LoopPcs, Answered
    <3> QED
      BY <3>1, <3>2
  <2> QED
    BY <2>1, <2>2, <2>3, <2>4, GotoProgress
<1>5. CASE ReadMode(t)
  <2> DEFINE skips == A!AuditOnlySkips(f.vec, f.avd)
             g == [f EXCEPT !.pc = IF skips THEN "audit" ELSE "getseq"]
  <2>1. Goto(t, g) /\ f.pc = "mode"
    BY <1>5 DEF ReadMode
  <2>2. f.seen /\ status
    BY <1>2, <2>1 DEF CheckProgress
  <2> HIDE DEF skips
  <2>3. /\ g.pc = (IF skips THEN "audit" ELSE "getseq") /\ Same(f, g)
        /\ g.denied = f.denied /\ g.seen = f.seen
    BY <1>2 DEF Frame, Same
  <2> HIDE DEF g
  <2>4. Asked(t, g) /\ Consulted(g) /\ ~g.denied /\ (Examined(g) <=> ~skips)
    BY <1>2, <1>3, <2>2, <2>3 DEF Asked, Same, Consulted, Examined, skips
  <2>5. CheckProgress(g)
    <3>1. CASE skips
      BY <1>3, <2>2, <2>3, <2>4, <3>1 DEF CheckProgress, Unmoved, LoopPcs, Answered
    <3>2. CASE ~skips
      BY <1>3, <2>2, <2>3, <2>4, <3>2 DEF CheckProgress, Unmoved, LoopPcs
    <3> QED
      BY <3>1, <3>2
  <2> QED
    BY <2>1, <2>3, <2>4, <2>5, GotoProgress
<1>6. CASE piga_get_sequence_at(t)
  <2> DEFINE g == [f EXCEPT !.pc = "loop", !.seqs = seq, !.i = 0]
  <2>1. Goto(t, g) /\ f.pc = "getseq"
    BY <1>6 DEF piga_get_sequence_at
  <2>2. f.seen /\ Examined(f)
    BY <1>2, <2>1 DEF CheckProgress
  <2>3. /\ g.pc = "loop" /\ g.i = 0 /\ Same(f, g) /\ g.denied = f.denied /\ g.seen = f.seen
    BY <1>2 DEF Frame, Same
  <2> HIDE DEF g
  <2>4. Asked(t, g) /\ Examined(g)
    BY <1>2, <2>2, <2>3 DEF Asked, Same, Examined, Consulted
  <2>5. LoopProgress(g)
    <3>1. Index(0) = {} /\ \A j \in Index(s_len) : ~(j < 0)
      BY <1>2 DEF Index
    <3>2. ~Refuses(g.vec, Index(0))
      BY <3>1 DEF Refuses
    <3>3. Done(g) = 0 /\ Tested(g)
      BY <2>3 DEF Done, Tested
    <3>4. \A j \in Index(s_len) :
            Cells(seq)[j] = IF j < Done(g) THEN Moved(j, g.vec) ELSE settled.seq[j]
      BY <1>3, <3>1, <3>3 DEF Unmoved
    <3> QED
      BY <1>2, <1>3, <2>3, <3>2, <3>3, <3>4 DEF LoopProgress
  <2>6. CheckProgress(g)
    BY <1>3, <2>2, <2>3, <2>4, <2>5 DEF CheckProgress, Unmoved
  <2> QED
    BY <2>1, <2>3, <2>4, <2>6, GotoProgress
<1> QED
  BY <1>4, <1>5, <1>6

(* The next step of the same round.                                        *)
LEMMA RoundOn ==
  ASSUME SerialInv, NEW t \in Tasks, task[t].pc \in LoopPcs \ {"test"},
         NEW g, g.pc \in LoopPcs \ {"test"}, Same(task[t], g), g.i = task[t].i,
         g.seen = task[t].seen, g.denied = task[t].denied, Tested(g)
  PROVE  Asked(t, g) /\ CheckProgress(g)
<1> DEFINE f == task[t]
<1>1. Asked(t, f) /\ CheckProgress(f)
  BY TablesInCheck DEF LoopPcs
<1>2. SameLinks /\ f.seen /\ Examined(f) /\ LoopProgress(f)
  BY <1>1 DEF CheckProgress
<1>3. Done(g) = Done(f)
  BY DEF Done
<1>4. LoopProgress(g)
  BY <1>2, <1>3 DEF LoopProgress, Same
<1>5. Asked(t, g) /\ Examined(g)
  BY <1>1, <1>2 DEF Asked, Same, Examined, Consulted
<1> QED
  BY <1>2, <1>4, <1>5 DEF CheckProgress, LoopPcs

(* The round for one sequence is over.                                     *)
LEMMA RoundOver ==
  ASSUME SerialInv, NEW t \in Tasks, task[t].pc \in LoopPcs \ {"loop"},
         task[t].pc # "test" => Moved(task[t].i, task[t].vec) = settled.seq[task[t].i],
         NEW g, g.pc = "loop", Same(task[t], g), g.i = task[t].i + 1,
         g.seen = task[t].seen,
         g.denied <=> task[t].denied \/ (Waits(task[t].i, task[t].vec) /\ Ends(task[t].i))
  PROVE  Asked(t, g) /\ CheckProgress(g)
<1> DEFINE f == task[t]
<1>1. Asked(t, f) /\ CheckProgress(f) /\ f \in Frame /\ s_len \in Nat
  BY TablesInCheck DEF LoopPcs
<1>2. SameLinks /\ f.seen /\ Examined(f) /\ LoopProgress(f)
  BY <1>1 DEF CheckProgress
<1>3. f.i \in Index(s_len) /\ f.i \in Nat
  BY <1>1, AloneFacts, InRound DEF SerialInv, Frame
<1>4. g.i \in 0 .. s_len
  BY <1>1, <1>3 DEF Index
<1>5. Index(g.i) = Index(f.i) \cup {f.i}
  BY <1>3 DEF Index
<1>6. g.denied <=> Refuses(g.vec, Index(g.i))
  <2>1. g.vec = f.vec
    BY DEF Same
  <2>2. Refuses(f.vec, Index(f.i) \cup {f.i}) <=>
          Refuses(f.vec, Index(f.i)) \/ (Waits(f.i, f.vec) /\ Ends(f.i))
    BY DEF Refuses
  <2> QED
    BY <1>2, <1>5, <2>1, <2>2 DEF LoopProgress
<1>7. \A j \in Index(s_len) :
        Cells(seq)[j] = IF j < Done(g) THEN Moved(j, g.vec) ELSE settled.seq[j]
  <2>1. Done(g) = f.i + 1 /\ g.vec = f.vec
    BY DEF Done, Same
  <2>2. \A j \in Index(s_len) : j \in Nat
    BY <1>1 DEF Index
  <2>3. CASE f.pc = "test"
    <3>1. Done(f) = Done(g)
      BY <2>1, <2>3 DEF Done
    <3> QED
      BY <1>2, <2>1, <3>1 DEF LoopProgress
  <2>4. CASE f.pc # "test"
    <3>1. Done(f) = f.i
      BY <2>4 DEF Done
    <3>2. ASSUME NEW j \in Index(s_len)
          PROVE  Cells(seq)[j] = IF j < Done(g) THEN Moved(j, g.vec) ELSE settled.seq[j]
      <4>1. Cells(seq)[j] = IF j < f.i THEN Moved(j, f.vec) ELSE settled.seq[j]
        BY <1>2, <3>1 DEF LoopProgress
      <4>2. CASE j = f.i
        BY <1>3, <2>1, <2>4, <4>1, <4>2
      <4>3. CASE j # f.i
        <5>1. j < f.i <=> j < f.i + 1
          BY <1>3, <2>2, <4>3
        <5> QED
          BY <2>1, <4>1, <5>1
      <4> QED
        BY <4>2, <4>3
    <3> QED
      BY <3>2
  <2> QED
    BY <2>3, <2>4
<1>8. LoopProgress(g)
  <2>1. Tested(g)
    BY DEF Tested
  <2> QED
    BY <1>4, <1>6, <1>7, <2>1 DEF LoopProgress
<1>9. Asked(t, g) /\ Examined(g)
  BY <1>1, <1>2 DEF Asked, Same, Examined, Consulted
<1> QED
  BY <1>2, <1>8, <1>9 DEF CheckProgress, LoopPcs

LEMMA NextRoundFrame ==
  ASSUME NEW t \in Tasks, task[t] \in Frame
  PROVE  /\ NextRound(t) \in Frame /\ NextRound(t).pc = "loop"
         /\ Same(task[t], NextRound(t)) /\ NextRound(t).i = task[t].i + 1
         /\ NextRound(t).seen = task[t].seen /\ NextRound(t).denied = task[t].denied
<1>1. task[t].i \in Nat
  BY DEF Frame
<1>2. PICK j \in Nat : j = task[t].i + 1
  BY <1>1
<1>3. NextRound(t) = [task[t] EXCEPT !.pc = "loop", !.i = j]
  BY <1>2 DEF NextRound
<1> QED
  BY <1>2, <1>3 DEF Frame, TaskPcs, LoopPcs, Same

(* The test of the loop: when it ends, all sequences have been done.       *)
LEMMA LoopTestProgress ==
  ASSUME SerialInv, SerialNext, NEW t \in Tasks, LoopTest(t)
  PROVE  Progress' /\ MonitorKept
<1> DEFINE f == task[t]
           g == [f EXCEPT !.pc = IF f.i < s_len THEN "cs" ELSE "audit"]
<1>1. Goto(t, g) /\ f.pc = "loop"
  BY DEF LoopTest
<1>2. /\ f \in Frame /\ Asked(t, f) /\ CheckProgress(f) /\ s_len \in Nat /\ s_len = settled.s_len
      /\ Cells(seq) = [j \in Index(s_len) |-> Cells(seq)[j]]
  BY <1>1, TablesInCheck
<1>3. SameLinks /\ f.seen /\ Examined(f) /\ LoopProgress(f)
  BY <1>1, <1>2 DEF CheckProgress, LoopPcs
<1>4. /\ g.pc = (IF f.i < s_len THEN "cs" ELSE "audit") /\ Same(f, g) /\ g.i = f.i
      /\ g.seen = f.seen /\ g.denied = f.denied
  BY <1>2 DEF Frame, Same
<1> HIDE DEF g
<1>5. CASE f.i < s_len
  <2>1. g.pc = "cs" /\ Tested(g)
    BY <1>4, <1>5 DEF Tested
  <2>2. Asked(t, g) /\ CheckProgress(g)
    BY <1>1, <1>4, <2>1, RoundOn DEF LoopPcs
  <2> QED
    BY <1>1, <2>1, <2>2, GotoProgress
<1>6. CASE ~(f.i < s_len)
  <2>1. g.pc = "audit" /\ f.i = s_len
    BY <1>2, <1>3, <1>4, <1>6 DEF LoopProgress
  <2>2. Asked(t, g) /\ Examined(g) /\ Consulted(g) /\ status
    BY <1>2, <1>3, <1>4 DEF Asked, Same, Examined, Consulted
  <2>3. g.denied <=> Refuses(g.vec, Index(settled.s_len))
    BY <1>2, <1>3, <1>4, <2>1 DEF LoopProgress, Same
  <2>4. Cells(seq) = AllMoved(g.vec)
    <3>1. \A j \in Index(s_len) : j < Done(f)
      BY <1>1, <1>2, <2>1 DEF Done, Index
    <3>2. \A j \in Index(s_len) : Cells(seq)[j] = Moved(j, g.vec)
      BY <1>3, <1>4, <3>1 DEF LoopProgress, Same
    <3> QED
      BY <1>2, <3>2 DEF AllMoved
  <2>5. Answered(g)
    BY <1>3, <1>4, <2>2, <2>3, <2>4 DEF Answered
  <2>6. CheckProgress(g)
    BY <1>3, <2>1, <2>5 DEF CheckProgress, LoopPcs
  <2> QED
    BY <1>1, <2>1, <2>2, <2>6, GotoProgress
<1> QED
  BY <1>5, <1>6

(* What a getter finds is in the link that the settled tables have there.  *)
LEMMA GetterProgress ==
  ASSUME SerialInv, SerialNext, NEW t \in Tasks, Getter(t)
  PROVE  Progress' /\ MonitorKept
<1> DEFINE f == task[t]
           lk == settled.link[TokenIndex(settled.seq[f.i])]
<1>1. f.pc \in {"cs", "cc", "tclass", "requested"}
  BY DEF Getter, AfterGetter
<1>2. f.pc \in LoopPcs \ {"loop", "test"} /\ f.pc # "idle"
  BY <1>1 DEF LoopPcs
<1>3. CellValid(t) /\ Valid(link, TokenIndex(Cell(t))) /\ f \in Frame
  BY <1>2, AloneFacts, InRound DEF SerialInv
<1>4. heap[link].cells[TokenIndex(Cell(t))] = lk
  BY <1>2, CellsInRound
<1>5. Goto(t, IF Agrees(f.pc, lk, f.vec) THEN [f EXCEPT !.pc = AfterGetter[f.pc]]
                                         ELSE NextRound(t))
  BY <1>3, <1>4 DEF Getter
<1>6. Tested(f)
  BY <1>2, TablesInCheck DEF CheckProgress, LoopProgress
<1>7. CASE Agrees(f.pc, lk, f.vec)
  <2> DEFINE g == [f EXCEPT !.pc = AfterGetter[f.pc]]
  <2>1. Goto(t, g)
    BY <1>5, <1>7
  <2>2. /\ Same(f, g) /\ g.i = f.i /\ g.seen = f.seen /\ g.denied = f.denied
        /\ g.pc = AfterGetter[f.pc]
    BY <1>3 DEF Frame, Same
  <2> HIDE DEF g
  <2>3. \/ f.pc = "cs" /\ g.pc = "cc" /\ lk.cs = f.vec.ssid
        \/ f.pc = "cc" /\ g.pc = "tclass" /\ lk.cc = f.vec.tsid
        \/ f.pc = "tclass" /\ g.pc = "requested" /\ lk.tclass = f.vec.tclass
        \/ f.pc = "requested" /\ g.pc = "end" /\ lk.requested \cap f.vec.requested # {}
    <3>1. CASE f.pc = "cs"
      BY <1>7, <2>2, <3>1 DEF Agrees, AfterGetter
    <3>2. CASE f.pc = "cc"
      BY <1>7, <2>2, <3>2 DEF Agrees, AfterGetter
    <3>3. CASE f.pc = "tclass"
      BY <1>7, <2>2, <3>3 DEF Agrees, AfterGetter
    <3>4. CASE f.pc = "requested"
      BY <1>7, <2>2, <3>4 DEF Agrees, AfterGetter
    <3> QED
      BY <1>1, <3>1, <3>2, <3>3, <3>4
  <2>4. g.vec = f.vec
    BY <2>2 DEF Same
  <2>5. Tested(g)
    BY <1>6, <2>2, <2>3, <2>4 DEF Tested
  <2>6. g.pc \in LoopPcs \ {"test"} /\ g.pc # "idle" /\ f.pc \in LoopPcs \ {"test"}
    BY <1>2, <2>3 DEF LoopPcs
  <2>7. Asked(t, g) /\ CheckProgress(g)
    BY <2>2, <2>5, <2>6, RoundOn
  <2> QED
    BY <2>1, <2>6, <2>7, GotoProgress
<1>8. CASE ~Agrees(f.pc, lk, f.vec)
  <2>1. ~Waits(f.i, f.vec)
    BY <1>1, <1>8 DEF Agrees, Waits, Matches
  <2>2. Moved(f.i, f.vec) = settled.seq[f.i]
    BY <2>1 DEF Moved
  <2>3. f.pc \in LoopPcs \ {"loop"}
    BY <1>2
  <2>4. PICK g : g = NextRound(t)
    OBVIOUS
  <2>5. /\ g.pc = "loop" /\ Same(f, g) /\ g.i = f.i + 1 /\ g.seen = f.seen
        /\ g.denied = f.denied
    BY <1>3, <2>4, NextRoundFrame
  <2>6. Asked(t, g) /\ CheckProgress(g)
    BY <2>1, <2>2, <2>3, <2>5, RoundOver
  <2> QED
    BY <1>5, <1>8, <2>4, <2>5, <2>6, GotoProgress
<1> QED
  BY <1>7, <1>8

(* All four getters agreed: the sequence waits for the access.             *)
LEMMA TestedWaits ==
  ASSUME NEW f, Tested(f), f.pc \in {"end", "load", "store", "test"}
  PROVE  Waits(f.i, f.vec)
BY DEF Tested, Waits, Matches

LEMMA EndTestProgress ==
  ASSUME SerialInv, SerialNext, NEW t \in Tasks, EndTest(t)
  PROVE  Progress' /\ MonitorKept
<1> DEFINE f == task[t]
<1>1. f.pc = "end" /\ f.pc \in LoopPcs \ {"loop", "test"} /\ f.pc # "idle"
  BY DEF EndTest, LoopPcs
<1>2. CellValid(t) /\ f \in Frame
  BY <1>1, AloneFacts, InRound DEF SerialInv
<1>3. piga_seq_end(Cell(t)) <=> Ends(f.i)
  BY <1>1, CellsInRound DEF Ends
<1>4. Tested(f) /\ Waits(f.i, f.vec)
  BY <1>1, TablesInCheck, TestedWaits DEF CheckProgress, LoopProgress
<1>5. CASE Ends(f.i)
  <2> DEFINE n == NextRound(t)
             g == [n EXCEPT !.denied = TRUE]
  <2>1. Goto(t, g)
    BY <1>1, <1>2, <1>3, <1>5 DEF EndTest
  <2>2. /\ n \in Frame /\ n.pc = "loop" /\ Same(f, n) /\ n.i = f.i + 1 /\ n.seen = f.seen
    BY <1>2, NextRoundFrame
  <2> HIDE DEF n
  <2>3. /\ g.pc = "loop" /\ g.vec = n.vec /\ g.avd = n.avd /\ g.walks = n.walks
        /\ g.i = n.i /\ g.seen = n.seen /\ g.denied = TRUE
    BY <2>2 DEF Frame
  <2> HIDE DEF g
  <2>4. Same(f, g) /\ g.i = f.i + 1 /\ g.seen = f.seen
    BY <2>2, <2>3 DEF Same
  <2>5. Moved(f.i, f.vec) = settled.seq[f.i]
    BY <1>5 DEF Moved
  <2>6. f.pc \in LoopPcs \ {"loop"}
    BY <1>1
  <2>7. Asked(t, g) /\ CheckProgress(g)
    BY <1>4, <1>5, <2>3, <2>4, <2>5, <2>6, RoundOver
  <2> QED
    BY <2>1, <2>3, <2>7, GotoProgress
<1>6. CASE ~Ends(f.i)
  <2> DEFINE g == [f EXCEPT !.pc = "load"]
  <2>1. Goto(t, g)
    BY <1>1, <1>2, <1>3, <1>6 DEF EndTest
  <2>2. /\ Same(f, g) /\ g.i = f.i /\ g.seen = f.seen /\ g.denied = f.denied
        /\ g.pc = "load"
    BY <1>2 DEF Frame, Same
  <2> HIDE DEF g
  <2>3. g.vec = f.vec
    BY <2>2 DEF Same
  <2>4. Tested(g)
    BY <1>1, <1>4, <1>6, <2>2, <2>3 DEF Tested
  <2>5. g.pc \in LoopPcs \ {"test"} /\ g.pc # "idle" /\ f.pc \in LoopPcs \ {"test"}
    BY <1>1, <2>2 DEF LoopPcs
  <2>6. Asked(t, g) /\ CheckProgress(g)
    BY <2>2, <2>4, <2>5, RoundOn
  <2> QED
    BY <2>1, <2>5, <2>6, GotoProgress
<1> QED
  BY <1>5, <1>6

LEMMA LoadPositionProgress ==
  ASSUME SerialInv, SerialNext, NEW t \in Tasks, LoadPosition(t)
  PROVE  Progress' /\ MonitorKept
<1> DEFINE f == task[t]
           g == [f EXCEPT !.pc = "store", !.reg = Cell(t).current_position + 1]
<1>1. f.pc = "load" /\ f.pc \in LoopPcs \ {"loop", "test"} /\ f.pc # "idle"
  BY DEF LoadPosition, LoopPcs
<1>2. CellValid(t) /\ f \in Frame
  BY <1>1, AloneFacts, InRound DEF SerialInv
<1>3. Tested(f)
  BY <1>1, TablesInCheck DEF CheckProgress, LoopProgress
<1>4. Goto(t, g)
  BY <1>2 DEF LoadPosition
<1>5. /\ Same(f, g) /\ g.i = f.i /\ g.seen = f.seen /\ g.denied = f.denied
      /\ g.pc = "store"
  BY <1>2 DEF Frame, Same
<1> HIDE DEF g
<1>6. g.vec = f.vec
  BY <1>5 DEF Same
<1>7. Tested(g)
  BY <1>1, <1>3, <1>5, <1>6 DEF Tested
<1>8. g.pc \in LoopPcs \ {"test"} /\ g.pc # "idle" /\ f.pc \in LoopPcs \ {"test"}
  BY <1>1, <1>5 DEF LoopPcs
<1>9. Asked(t, g) /\ CheckProgress(g)
  BY <1>5, <1>7, <1>8, RoundOn
<1> QED
  BY <1>4, <1>8, <1>9, GotoProgress

LEMMA TestPositionProgress ==
  ASSUME SerialInv, SerialNext, NEW t \in Tasks, TestPosition(t)
  PROVE  Progress' /\ MonitorKept
<1> DEFINE f == task[t]
<1>1. f.pc = "test" /\ f.pc \in LoopPcs \ {"loop"} /\ f.pc # "idle"
  BY DEF TestPosition, LoopPcs
<1>2. /\ Cell(t) \in Sequence /\ CellValid(t) /\ PlaceGood(f, Cell(t))
      /\ Cell(t).current_position < Cell(t).length /\ f \in Frame
  BY <1>1, AloneFacts, InRound DEF SerialInv
<1>3. \A n \in {f.reg, Cell(t).current_position} : n # Cell(t).length
  BY <1>1, <1>2 DEF PlaceGood, Sequence
<1>4. Goto(t, NextRound(t))
  BY <1>2, <1>3 DEF TestPosition
<1>5. ~Ends(f.i)
  BY <1>1, TablesInCheck DEF CheckProgress, LoopProgress, Tested
<1>6. PICK g : g = NextRound(t)
  OBVIOUS
<1>7. /\ g.pc = "loop" /\ Same(f, g) /\ g.i = f.i + 1 /\ g.seen = f.seen
      /\ g.denied = f.denied
  BY <1>2, <1>6, NextRoundFrame
<1>8. Asked(t, g) /\ CheckProgress(g)
  BY <1>1, <1>5, <1>7, RoundOver
<1> QED
  BY <1>4, <1>6, <1>7, <1>8, GotoProgress

(* The store moves the token as the atomic loop does.                      *)
LEMMA StorePositionProgress ==
  ASSUME SerialInv, SerialNext, NEW t \in Tasks, StorePosition(t)
  PROVE  Progress' /\ MonitorKept
<1> DEFINE f == task[t]
           g == [f EXCEPT !.pc = "test"]
           old == heap[seq].cells
           new == [old EXCEPT ![f.i] = [@ EXCEPT !.current_position = f.reg]]
<1>1. f.pc = "store" /\ f.pc \in LoopPcs \ {"loop", "test"} /\ f.pc # "idle"
  BY DEF StorePosition, LoopPcs
<1>2. /\ f \in Frame /\ f.seqs = seq /\ f.i \in Index(s_len)
      /\ seq \in Blocks /\ link \in Blocks /\ s_len \in Nat
      /\ old \in [Index(s_len) -> Sequence] /\ Cell(t) = old[f.i] /\ CellValid(t)
      /\ PlaceGood(f, old[f.i])
      /\ \A d \in Loaders : ~InSetPol(d)
  BY <1>1, AloneFacts, InRound DEF SerialInv
<1>3. SetPosition(t, f.reg, g)
  BY <1>2 DEF StorePosition
<1>4. /\ UNCHANGED <<status, audit_only, seq, link, s_len, l_len, loader, retry, calls>>
      /\ task' = [task EXCEPT ![t] = g]
  BY <1>3 DEF SetPosition
<1>5. /\ \A b \in Blocks \ {seq} : heap'[b] = heap[b]
      /\ heap'[seq].cells = new
  <2>1. HeapShape(heap)
    BY DEF SerialInv, Turns, Ownership
  <2> QED
    BY <1>2, <1>3, <2>1, SetPositionShape
<1>6. link # seq
  BY <1>2, NullIsNoBlock DEF SerialInv, Turns, Ownership, SeqGone, LinkGone, InSetPol
<1>7. Cells(seq)' = new /\ Cells(link)' = Cells(link)
  BY <1>2, <1>4, <1>5, <1>6, NullIsNoBlock DEF Cells
<1>8. Asked(t, f) /\ CheckProgress(f)
  BY <1>1, TablesInCheck
<1>9. SameLinks /\ f.seen /\ Examined(f) /\ LoopProgress(f)
  BY <1>1, <1>8 DEF CheckProgress
<1>10. old[f.i] = settled.seq[f.i] /\ old = Cells(seq)
  BY <1>1, <1>2, CellsInRound, NullIsNoBlock DEF Cells
<1>11. Waits(f.i, f.vec) /\ ~Ends(f.i)
  BY <1>1, <1>9, TestedWaits DEF LoopProgress, Tested
<1>12. f.reg = old[f.i].current_position + 1
  BY <1>1, <1>2 DEF PlaceGood
<1> HIDE DEF old
<1>13. Moved(f.i, f.vec) = [old[f.i] EXCEPT !.current_position = f.reg]
  BY <1>10, <1>11, <1>12 DEF Moved, Ends, piga_seq_end, piga_seq_next
<1>14. new[f.i] = Moved(f.i, f.vec) /\ \A j \in Index(s_len) \ {f.i} : new[j] = old[j]
  <2>1. new = [old EXCEPT ![f.i] = Moved(f.i, f.vec)]
    BY <1>13
  <2> HIDE DEF new
  <2> QED
    BY <1>2, <2>1
<1> HIDE DEF new
<1>15. /\ g.pc = "test" /\ Same(f, g) /\ g.i = f.i /\ g.seen = f.seen /\ g.denied = f.denied
  BY <1>2 DEF Frame, Same
<1> HIDE DEF g
<1>16. /\ g.vec = f.vec /\ g.avd = f.avd /\ g.walks = f.walks
  BY <1>15 DEF Same
<1>17. task'[t] = g
  BY <1>4 DEF SerialInv, Turns
<1>18. settled' = settled
  <2>1. Busy' # {}
    BY <1>15, <1>17 DEF Busy
  <2> QED
    BY <2>1 DEF SerialNext
<1>19. \A u \in Tasks : task'[u].pc # "idle" => u = t
  BY <1>15, <1>17, AloneStep DEF Alone
<1>20. Asked(t, task[t])'
  BY <1>4, <1>8, <1>16, <1>17 DEF Asked
<1>21. \A j \in Index(s_len) : new[j] = IF j < Done(g) THEN Moved(j, g.vec) ELSE settled.seq[j]
  <2>1. Done(f) = f.i /\ Done(g) = f.i + 1 /\ f.i \in Nat
    BY <1>1, <1>2, <1>15 DEF Done, Frame
  <2>2. \A j \in Index(s_len) : old[j] = IF j < f.i THEN Moved(j, f.vec) ELSE settled.seq[j]
    BY <1>9, <1>10, <2>1 DEF LoopProgress
  <2>3. \A j \in Index(s_len) \ {f.i} : j < f.i <=> j < f.i + 1
    BY <1>2, <2>1 DEF Index
  <2> QED
    BY <1>14, <1>16, <2>1, <2>2, <2>3
<1>22. g.i \in 0 .. s_len /\ (g.denied <=> Refuses(g.vec, Index(g.i))) /\ Tested(g)
  <2>1. Tested(g)
    BY <1>1, <1>9, <1>15, <1>16 DEF LoopProgress, Tested
  <2> QED
    BY <1>9, <1>15, <1>16, <2>1 DEF LoopProgress
<1>23. LoopProgress(task[t])'
  BY <1>4, <1>7, <1>17, <1>18, <1>21, <1>22
     DEF LoopProgress, Refuses, Waits, Ends, Moved, Tested, Done
<1>24. SameLinks' /\ task'[t].seen /\ Examined(task[t])'
  BY <1>4, <1>7, <1>9, <1>15, <1>16, <1>17, <1>18
     DEF SameLinks, Examined, Consulted, A!SelinuxDenies, A!AuditOnlySkips
<1>25. CheckProgress(task[t])'
  BY <1>15, <1>17, <1>23, <1>24 DEF CheckProgress
<1> QED
  BY <1>4, <1>15, <1>17, <1>18, <1>19, <1>20, <1>25 DEF Progress, MonitorKept, SerialInv

-----------------------------------------------------------------------------
(* The answers of the atomic monitor on the settled tables.                *)
LEMMA MonitorAnswers ==
  ASSUME NEW v, NEW avd
  PROVE  /\ Monitor!SelinuxDenies(v, avd) <=> A!SelinuxDenies(v, avd)
         /\ Monitor!AuditOnlySkips(v, avd) <=> A!AuditOnlySkips(v, avd)
         /\ \A denies, quiet :
              Monitor!Audited(v, avd, denies, quiet) = A!Audited(v, avd, denies, quiet)
BY DEF Monitor!SelinuxDenies, A!SelinuxDenies, Monitor!AuditOnlySkips, A!AuditOnlySkips,
   Monitor!Audited, A!Audited

LEMMA MonitorLoop ==
  ASSUME NEW v
  PROVE  /\ Monitor!LoopDenies(v) <=> Refuses(v, Index(settled.s_len))
         /\ Monitor!LoopMoves(v) = AllMoved(v)
<1>1. /\ Monitor!Index(settled.s_len) = Index(settled.s_len)
      /\ \A j : Monitor!WaitsFor(j, v) <=> Waits(j, v)
      /\ \A s : Monitor!piga_seq_end(s) <=> piga_seq_end(s)
      /\ \A s : Monitor!piga_seq_next(s) = piga_seq_next(s)
  BY DEF Monitor!Index, Index, Monitor!WaitsFor, Waits, Monitor!Matches, Matches,
     Monitor!TokenIndex, TokenIndex, Monitor!piga_seq_end, piga_seq_end,
     Monitor!piga_seq_next, piga_seq_next
<1>2. Monitor!LoopDenies(v) <=> Refuses(v, Index(settled.s_len))
  BY <1>1 DEF Monitor!LoopDenies, Refuses, Ends
<1>3. Monitor!LoopMoves(v) = AllMoved(v)
  BY <1>1 DEF Monitor!LoopMoves, AllMoved, Moved, Ends
<1> QED
  BY <1>2, <1>3

(* The record of the atomic monitor grows with that of the detailed one.   *)
LEMMA RecordGrows ==
  ASSUME calls \in Seq(CallRecord), NEW c \in CallRecord, calls' = Append(calls, c)
  PROVE  Record' = Append(Record, [vec |-> c.vec, denied |-> c.denied,
                                   retried |-> c.retried])
<1> DEFINE Seen(x) == [vec |-> x.vec, denied |-> x.denied, retried |-> x.retried]
           S == {Seen(x) : x \in CallRecord}
<1>1. /\ Len(calls) \in Nat /\ Len(calls') = Len(calls) + 1
      /\ calls' \in Seq(CallRecord)
      /\ \A n \in 1 .. Len(calls) : calls[n] \in CallRecord /\ calls'[n] = calls[n]
      /\ calls'[Len(calls) + 1] = c
  OBVIOUS
<1>2. \A x \in CallRecord : Seen(x) \in S
  OBVIOUS
<1>3. /\ Record = [n \in 1 .. Len(calls) |-> Seen(calls[n])]
      /\ Record' = [n \in 1 .. Len(calls') |-> Seen(calls'[n])]
  BY DEF Record
<1> HIDE DEF Seen, S
<1>4. Record \in Seq(S) /\ Len(Record) = Len(calls)
  BY <1>1, <1>2, <1>3
<1>5. Record' \in Seq(S) /\ Len(Record') = Len(calls) + 1
  BY <1>1, <1>2, <1>3
<1>6. /\ Append(Record, Seen(c)) \in Seq(S)
      /\ Len(Append(Record, Seen(c))) = Len(calls) + 1
  BY <1>1, <1>2, <1>4
<1>7. \A n \in 1 .. Len(Record') : Record'[n] = Append(Record, Seen(c))[n]
  BY <1>1, <1>2, <1>3, <1>4, <1>5
<1>8. Record' = Append(Record, Seen(c))
  BY <1>4, <1>5, <1>6, <1>7, SeqEqual
<1> QED
  BY <1>8 DEF Seen

-----------------------------------------------------------------------------
(* Nothing is under way any more: the tables are settled as they are.      *)
LEMMA Settles ==
  ASSUME SerialNext, Turns', Busy' = {}
  PROVE  /\ Progress'
         /\ settled'.seq = Cells(seq)' /\ settled'.link = Cells(link)'
         /\ settled'.s_len = s_len' /\ settled'.l_len = l_len'
<1>1. /\ settled'.seq = Cells(seq)' /\ settled'.link = Cells(link)'
      /\ settled'.s_len = s_len' /\ settled'.l_len = l_len'
  BY DEF SerialNext, CurrentTables
<1>2. /\ \A t \in Tasks : task'[t].pc = "idle"
      /\ \A d \in Loaders : loader'[d].pc = "idle"
  BY DEF Busy
<1>3. TablesGood'
  BY <1>2 DEF Turns, InSetPol
<1>4. s_len' \in Nat /\ Cells(seq)' \in [Index(s_len') -> Sequence]
  <2>1. CASE s_len' = 0 /\ seq' = Null
    <3>1. Index(0) = {}
      BY DEF Index
    <3> QED
      BY <2>1, <3>1 DEF Cells, NoCells
  <2>2. CASE s_len' \in Nat /\ seq' \in Blocks /\ heap'[seq'].cells \in [Index(s_len') -> Sequence]
    BY <2>2, NullIsNoBlock DEF Cells
  <2> QED
    BY <1>3, <2>1, <2>2 DEF TablesGood
<1>5. Unmoved'
  BY <1>1 DEF Unmoved, SameLinks
<1>6. settled'.s_len \in Nat /\ settled'.seq \in [Index(settled'.s_len) -> Sequence]
  BY <1>1, <1>4
<1> QED
  BY <1>1, <1>2, <1>5, <1>6 DEF Progress

(* Who is alone leaves nobody behind.                                      *)
LEMMA AloneLeaves ==
  ASSUME SerialInv
  PROVE  /\ \A t \in Tasks : task[t].pc # "idle" =>
              /\ \A u \in Tasks \ {t} : task[u].pc = "idle"
              /\ \A d \in Loaders : loader[d].pc = "idle"
         /\ \A d \in Loaders : loader[d].pc # "idle" =>
              /\ \A e \in Loaders \ {d} : loader[e].pc = "idle"
              /\ \A t \in Tasks : task[t].pc = "idle"
BY DEF SerialInv, Alone

(* The return of a check is the atomic check.                              *)
LEMMA ReturnImplements ==
  ASSUME SerialInv, SerialNext, NEW t \in Tasks, Return(t)
  PROVE  Progress' /\ (Monitor!Access(t, task[t].vec) \/ Monitor!Retry(t))
<1> DEFINE f == task[t]
<1>1. /\ UNCHANGED <<status, audit_only, heap, seq, link, s_len, l_len, loader>>
      /\ task' = [task EXCEPT ![t] = Idle] /\ f.pc = "audit"
  BY DEF Return
<1>2. /\ f \in Frame /\ Asked(t, f) /\ CheckProgress(f) /\ s_len = settled.s_len
  BY <1>1, TablesInCheck
<1>3. Answered(f) /\ SameLinks
  BY <1>1, <1>2 DEF CheckProgress
<1>4. Busy' = {}
  <2>1. task'[t] = Idle /\ \A u \in Tasks \ {t} : task'[u] = task[u]
    BY <1>1 DEF SerialInv, Turns
  <2> QED
    BY <1>1, <2>1, AloneLeaves DEF Busy, Idle
<1>5. Turns'
  BY SerialTurns
<1>6. /\ Progress'
      /\ settled'.seq = Cells(seq) /\ settled'.link = settled.link
      /\ settled'.s_len = settled.s_len /\ settled'.l_len = settled.l_len
  BY <1>1, <1>3, <1>4, <1>5, Settles DEF SameLinks, Cells
<1> DEFINE v == f.vec
           avd == f.avd
           consulted == ~Monitor!SelinuxDenies(v, avd)
           examined == consulted /\ status /\ ~Monitor!AuditOnlySkips(v, avd)
           denied == ~consulted \/ (examined /\ Monitor!LoopDenies(v))
<1>7. /\ consulted <=> Consulted(f)
      /\ examined <=> Examined(f)
      /\ f.denied <=> denied
      /\ f.seen <=> consulted /\ status
      /\ Cells(seq) = IF examined THEN Monitor!LoopMoves(v) ELSE settled.seq
  BY <1>3, MonitorAnswers, MonitorLoop DEF Answered, Consulted, Examined
<1> HIDE DEF examined
<1>8. f.denied = denied
  <2>1. f.denied \in BOOLEAN /\ denied \in BOOLEAN
    BY <1>2 DEF Frame
  <2> QED
    BY <1>7, <2>1
<1> HIDE DEF denied
<1>9. PICK rcu \in f.walks, quiet \in BOOLEAN :
        LET echild == rcu /\ A!Audited(v, avd, f.denied, quiet) # {}
        IN  /\ retry' = [retry EXCEPT ![t] = IF echild THEN v ELSE NoVector]
            /\ calls' = IF f.seen
                        THEN Append(calls, [vec |-> v, denied |-> f.denied,
                                            retried |-> echild, start |-> f.start])
                        ELSE calls
  BY Zenon DEF Return
<1> DEFINE echild == rcu /\ Monitor!Audited(v, avd, denied, quiet) # {}
<1>10. /\ retry' = [retry EXCEPT ![t] = IF echild THEN v ELSE NoVector]
       /\ calls' = IF f.seen
                   THEN Append(calls, [vec |-> v, denied |-> denied,
                                       retried |-> echild, start |-> f.start])
                   ELSE calls
  BY <1>8, <1>9, MonitorAnswers, Zenon
<1>11. rcu \in BOOLEAN /\ echild \in BOOLEAN /\ denied \in BOOLEAN
  <2>1. f.walks \in {BOOLEAN, {FALSE}} /\ f.denied \in BOOLEAN
    BY <1>2 DEF Frame
  <2>2. rcu \in BOOLEAN
    <3>1. CASE f.walks = BOOLEAN
      BY <3>1, Zenon
    <3>2. CASE f.walks = {FALSE}
      BY <3>2
    <3> QED
      BY <2>1, <3>1, <3>2, Zenon
  <2> QED
    BY <1>8, <2>1, <2>2, Zenon
<1> HIDE DEF echild
<1>12. Record' = IF consulted /\ status
                 THEN Append(Record, [vec |-> v, denied |-> denied, retried |-> echild])
                 ELSE Record
  <2>1. CASE f.seen
    <3> DEFINE c == [vec |-> v, denied |-> denied, retried |-> echild, start |-> f.start]
    <3>1. calls' = Append(calls, c)
      BY <1>10, <2>1
    <3>2. /\ c \in CallRecord /\ c.vec = v /\ c.denied = denied /\ c.retried = echild
      <4>1. v \in Vectors /\ f.start \in Nat
        BY <1>2 DEF Frame
      <4> QED
        BY <1>11, <4>1 DEF CallRecord
    <3>3. calls \in Seq(CallRecord)
      BY DEF SerialInv, Turns
    <3> HIDE DEF c
    <3>4. Record' = Append(Record, [vec |-> c.vec, denied |-> c.denied, retried |-> c.retried])
      BY <3>1, <3>2, <3>3, RecordGrows
    <3> QED
      BY <1>7, <2>1, <3>2, <3>4
  <2>2. CASE ~f.seen
    BY <1>7, <1>10, <2>2 DEF Record
  <2> QED
    BY <2>1, <2>2
<1>13. Monitor!avc_has_perm_flags(t, v, avd, rcu, quiet)
  <2>1. settled'.seq = IF examined THEN Monitor!LoopMoves(v) ELSE settled.seq
    BY <1>6, <1>7
  <2>2. UNCHANGED <<status, audit_only, settled.link, settled.s_len, settled.l_len>>
    BY <1>1, <1>6
  <2> QED
    BY <1>10, <1>12, <2>1, <2>2, Zenon
       DEF Monitor!avc_has_perm_flags, examined, denied, echild
<1>14. CASE retry[t] = NoVector
  <2>1. Len(Record) = Len(calls)
    <3>1. calls \in Seq(CallRecord)
      BY DEF SerialInv, Turns
    <3> QED
      BY <3>1 DEF Record
  <2>2. Len(Record) + Cardinality({u \in Tasks : retry[u] # NoVector}) < MaxCalls
    BY <1>2, <1>14, <2>1 DEF Asked
  <2>3. avd \in AvdOf[v]
    BY <1>2 DEF Asked
  <2>4. Monitor!Access(t, v)
    <3>1. ASSUME NEW S PROVE Monitor!Cardinality(S) = Cardinality(S)
      BY Zenon DEF Monitor!Cardinality, Cardinality
    <3>2. Len(Record) + Monitor!Cardinality({u \in Tasks : retry[u] # NoVector}) < MaxCalls
      BY <2>2, <3>1
    <3> QED
      BY <1>11, <1>13, <1>14, <2>3, <3>2, Zenon DEF Monitor!Access
  <2> QED
    BY <1>6, <2>4
<1>15. CASE retry[t] # NoVector
  <2>1. v = retry[t] /\ f.walks = {FALSE} /\ avd \in AvdOf[v]
    BY <1>2, <1>15 DEF Asked
  <2>2. rcu = FALSE
    BY <1>9, <2>1, Zenon
  <2>3. Monitor!Retry(t)
    BY <1>9, <1>13, <1>15, <2>1, <2>2, Zenon DEF Monitor!Retry
  <2> QED
    BY <1>6, <2>3
<1> QED
  BY <1>14, <1>15

-----------------------------------------------------------------------------
(* Steps of a loader.                                                      *)

LEMMA KeptIsStutter == MonitorKept => UNCHANGED Monitor!vars
BY DEF MonitorKept, Monitor!vars, Record

(* The blocks of a loader are not those of the tables in use.              *)
LEMMA InstalledKept ==
  ASSUME SerialInv, NEW d \in Loaders, \A e \in Loaders : ~InSetPol(e), UNCHANGED <<seq, link>>,
         \A b \in Blocks : heap'[b].cells = heap[b].cells \/ Owns(loader[d], b)
  PROVE  Cells(seq)' = Cells(seq) /\ Cells(link)' = Cells(link)
<1>1. \A b \in Blocks : b = seq \/ b = link => Installed(b)
  BY DEF Installed, SeqGone, LinkGone, InSetPol
<1>2. \A b \in Blocks : b = seq \/ b = link => heap'[b].cells = heap[b].cells
  BY <1>1 DEF SerialInv, Turns, Ownership
<1>3. seq \in Blocks \cup {Null} /\ link \in Blocks \cup {Null}
  BY DEF SerialInv, Turns, Ownership, Pointers
<1> QED
  BY <1>2, <1>3 DEF Cells

(* The system call is not over.                                            *)
LEMMA LoadGoesOn ==
  ASSUME SerialInv, SerialNext, NEW d \in Loaders, loader'[d].pc # "idle",
         UNCHANGED <<status, audit_only, task, retry, calls>>,
         \A e \in Loaders \ {d} : loader'[e] = loader[e],
         \/ InSetPol(d)'
         \/ /\ ~InSetPol(d) /\ UNCHANGED <<seq, link, s_len, l_len>>
            /\ \A b \in Blocks : heap'[b].cells = heap[b].cells \/ Owns(loader[d], b)
  PROVE  Progress' /\ MonitorKept
<1>1. settled' = settled
  <2>1. Busy' # {}
    BY DEF Busy
  <2> QED
    BY <2>1 DEF SerialNext
<1>2. /\ \A t \in Tasks : task[t].pc = "idle"
      /\ \A e \in Loaders \ {d} : loader[e].pc = "idle"
  BY AloneStep DEF Alone
<1>3. ASSUME ~InSetPol(d)' PROVE Unmoved'
  <2>1. \A e \in Loaders : ~InSetPol(e)
    BY <1>2, <1>3 DEF InSetPol
  <2>2. Unmoved
    BY <1>2, <2>1 DEF SerialInv, Progress
  <2>3. Cells(seq)' = Cells(seq) /\ Cells(link)' = Cells(link)
    BY <1>3, <2>1, InstalledKept
  <2> QED
    BY <1>1, <1>3, <2>2, <2>3 DEF Unmoved, SameLinks
<1> QED
  BY <1>1, <1>2, <1>3 DEF Progress, SerialInv, MonitorKept

LEMMA BeginLoadProgress ==
  ASSUME SerialInv, SerialNext, NEW d \in Loaders, NEW p \in Policies, BeginLoad(d, p)
  PROVE  Progress' /\ MonitorKept
<1> DEFINE g == [pc |-> "allocS", p |-> p, s |-> Null, l |-> Null,
                 todo |-> {"seq", "link", "s_len", "l_len"}]
<1>1. /\ loader' = [loader EXCEPT ![d] = g] /\ loader[d].pc = "idle"
      /\ UNCHANGED heap /\ LoaderKeeps
  BY DEF BeginLoad, Loading
<1>2. g.pc = "allocS"
  OBVIOUS
<1> HIDE DEF g
<1>3. loader'[d] = g /\ \A e \in Loaders \ {d} : loader'[e] = loader[e]
  BY <1>1 DEF SerialInv, Turns, Ownership
<1> QED
  BY <1>1, <1>2, <1>3, LoadGoesOn DEF LoaderKeeps, InSetPol

LEMMA AllocateProgress ==
  ASSUME SerialInv, SerialNext, NEW d \in Loaders, vmalloc(d) \/ copy_from_user(d)
  PROVE  Progress' /\ MonitorKept
<1> DEFINE f == loader[d]
<1>1. f.pc \in {"allocS", "copyS", "allocL", "copyL"} /\ LoaderKeeps /\ Turns
  BY DEF vmalloc, copy_from_user, SerialInv
<1>2. f \in LoadFrame
  BY <1>1 DEF Turns, Ownership, LoaderOK, Idle
<1>3. PICK g : loader' = [loader EXCEPT ![d] = g] /\ g.pc # "idle"
  <2>1. CASE vmalloc(d)
    <3> DEFINE g == IF f.pc = "allocS" THEN [f EXCEPT !.pc = "copyS", !.s = Fresh]
                                       ELSE [f EXCEPT !.pc = "copyL", !.l = Fresh]
    <3>1. loader' = [loader EXCEPT ![d] = g]
      BY <2>1 DEF vmalloc, Loading
    <3>2. /\ f.pc = "allocS" => g.pc = "copyS"
          /\ f.pc # "allocS" => g.pc = "copyL"
      BY <1>2 DEF LoadFrame
    <3> QED
      BY <3>1, <3>2
  <2>2. CASE copy_from_user(d)
    <3> DEFINE g == [f EXCEPT !.pc = IF f.pc = "copyS" THEN "allocL" ELSE "freeS"]
    <3>1. loader' = [loader EXCEPT ![d] = g]
      BY <2>2 DEF copy_from_user, Loading
    <3>2. g.pc # "idle"
      BY <1>2 DEF LoadFrame
    <3> QED
      BY <3>1, <3>2
  <2> QED
    BY <2>1, <2>2
<1>4. loader'[d] = g /\ \A e \in Loaders \ {d} : loader'[e] = loader[e]
  BY <1>1, <1>3 DEF Turns, Ownership
<1>5. \A b \in Blocks : heap'[b].cells = heap[b].cells \/ Owns(f, b)
  BY <1>1, VmallocCells, CopyCells
<1> QED
  BY <1>1, <1>3, <1>4, <1>5, LoadGoesOn DEF LoaderKeeps, InSetPol

LEMMA FreeOldProgress ==
  ASSUME SerialInv, SerialNext, NEW d \in Loaders, FreeOldTables(d)
  PROVE  Progress' /\ MonitorKept
<1> DEFINE f == loader[d]
<1>1. ~oops'
  BY SerialTurns
<1>2. PICK pc \in {"freeL", "publish"} :
        /\ f.pc \in {"freeS", "freeL"} /\ LoaderKeeps
        /\ loader' = [loader EXCEPT ![d] = [f EXCEPT !.pc = pc]]
  BY <1>1 DEF FreeOldTables, FreeOld, Oops, Loading
<1>3. f \in LoadFrame
  BY <1>2 DEF SerialInv, Turns, Ownership, LoaderOK, Idle
<1> DEFINE g == [f EXCEPT !.pc = pc]
<1>4. g.pc = pc
  BY <1>3 DEF LoadFrame
<1> HIDE DEF g
<1>5. loader'[d] = g /\ \A e \in Loaders \ {d} : loader'[e] = loader[e]
  BY <1>2 DEF SerialInv, Turns, Ownership, g
<1>6. InSetPol(d)' /\ loader'[d].pc # "idle"
  BY <1>4, <1>5 DEF InSetPol
<1> QED
  BY <1>2, <1>5, <1>6, LoadGoesOn DEF LoaderKeeps

(* A call that fails leaves the tables as they were.                       *)
LEMMA LoadFailsProgress ==
  ASSUME SerialInv, SerialNext, NEW d \in Loaders, LoadFails(d)
  PROVE  Progress' /\ UNCHANGED Monitor!vars
<1>1. /\ loader[d].pc \in {"allocS", "copyS", "allocL", "copyL"}
      /\ loader' = [loader EXCEPT ![d] = Idle] /\ LoaderKeeps
  BY DEF LoadFails, Loading
<1>2. /\ \A e \in Loaders \ {d} : loader[e].pc = "idle"
      /\ \A t \in Tasks : task[t].pc = "idle"
  BY <1>1, AloneLeaves
<1>3. \A e \in Loaders : ~InSetPol(e)
  BY <1>1, <1>2 DEF InSetPol
<1>4. Unmoved
  BY <1>2, <1>3 DEF SerialInv, Progress
<1>5. Cells(seq)' = Cells(seq) /\ Cells(link)' = Cells(link)
  BY <1>1, <1>3, InstalledKept, LoadFailsCells DEF SerialInv, LoaderKeeps
<1>6. Busy' = {}
  <2>1. loader'[d] = Idle /\ \A e \in Loaders \ {d} : loader'[e] = loader[e]
    BY <1>1 DEF SerialInv, Turns, Ownership
  <2> QED
    BY <1>1, <1>2, <2>1 DEF Busy, Idle, LoaderKeeps
<1>7. /\ Progress'
      /\ settled'.seq = settled.seq /\ settled'.link = settled.link
      /\ settled'.s_len = settled.s_len /\ settled'.l_len = settled.l_len
  BY <1>1, <1>4, <1>5, <1>6, SerialTurns, Settles DEF Unmoved, SameLinks, LoaderKeeps
<1> QED
  BY <1>1, <1>7 DEF Monitor!vars, Record, LoaderKeeps

(* The last assignment of piga_set_pol is the atomic loading.              *)
LEMMA PublishImplements ==
  ASSUME SerialInv, SerialNext, NEW d \in Loaders, Publish(d)
  PROVE  Progress' /\ (MonitorKept \/ \E p \in Policies : Monitor!sys_piga_add_sequence(p))
<1> DEFINE f == loader[d]
<1>1. PICK g \in f.todo :
        /\ f.pc = "publish"
        /\ seq'   = IF g = "seq"   THEN f.s ELSE seq
        /\ link'  = IF g = "link"  THEN f.l ELSE link
        /\ s_len' = IF g = "s_len" THEN f.p.s_len ELSE s_len
        /\ l_len' = IF g = "l_len" THEN f.p.l_len ELSE l_len
        /\ \/ /\ f.todo = {g} /\ loader' = [loader EXCEPT ![d] = Idle]
              /\ calls' = <<>>
              /\ task' = [t \in Tasks |-> [task[t] EXCEPT !.seen = FALSE, !.start = 0]]
           \/ /\ f.todo # {g}
              /\ loader' = [loader EXCEPT ![d] = [f EXCEPT !.todo = f.todo \ {g}]]
              /\ UNCHANGED <<calls, task>>
        /\ UNCHANGED <<status, audit_only, heap, retry>>
  BY DEF Publish, Loading
<1>2. /\ \A e \in Loaders \ {d} : loader[e].pc = "idle" /\ loader'[e] = loader[e]
      /\ \A t \in Tasks : task[t].pc = "idle"
  BY <1>1, AloneLeaves DEF SerialInv, Turns, Ownership
<1>3. /\ f \in LoadFrame /\ CopiesGood(f) /\ f.s \in Blocks /\ f.l \in Blocks
      /\ f.p \in Policies
  <2>1. LoaderOK(f) /\ CopiesGood(f) /\ f.pc = "publish"
    BY <1>1 DEF SerialInv, Turns, Ownership
  <2>2. f \in LoadFrame /\ f.s # Null /\ f.l # Null
    BY <2>1 DEF LoaderOK, Idle
  <2> QED
    BY <2>1, <2>2 DEF LoadFrame, Pointers
<1>4. CASE f.todo = {g}
  <2>1. loader'[d] = Idle /\ calls' = <<>> /\ heap' = heap
    BY <1>1, <1>4 DEF SerialInv, Turns, Ownership
  <2>2. \A t \in Tasks : task'[t].pc = "idle"
    <3>1. ASSUME NEW t \in Tasks PROVE task'[t].pc = "idle"
      <4>1. task[t] = Idle
        BY <1>2 DEF SerialInv, Turns, TaskGood, Frame, TaskPcs, LoopPcs
      <4>2. task[t] \in [pc : {"idle"}, seen : {FALSE}, start : {0}]
        BY <4>1 DEF Idle
      <4>3. task'[t] = [task[t] EXCEPT !.seen = FALSE, !.start = 0]
        BY <1>1, <1>4
      <4> QED
        BY <4>2, <4>3
    <3> QED
      BY <3>1
  <2>3. Busy' = {}
    BY <1>2, <2>1, <2>2 DEF Busy, Idle
  <2>4. /\ seq' = f.s /\ link' = f.l /\ s_len' = f.p.s_len /\ l_len' = f.p.l_len
    BY <1>1, <1>3, <1>4 DEF CopiesGood
  <2>5. Cells(seq)' = f.p.seq /\ Cells(link)' = f.p.link
    BY <1>1, <1>3, <2>1, <2>4, NullIsNoBlock DEF CopiesGood, Cells
  <2>6. /\ Progress'
        /\ settled'.seq = f.p.seq /\ settled'.link = f.p.link
        /\ settled'.s_len = f.p.s_len /\ settled'.l_len = f.p.l_len
    BY <2>3, <2>4, <2>5, SerialTurns, Settles
  <2>7. Record' = <<>>
    <3>1. Len(calls') = 0 /\ 1 .. 0 = {}
      BY <2>1
    <3> QED
      BY <3>1 DEF Record
  <2>8. Monitor!sys_piga_add_sequence(f.p)
    BY <1>1, <2>6, <2>7 DEF Monitor!sys_piga_add_sequence, Monitor!piga_set_pol
  <2> QED
    BY <1>3, <2>6, <2>8
<1>5. CASE f.todo # {g}
  <2> DEFINE k == [f EXCEPT !.todo = f.todo \ {g}]
  <2>1. loader' = [loader EXCEPT ![d] = k] /\ UNCHANGED <<calls, task>>
    BY <1>1, <1>5
  <2>2. k.pc = "publish"
    BY <1>1, <1>3 DEF LoadFrame
  <2> HIDE DEF k
  <2>3. loader'[d] = k
    BY <2>1 DEF SerialInv, Turns, Ownership
  <2>4. InSetPol(d)' /\ loader'[d].pc # "idle"
    BY <2>2, <2>3 DEF InSetPol
  <2> QED
    BY <1>1, <1>2, <2>1, <2>4, LoadGoesOn
<1> QED
  BY <1>4, <1>5

-----------------------------------------------------------------------------
(* A step that leaves everything alone but the histories.                  *)
LEMMA ProgressKept ==
  ASSUME Progress, UNCHANGED <<status, audit_only, heap, seq, link, s_len, l_len, task,
                               loader, retry, calls, settled>>
  PROVE  Progress'
<1>1. ASSUME NEW t \in Tasks, task'[t].pc # "idle"
      PROVE  Asked(t, task[t])' /\ CheckProgress(task[t])'
  <2>1. PICK g : g = task[t]
    OBVIOUS
  <2>2. Asked(t, g) /\ CheckProgress(g) /\ task'[t] = g
    BY <1>1, <2>1 DEF Progress
  <2>3. CheckProgress(g)'
    BY <2>2, CheckKept
  <2> QED
    BY <2>2, <2>3 DEF Asked
<1>2. (Unmoved' <=> Unmoved) /\ \A d \in Loaders : InSetPol(d)' <=> InSetPol(d)
  BY DEF Unmoved, SameLinks, Cells, InSetPol
<1> QED
  BY <1>1, <1>2 DEF Progress

(* A write to a switch, made while nothing is under way.                   *)
LEMMA SwitchImplements ==
  ASSUME SerialInv, SerialNext,
         \/ \E b \in StatusWrites : piga_proc_status_write(b)
         \/ \E b \in ModeWrites : piga_proc_mode_write(b)
  PROVE  /\ Progress'
         /\ \/ UNCHANGED Monitor!vars
            \/ \E b \in BOOLEAN : Monitor!piga_proc_status_write(b)
            \/ \E b \in BOOLEAN : Monitor!piga_proc_mode_write(b)
<1>1. UNCHANGED <<heap, seq, link, s_len, l_len, task, loader, retry, calls>>
  BY DEF piga_proc_status_write, piga_proc_mode_write
<1>2. Record' = Record /\ Busy' = Busy
  BY <1>1 DEF Record, Busy
<1>3. CASE Busy = {}
  <2>1. Unmoved
    BY <1>3 DEF Busy, SerialInv, Progress, InSetPol
  <2>2. /\ Progress'
        /\ settled'.seq = settled.seq /\ settled'.link = settled.link
        /\ settled'.s_len = settled.s_len /\ settled'.l_len = settled.l_len
    BY <1>1, <1>2, <1>3, <2>1, SerialTurns, Settles DEF Unmoved, SameLinks, Cells
  <2>3. CASE \E b \in StatusWrites : piga_proc_status_write(b)
    BY <1>1, <1>2, <2>2, <2>3, SwitchAssumption
       DEF piga_proc_status_write, Monitor!piga_proc_status_write
  <2>4. CASE \E b \in ModeWrites : piga_proc_mode_write(b)
    BY <1>1, <1>2, <2>2, <2>4, SwitchAssumption
       DEF piga_proc_mode_write, Monitor!piga_proc_mode_write
  <2> QED
    BY <2>3, <2>4
<1>4. CASE Busy # {}
  <2>1. UNCHANGED <<status, audit_only, settled>>
    BY <1>2, <1>4 DEF SerialNext
  <2>2. Progress'
    BY <1>1, <2>1, ProgressKept DEF SerialInv
  <2>3. UNCHANGED Monitor!vars
    BY <1>1, <1>2, <2>1 DEF Monitor!vars
  <2> QED
    BY <2>2, <2>3
<1> QED
  BY <1>3, <1>4

(* Every step of the serial behaviours is a step of the atomic monitor or  *)
(* leaves it alone, and keeps the invariant.                               *)
LEMMA SerialStep ==
  ASSUME SerialInv, SerialNext
  PROVE  Progress' /\ [Monitor!Next]_(Monitor!vars)
<1>1. ASSUME NEW t \in Tasks,
             (\E v \in Vectors : Begin(t, v)) \/ BeginRetry(t)
      PROVE  Progress' /\ UNCHANGED Monitor!vars
  BY <1>1, BeginProgress, KeptIsStutter
<1>2. ASSUME NEW t \in Tasks, TaskStep(t), ~Return(t)
      PROVE  Progress' /\ UNCHANGED Monitor!vars
  <2>1. ~TakeBack(t)
    BY AloneFacts, NoTakeBack DEF SerialInv
  <2>2. Progress' /\ MonitorKept
    BY <1>2, <2>1, WalkProgress, LoopTestProgress, GetterProgress, EndTestProgress,
       LoadPositionProgress, StorePositionProgress, TestPositionProgress DEF TaskStep
  <2> QED
    BY <2>2, KeptIsStutter
<1>3. ASSUME NEW t \in Tasks, Return(t)
      PROVE  Progress' /\ Monitor!Next
  <2>1. task[t].vec \in Vectors
    BY <1>3, TablesInCheck DEF Return, Frame
  <2> QED
    BY <1>3, <2>1, ReturnImplements DEF Monitor!Next
<1>4. ASSUME NEW d \in Loaders, NEW p \in Policies, BeginLoad(d, p)
      PROVE  Progress' /\ UNCHANGED Monitor!vars
  BY <1>4, BeginLoadProgress, KeptIsStutter
<1>5. ASSUME NEW d \in Loaders, LoaderStep(d)
      PROVE  Progress' /\ [Monitor!Next]_(Monitor!vars)
  <2>1. CASE Publish(d)
    BY <2>1, PublishImplements, KeptIsStutter DEF Monitor!Next
  <2>2. CASE ~Publish(d)
    BY <1>5, <2>2, AllocateProgress, LoadFailsProgress, FreeOldProgress, KeptIsStutter
       DEF LoaderStep
  <2> QED
    BY <2>1, <2>2
<1>6. ASSUME \/ \E b \in StatusWrites : piga_proc_status_write(b)
             \/ \E b \in ModeWrites : piga_proc_mode_write(b)
      PROVE  Progress' /\ [Monitor!Next]_(Monitor!vars)
  BY <1>6, SwitchImplements DEF Monitor!Next
<1>7. Next
  BY DEF SerialNext
<1> QED
  BY <1>1, <1>2, <1>3, <1>4, <1>5, <1>6, <1>7 DEF Next

LEMMA SerialStart == ASSUME SerialInit PROVE SerialInv /\ Monitor!Init
<1>1. /\ \A t \in Tasks : task[t] = Idle
      /\ \A d \in Loaders : loader[d] = Idle
      /\ seq = Null /\ link = Null /\ s_len = 0 /\ l_len = 0 /\ ~oops
      /\ calls = <<>>
  BY DEF SerialInit, Init
<1>2. Index(0) = {} /\ Monitor!Index(0) = {}
  BY DEF Index, Monitor!Index
<1>3. /\ settled.seq = Cells(seq) /\ settled.link = Cells(link)
      /\ settled.s_len = s_len /\ settled.l_len = l_len
  BY DEF SerialInit, CurrentTables
<1>4. Cells(seq) = [j \in Index(0) |-> 0] /\ Cells(link) = [j \in Index(0) |-> 0]
  BY <1>1, <1>2 DEF Cells, NoCells
<1>5. Turns
  BY TurnsInit DEF SerialInit
<1>6. Alone
  BY <1>1 DEF Alone, Idle
<1>7. Progress
  <2>1. settled.s_len \in Nat /\ settled.seq \in [Index(settled.s_len) -> Sequence]
    BY <1>1, <1>2, <1>3, <1>4
  <2>2. Unmoved
    BY <1>3 DEF Unmoved, SameLinks
  <2> QED
    BY <1>1, <2>1, <2>2 DEF Progress, Idle
<1>8. Record = <<>>
  <2>1. Len(calls) = 0 /\ 1 .. 0 = {}
    BY <1>1
  <2> QED
    BY <2>1 DEF Record
<1>9. Monitor!Init
  <2>1. /\ settled.s_len = 0 /\ settled.seq = [i \in Monitor!Index(0) |-> 0]
        /\ settled.l_len = 0 /\ settled.link = [i \in Monitor!Index(0) |-> 0]
    BY <1>1, <1>2, <1>3, <1>4
  <2> QED
    BY <1>8, <2>1 DEF Monitor!Init, SerialInit, Init
<1> QED
  BY <1>1, <1>5, <1>6, <1>7, <1>9 DEF SerialInv

LEMMA SerialInvStep ==
  ASSUME SerialInv, [SerialNext]_allvars
  PROVE  SerialInv' /\ [Monitor!Next]_(Monitor!vars)
<1>1. Turns' /\ ~oops' /\ Alone'
  BY SerialTurns
<1>2. CASE SerialNext
  BY <1>1, <1>2, SerialStep DEF SerialInv
<1>3. CASE UNCHANGED allvars
  <2>1. UNCHANGED Monitor!vars
    BY <1>3 DEF allvars, Monitor!vars, Record
  <2>2. Progress'
    BY <1>3, ProgressKept DEF allvars, SerialInv
  <2> QED
    BY <1>1, <2>1, <2>2 DEF SerialInv
<1> QED
  BY <1>2, <1>3

(* One check or load at a time, the loop of piga_has_perm with its getters *)
(* and piga_seq_next and the steps of sys_piga_add_sequence amount to the  *)
(* atomic operations of Piga: for every number of tasks and loaders, every *)
(* order of their calls, every failure and all well-formed policies.       *)
THEOREM TurnsImplementMonitor == SerialSpec => ImplementsMonitor
<1>1. SerialInit => SerialInv /\ Monitor!Init
  BY SerialStart
<1>2. SerialInv /\ [SerialNext]_allvars => SerialInv' /\ [Monitor!Next]_(Monitor!vars)
  BY SerialInvStep
<1> QED
  BY <1>1, <1>2, PTL DEF SerialSpec, ImplementsMonitor, Monitor!Spec

-----------------------------------------------------------------------------
(* The theorems about the atomic monitor, for the serial behaviours.       *)
Proved == INSTANCE PigaProofs WITH
  seq <- settled.seq, link <- settled.link, s_len <- settled.s_len,
  l_len <- settled.l_len, calls <- Record

LEMMA ProvedIsMonitor ==
  /\ Monitor!Init => Proved!Init
  /\ [Monitor!Next]_(Monitor!vars) => [Proved!Next]_(Proved!vars)
<1>1. Monitor!Init => Proved!Init
  BY DEF Monitor!Init, Proved!Init, Monitor!Index, Proved!Index
<1>2. UNCHANGED Monitor!vars => UNCHANGED Proved!vars
  BY DEF Monitor!vars, Proved!vars
<1>3. ASSUME NEW v PROVE /\ Monitor!LoopDenies(v) <=> Proved!LoopDenies(v)
                         /\ Monitor!LoopMoves(v) = Proved!LoopMoves(v)
  BY DEF Monitor!LoopDenies, Proved!LoopDenies, Monitor!LoopMoves, Proved!LoopMoves,
     Monitor!WaitsFor, Proved!WaitsFor, Monitor!Matches, Proved!Matches,
     Monitor!TokenIndex, Proved!TokenIndex, Monitor!piga_seq_end, Proved!piga_seq_end,
     Monitor!piga_seq_next, Proved!piga_seq_next, Monitor!Index, Proved!Index
<1>4. ASSUME NEW t, NEW v, NEW avd, NEW rcu, NEW quiet,
             Monitor!avc_has_perm_flags(t, v, avd, rcu, quiet)
      PROVE  Proved!avc_has_perm_flags(t, v, avd, rcu, quiet)
  BY <1>3, <1>4, Zenon DEF Monitor!avc_has_perm_flags, Proved!avc_has_perm_flags,
     Monitor!SelinuxDenies, Proved!SelinuxDenies, Monitor!AuditOnlySkips,
     Proved!AuditOnlySkips, Monitor!Audited, Proved!Audited
<1>5. ASSUME NEW t, NEW v, Monitor!Access(t, v) PROVE Proved!Access(t, v)
  <2>1. ASSUME NEW S PROVE Monitor!Cardinality(S) = Proved!Cardinality(S)
    BY Zenon DEF Monitor!Cardinality, Proved!Cardinality
  <2> QED
    BY <1>4, <1>5, <2>1, Zenon DEF Monitor!Access, Proved!Access
<1>6. ASSUME NEW t, Monitor!Retry(t) PROVE Proved!Retry(t)
  BY <1>4, <1>6, Zenon DEF Monitor!Retry, Proved!Retry
<1>7. ASSUME NEW p, Monitor!sys_piga_add_sequence(p) PROVE Proved!sys_piga_add_sequence(p)
  BY <1>7, Zenon DEF Monitor!sys_piga_add_sequence, Proved!sys_piga_add_sequence,
     Monitor!piga_set_pol, Proved!piga_set_pol
<1>8. ASSUME NEW b PROVE /\ Monitor!piga_proc_status_write(b) => Proved!piga_proc_status_write(b)
                         /\ Monitor!piga_proc_mode_write(b) => Proved!piga_proc_mode_write(b)
  BY Zenon DEF Monitor!piga_proc_status_write, Proved!piga_proc_status_write,
     Monitor!piga_proc_mode_write, Proved!piga_proc_mode_write
<1>9. Monitor!Next => Proved!Next
  BY <1>5, <1>6, <1>7, <1>8, Zenon DEF Monitor!Next, Proved!Next
<1> QED
  BY <1>1, <1>2, <1>9

(* The assumptions of Piga hold here.                                      *)
LEMMA MonitorNeverCompletes == Proved!Spec => []Proved!NoSignatureCompleted
<1>1. Vectors \subseteq Proved!Vector /\ NoVector \notin Vectors
  BY VectorAssumption DEF Vector, Proved!Vector
<1>2. AvdOf \in [Vectors -> SUBSET Proved!AvDecision]
  BY AvdAssumption DEF A!AvDecision, Proved!AvDecision
<1>3. \A p \in Policies : Proved!WellFormed(p)
  BY PolicyAssumption DEF WellFormed, Proved!WellFormed, Index, Proved!Index,
     Sequence, Proved!Sequence, Link, Proved!Link
<1>4. MaxCalls \in Nat
  BY BoundAssumption
<1>5. \A p \in Policies : \A j \in Proved!Index(p.l_len) : \A v \in Vectors :
        Proved!Matches(p.link[j], v) =>
          \A d \in AvdOf[v] : /\ p.link[j].requested \subseteq d.auditallow
                              /\ v.requested \subseteq d.auditdeny
  BY AuditRulesAssumption DEF Index, Proved!Index, Matches, Proved!Matches
<1> QED
  BY <1>1, <1>2, <1>3, <1>4, <1>5, Proved!SignaturesNeverComplete, PTL

-----------------------------------------------------------------------------
(* A check is recorded after the ones that were complete when it began.    *)
Starts ==
  /\ \A n \in 1 .. Len(calls) : calls[n].start < n
  /\ \A t \in Tasks : task[t].start <= Len(calls)

(* The steps of a check before its return do not touch the time it began.  *)
LEMMA StartKept ==
  ASSUME SerialInv, SerialNext, NEW t \in Tasks, TaskStep(t), ~Return(t)
  PROVE  /\ calls' = calls
         /\ \A u \in Tasks : task'[u].start = task[u].start
<1> DEFINE f == task[t]
<1>1. f \in Frame
  <2>1. f.pc # "idle"
    BY DEF TaskStep, ReadStatus, ReadMode, piga_get_sequence_at, LoopTest, Getter, AfterGetter,
       EndTest, LoadPosition, StorePosition, TestPosition, TakeBack, Return
  <2> QED
    BY <2>1, TablesInCheck
<1>2. ASSUME NEW g, task' = [task EXCEPT ![t] = g], g.start = f.start
      PROVE  \A u \in Tasks : task'[u].start = task[u].start
  BY <1>2 DEF SerialInv, Turns
<1>3. calls' = calls
  BY DEF TaskStep, ReadStatus, ReadMode, piga_get_sequence_at, LoopTest, Getter,
     EndTest, LoadPosition, StorePosition, TestPosition, TakeBack, Goto, SetPosition, Oops
<1>4. NextRound(t) \in Frame /\ NextRound(t).start = f.start
  <2>1. f.i \in Nat
    BY <1>1 DEF Frame
  <2>2. PICK j \in Nat : j = f.i + 1
    BY <2>1
  <2> QED
    BY <1>1, <2>2, NextRoundFrame DEF NextRound, Frame
<1>5. /\ \A pc : [f EXCEPT !.pc = pc].start = f.start
      /\ \A pc, seen : [f EXCEPT !.pc = pc, !.seen = seen].start = f.start
      /\ \A pc, seqs, i : [f EXCEPT !.pc = pc, !.seqs = seqs, !.i = i].start = f.start
      /\ \A pc, reg : [f EXCEPT !.pc = pc, !.reg = reg].start = f.start
      /\ \A denied : [NextRound(t) EXCEPT !.denied = denied].start = f.start
  BY <1>1, <1>4 DEF Frame
<1>6. ~oops' /\ ~TakeBack(t)
  BY SerialTurns, AloneFacts, NoTakeBack DEF SerialInv
<1>7. CASE ReadStatus(t)
  BY <1>1, <1>2, <1>3, <1>5, <1>7 DEF ReadStatus, Goto
<1>8. CASE ReadMode(t)
  BY <1>1, <1>2, <1>3, <1>5, <1>8 DEF ReadMode, Goto
<1>9. CASE piga_get_sequence_at(t)
  BY <1>1, <1>2, <1>3, <1>5, <1>9 DEF piga_get_sequence_at, Goto
<1>10. CASE LoopTest(t)
  BY <1>1, <1>2, <1>3, <1>5, <1>10 DEF LoopTest, Goto
<1>11. CASE Getter(t)
  BY <1>1, <1>2, <1>3, <1>4, <1>5, <1>6, <1>11 DEF Getter, Goto, Oops
<1>12. CASE EndTest(t)
  BY <1>1, <1>2, <1>3, <1>4, <1>5, <1>6, <1>12 DEF EndTest, Goto, Oops
<1>13. CASE LoadPosition(t)
  <2> DEFINE g == [f EXCEPT !.pc = "store", !.reg = Cell(t).current_position + 1]
  <2>1. task' = [task EXCEPT ![t] = g]
    BY <1>6, <1>13 DEF LoadPosition, Goto, Oops
  <2>2. g.start = f.start
    BY <1>1 DEF Frame
  <2> QED
    BY <1>2, <1>3, <2>1, <2>2
<1>14. CASE StorePosition(t)
  BY <1>1, <1>2, <1>3, <1>5, <1>6, <1>14 DEF StorePosition, SetPosition, Oops
<1>15. CASE TestPosition(t)
  BY <1>1, <1>2, <1>3, <1>4, <1>5, <1>6, <1>15 DEF TestPosition, Goto, Oops
<1> QED
  BY <1>6, <1>7, <1>8, <1>9, <1>10, <1>11, <1>12, <1>13, <1>14, <1>15 DEF TaskStep

LEMMA StartsStep ==
  ASSUME SerialInv, Starts, [SerialNext]_allvars
  PROVE  Starts'
<1>1. /\ calls \in Seq(CallRecord) /\ Len(calls) \in Nat
      /\ task = [t \in Tasks |-> task[t]]
      /\ \A t \in Tasks : task[t] = Idle \/ task[t] \in Frame
  BY DEF SerialInv, Turns, TaskGood
<1>2. ASSUME calls' = calls, \A t \in Tasks : task'[t].start = task[t].start
      PROVE  Starts'
  BY <1>2 DEF Starts
<1>3. ASSUME NEW t \in Tasks, (\E v \in Vectors : Begin(t, v)) \/ BeginRetry(t)
      PROVE  Starts'
  <2> DEFINE Started == \E g : Goto(t, g) /\ g.start = Len(calls)
  <2>1. ASSUME NEW v, NEW avd, NEW walks, Enter(t, v, avd, walks) PROVE Started
    <3> DEFINE g == [pc |-> IF A!SelinuxDenies(v, avd) THEN "audit" ELSE "status",
                     vec |-> v, avd |-> avd, walks |-> walks,
                     denied |-> A!SelinuxDenies(v, avd), seen |-> FALSE,
                     seqs |-> Null, i |-> 0, reg |-> 0, start |-> Len(calls)]
    <3>1. Goto(t, g)
      BY <2>1, Zenon DEF Enter
    <3>2. g.start = Len(calls)
      OBVIOUS
    <3> HIDE DEF g
    <3> QED
      BY <3>1, <3>2, Zenon
  <2>2. Started
    <3> HIDE DEF Started
    <3>1. ASSUME NEW v \in Vectors, Begin(t, v) PROVE Started
      BY <2>1, <3>1, Zenon DEF Begin
    <3>2. CASE BeginRetry(t)
      BY <2>1, <3>2, Zenon DEF BeginRetry
    <3> QED
      BY <1>3, <3>1, <3>2, Zenon
  <2>3. PICK g : Goto(t, g) /\ g.start = Len(calls)
    BY <2>2, Zenon
  <2>4. /\ calls' = calls /\ task'[t] = g
        /\ \A u \in Tasks \ {t} : task'[u] = task[u]
    BY <1>1, <2>3 DEF Goto
  <2> QED
    BY <1>1, <2>3, <2>4 DEF Starts
<1>4. ASSUME NEW t \in Tasks, TaskStep(t), ~Return(t) PROVE Starts'
  <2>1. CASE SerialNext
    BY <1>2, <1>4, <2>1, StartKept
  <2>2. CASE UNCHANGED allvars
    BY <1>2, <2>2 DEF allvars
  <2> QED
    BY <2>1, <2>2
<1>5. ASSUME NEW t \in Tasks, Return(t) PROVE Starts'
  <2> DEFINE f == task[t]
  <2>1. f \in Frame
    BY <1>1, <1>5 DEF Return, Idle
  <2>2. f.start \in Nat /\ f.start <= Len(calls)
    BY <2>1 DEF Frame, Starts
  <2>3. task'[t].start = 0 /\ \A u \in Tasks \ {t} : task'[u] = task[u]
    BY <1>1, <1>5 DEF Return, Idle
  <2>4. CASE calls' = calls
    BY <1>1, <2>3, <2>4 DEF Starts
  <2>5. CASE calls' # calls
    <3>1. PICK echild :
            calls' = IF f.seen
                     THEN Append(calls, [vec |-> f.vec, denied |-> f.denied,
                                         retried |-> echild, start |-> f.start])
                     ELSE calls
      BY <1>5, Zenon DEF Return
    <3> DEFINE e == [vec |-> f.vec, denied |-> f.denied,
                     retried |-> echild, start |-> f.start]
    <3>2. calls' = Append(calls, e)
      BY <2>5, <3>1, Zenon
    <3>3. e.start = f.start
      OBVIOUS
    <3> HIDE DEF e
    <3>4. PICK c : calls' = Append(calls, c) /\ c.start = f.start
      BY <3>2, <3>3, Zenon
    <3>5. /\ Len(calls') = Len(calls) + 1 /\ calls'[Len(calls) + 1] = c
          /\ \A n \in 1 .. Len(calls) : calls'[n] = calls[n]
      BY <1>1, <3>4
    <3>6. \A u \in Tasks : task[u].start \in Nat
      <4> SUFFICES ASSUME NEW u \in Tasks PROVE task[u].start \in Nat
        OBVIOUS
      <4>1. CASE task[u] = Idle
        BY <4>1 DEF Idle
      <4>2. CASE task[u] \in Frame
        BY <4>2 DEF Frame
      <4> QED
        BY <1>1, <4>1, <4>2
    <3>7. \A u \in Tasks : task'[u].start <= Len(calls')
      BY <1>1, <2>3, <3>5, <3>6 DEF Starts
    <3>8. \A n \in 1 .. Len(calls') : calls'[n].start < n
      BY <1>1, <2>2, <3>4, <3>5 DEF Starts
    <3> QED
      BY <3>7, <3>8 DEF Starts
  <2> QED
    BY <2>4, <2>5
<1>6. ASSUME NEW d \in Loaders, Publish(d) PROVE Starts'
  <2>1. CASE UNCHANGED <<calls, task>>
    BY <1>2, <2>1
  <2>2. CASE ~UNCHANGED <<calls, task>>
    <3>1. /\ calls' = <<>>
          /\ task' = [t \in Tasks |-> [task[t] EXCEPT !.seen = FALSE, !.start = 0]]
      BY <1>6, <2>2 DEF Publish
    <3>2. ASSUME NEW t \in Tasks PROVE task'[t].start = 0
      <4>1. task'[t] = [task[t] EXCEPT !.seen = FALSE, !.start = 0]
        BY <3>1
      <4>2. CASE task[t] = Idle
        <5>1. task[t] \in [pc : {"idle"}, seen : {FALSE}, start : {0}]
          BY <4>2 DEF Idle
        <5> QED
          BY <4>1, <5>1
      <4>3. CASE task[t] \in Frame
        BY <4>1, <4>3 DEF Frame
      <4> QED
        BY <1>1, <4>2, <4>3
    <3>3. Len(calls') = 0
      BY <3>1
    <3> QED
      BY <3>2, <3>3 DEF Starts
  <2> QED
    BY <2>1, <2>2
<1>7. CASE UNCHANGED <<calls, task>>
  BY <1>2, <1>7
<1>8. ASSUME NEW d \in Loaders, LoaderStep(d), ~Publish(d) PROVE UNCHANGED <<calls, task>>
  BY <1>8 DEF LoaderStep, vmalloc, copy_from_user, LoadFails, FreeOldTables, FreeOld,
     LoaderKeeps, Oops
<1>9. CASE Next
  BY <1>3, <1>4, <1>5, <1>6, <1>7, <1>8, <1>9
     DEF Next, BeginLoad, LoaderKeeps, piga_proc_status_write, piga_proc_mode_write
<1> QED
  BY <1>7, <1>9 DEF SerialNext, allvars

(* The tables in use are the settled ones up to tokens.                    *)
LEMMA TablesUpToTokens ==
  ASSUME SerialInv, \A d \in Loaders : ~InSetPol(d), NEW i \in DOMAIN Cells(seq)
  PROVE  /\ i \in Index(settled.s_len) /\ Cells(link) = settled.link
         /\ Cells(seq)[i].length = settled.seq[i].length
         /\ Cells(seq)[i].link_offset = settled.seq[i].link_offset
<1>1. /\ settled.s_len \in Nat
      /\ settled.seq \in [Index(settled.s_len) -> Sequence]
  BY DEF SerialInv, Progress
<1>2. CASE Unmoved
  BY <1>1, <1>2 DEF Unmoved, SameLinks
<1>3. ASSUME NEW t \in Tasks, task[t].pc # "idle"
      PROVE  /\ i \in Index(settled.s_len) /\ Cells(link) = settled.link
             /\ \E v : Cells(seq)[i] \in {settled.seq[i], Moved(i, v)}
  <2> DEFINE f == task[t]
  <2>1. /\ f \in Frame /\ CheckProgress(f) /\ s_len = settled.s_len /\ SameLinks
        /\ Cells(seq) = [j \in Index(s_len) |-> Cells(seq)[j]]
    BY <1>3, TablesInCheck DEF CheckProgress
  <2>2. i \in Index(settled.s_len) /\ Cells(link) = settled.link
    BY <2>1 DEF SameLinks
  <2>3. f.pc \in LoopPcs \cup {"status", "mode", "getseq", "audit"}
    BY <2>1 DEF Frame, TaskPcs
  <2>4. CASE f.pc \in {"status", "mode", "getseq"}
    BY <2>1, <2>2, <2>4 DEF CheckProgress
  <2>5. CASE f.pc \in LoopPcs
    BY <2>1, <2>2, <2>5 DEF CheckProgress, LoopProgress
  <2>6. CASE f.pc = "audit"
    BY <2>1, <2>2, <2>6 DEF CheckProgress, Answered, AllMoved
  <2> QED
    BY <2>2, <2>3, <2>4, <2>5, <2>6
<1>4. CASE \E t \in Tasks : task[t].pc # "idle"
  <2>1. /\ i \in Index(settled.s_len) /\ Cells(link) = settled.link
        /\ \E v : Cells(seq)[i] \in {settled.seq[i], Moved(i, v)}
    BY <1>3, <1>4
  <2>2. settled.seq[i] \in Sequence
    BY <1>1, <2>1
  <2>3. \A v : /\ Moved(i, v).length = settled.seq[i].length
               /\ Moved(i, v).link_offset = settled.seq[i].link_offset
    BY <2>2 DEF Moved, piga_seq_next, Sequence
  <2> QED
    BY <2>1, <2>3
<1> QED
  BY <1>2, <1>4 DEF SerialInv, Progress

(* A chain of checks, each complete before the next began, would be an     *)
(* embedding of the signature in the record of the atomic monitor.         *)
LEMMA ChainIsEmbedding ==
  ASSUME SerialInv, Starts, Proved!NoSignatureCompleted
  PROVE  NoSignaturePassed
<1> SUFFICES ASSUME \A d \in Loaders : ~InSetPol(d),
                    NEW i \in DOMAIN Cells(seq), NEW f \in Chains(i)
             PROVE  FALSE
  BY DEF NoSignaturePassed
<1> DEFINE k == settled.seq[i].length
           off == settled.seq[i].link_offset
           passed == {n \in 1 .. Len(calls) : ~calls[n].denied}
<1>1. /\ i \in Index(settled.s_len) /\ Cells(link) = settled.link
      /\ Cells(seq)[i].length = k /\ Cells(seq)[i].link_offset = off
  BY TablesUpToTokens
<1>2. /\ f \in [Index(k) -> passed]
      /\ \A a, b \in Index(k) : a < b => f[a] <= calls[f[b]].start
      /\ \A a \in Index(k) : Matches(settled.link[off + a], calls[f[a]].vec)
  BY <1>1 DEF Chains
<1>3. calls \in Seq(CallRecord) /\ Len(calls) \in Nat
  BY DEF SerialInv, Turns
<1>4. \A n \in 1 .. Len(calls) : calls[n].start \in Nat /\ calls[n].start < n
  <2>1. \A n \in 1 .. Len(calls) : calls[n] \in CallRecord
    BY <1>3
  <2>2. \A n \in 1 .. Len(calls) : calls[n].start \in Nat
    BY <2>1 DEF CallRecord
  <2> QED
    BY <2>2 DEF Starts
<1>5. \A a, b \in Index(k) : a < b => f[a] < f[b]
  <2>1. \A a \in Index(k) : f[a] \in 1 .. Len(calls)
    BY <1>2
  <2>2. \A n, m \in 1 .. Len(calls) : m <= calls[n].start => m < n
    BY <1>3, <1>4
  <2> HIDE DEF k
  <2> QED
    BY <1>2, <2>1, <2>2
<1>6. /\ Len(Record) = Len(calls)
      /\ \A n \in 1 .. Len(calls) : Record[n].vec = calls[n].vec /\ Record[n].denied = calls[n].denied
  BY <1>3 DEF Record
<1>7. Proved!Passed = passed
  BY <1>6 DEF Proved!Passed
<1>8. Proved!Index(k) = Index(k) /\ i \in Proved!Index(settled.s_len)
  BY <1>1 DEF Index, Proved!Index
<1>9. \A a \in Index(k) : Proved!Matches(settled.link[off + a], Record[f[a]].vec)
  <2>1. \A a \in Index(k) : Record[f[a]].vec = calls[f[a]].vec
    BY <1>2, <1>6
  <2> QED
    BY <1>2, <2>1 DEF Matches, Proved!Matches
<1> HIDE DEF k, off, passed
<1>10. f \in Proved!EmbeddingsOf(settled.link, off, Record, k, passed)
  BY <1>2, <1>5, <1>8, <1>9 DEF Proved!EmbeddingsOf
<1>11. Proved!Embeddings(i, k, Proved!Passed) # {}
  BY <1>7, <1>10 DEF Proved!Embeddings, off
<1> QED
  BY <1>8, <1>11 DEF Proved!NoSignatureCompleted, k

(* With one check or load at a time PIGA imposes its signatures on the     *)
(* detailed monitor too: no chain of accesses, each made after the one     *)
(* before was answered, completes one.  The property is the one that a     *)
(* race on the token breaks when calls do not take turns.                  *)
THEOREM TurnsKeepSignatures == SerialSpec => []NoSignaturePassed
<1>1. SerialSpec => [](SerialInv /\ Starts)
  <2>1. SerialInit => SerialInv /\ Starts
    <3>1. ASSUME SerialInit PROVE Starts
      <4>1. Len(calls) = 0 /\ \A t \in Tasks : task[t].start = 0
        BY <3>1 DEF SerialInit, Init, Idle
      <4> QED
        BY <4>1 DEF Starts
    <3> QED
      BY <3>1, SerialStart
  <2>2. SerialInv /\ Starts /\ [SerialNext]_allvars => SerialInv' /\ Starts'
    BY StartsStep, SerialInvStep
  <2> QED
    BY <2>1, <2>2, PTL DEF SerialSpec
<1>2. SerialSpec => Proved!Spec
  BY TurnsImplementMonitor, ProvedIsMonitor, PTL DEF ImplementsMonitor, Monitor!Spec, Proved!Spec
<1>3. SerialInv /\ Starts /\ Proved!NoSignatureCompleted => NoSignaturePassed
  BY ChainIsEmbedding
<1> QED
  BY <1>1, <1>2, <1>3, MonitorNeverCompletes, PTL
===============================================================================
