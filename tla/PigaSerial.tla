----------------------------- MODULE PigaSerial -----------------------------
(***************************************************************************)
(* The steps of PigaThreads taken in turns: one check or one loading of a  *)
(* policy at a time, and no write to a switch meanwhile, as a lock around  *)
(* the PIGA part of avc_has_perm_flags and around sys_piga_add_sequence    *)
(* would have it, or a machine with one processor and no preemption.       *)
(* These behaviours implement module Piga: the loop over the sequences,    *)
(* the four getters, the increment that is taken back, and the steps of    *)
(* the system call with its failures amount to the atomic operations that  *)
(* module reasons about.  What PigaThreads does beyond them is what the    *)
(* missing lock adds.                                                      *)
(***************************************************************************)
EXTENDS PigaThreads

ASSUME UserAssumption == Tasks \cap Loaders = {}

(* What Piga assumes of accesses, decisions and audit rules.               *)
ASSUME VectorAssumption == Vectors \subseteq Vector /\ NoVector \notin Vectors
ASSUME AvdAssumption == AvdOf \in [Vectors -> SUBSET A!AvDecision]
ASSUME AuditRulesAssumption ==
  \A p \in Policies : \A j \in Index(p.l_len) : \A v \in Vectors :
    Matches(p.link[j], v) =>
      \A d \in AvdOf[v] : /\ p.link[j].requested \subseteq d.auditallow
                          /\ v.requested \subseteq d.auditdeny

VARIABLE settled   \* the tables when nothing was under way

allvars == <<status, audit_only, heap, seq, link, s_len, l_len, task, loader,
             retry, calls, oops, overlap, raced, settled>>

Busy == {t \in Tasks : task[t].pc # "idle"} \cup {d \in Loaders : loader[d].pc # "idle"}

CurrentTables == [seq |-> Cells(seq), link |-> Cells(link), s_len |-> s_len,
                  l_len |-> l_len]

SerialInit == Init /\ settled = CurrentTables

SerialNext ==
  /\ Next
  /\ \A x, y \in Busy' : x = y
  /\ Busy # {} => status' = status /\ audit_only' = audit_only
  /\ settled' = IF Busy' = {} THEN CurrentTables' ELSE settled

SerialSpec == SerialInit /\ [][SerialNext]_allvars

-----------------------------------------------------------------------------
(* Properties.                                                             *)

(* The record without the times at which checks began.                     *)
Record == [n \in 1 .. Len(calls) |-> [vec |-> calls[n].vec,
                                      denied |-> calls[n].denied,
                                      retried |-> calls[n].retried]]

Monitor == INSTANCE Piga WITH
  seq <- settled.seq, link <- settled.link, s_len <- settled.s_len,
  l_len <- settled.l_len, calls <- Record

(* Taken in turns, the loop of piga_has_perm with its getters and          *)
(* piga_seq_next, and the steps of sys_piga_add_sequence, change tokens,   *)
(* tables and answers exactly as the atomic operations of Piga do.         *)
ImplementsMonitor == Monitor!Spec
=============================================================================
