----------------------------- MODULE PigaTables -----------------------------
(***************************************************************************)
(* The two tables of a PIGA policy as the kernel and the policy parser     *)
(* share them (security/selinux/piga/include/piga.h, ppp/piga.h), and the  *)
(* kernel's operators on one sequence (security/selinux/piga/piga.c).      *)
(*                                                                         *)
(* A sequence is a forbidden chain of interactions.  Its links lie in one  *)
(* stretch of the link table, from link_offset on; current_position is the *)
(* token: the link the sequence waits for.  Table indices start at 0 as in *)
(* C.  A permission mask (u32 requested) is the set of its permissions, so *)
(* that a bitwise AND is an intersection.                                  *)
(***************************************************************************)
EXTENDS Integers

CONSTANT Perms   \* the permissions a mask can hold

Sequence == [length : Nat, current_position : Nat, link_offset : Nat]

Link == [cs : Nat, cc : Nat, tclass : Nat, requested : SUBSET Perms]

(* What memory fresh from the allocator holds: SID 0, class 0, no          *)
(* permission.                                                             *)
ZeroLink == [cs |-> 0, cc |-> 0, tclass |-> 0, requested |-> {}]

(* One access as the AVC hook sees it; BUG_ON(!requested) in the AVC.      *)
Vector == [ssid : Nat, tsid : Nat, tclass : Nat,
           requested : (SUBSET Perms) \ {{}}]

(* An array of n cells.                                                    *)
Index(n) == 0 .. (n - 1)

(* The policies (s_len, l_len and the two tables, the arguments of         *)
(* sys_piga_add_sequence) that the rest of the kernel module can live      *)
(* with: at least one sequence, every sequence non-empty, its token on the *)
(* first link, and its stretch inside the link table.  The system call     *)
(* checks only that the lengths are not 0; the parser has to deliver the   *)
(* rest (module Ppp).                                                      *)
WellFormed(p) ==
  /\ p.s_len \in Nat \ {0} /\ p.l_len \in Nat \ {0}
  /\ p.seq \in [Index(p.s_len) -> Sequence]
  /\ p.link \in [Index(p.l_len) -> Link]
  /\ \A i \in Index(p.s_len) :
       /\ p.seq[i].length > 0
       /\ p.seq[i].current_position = 0
       /\ p.seq[i].link_offset + p.seq[i].length <= p.l_len

-----------------------------------------------------------------------------
(* piga_seq_get_cs, _cc, _tclass and _requested read this cell.            *)
TokenIndex(s) == s.link_offset + s.current_position

(* The condition of the loop of piga_has_perm on the four values read.     *)
Matches(lk, v) ==
  /\ lk.cs = v.ssid
  /\ lk.cc = v.tsid
  /\ lk.tclass = v.tclass
  /\ lk.requested \cap v.requested # {}

piga_seq_end(s) == s.current_position + 1 = s.length

(* A step past the last link is taken back.                                *)
piga_seq_next(s) ==
  IF s.current_position + 1 = s.length
  THEN s
  ELSE [s EXCEPT !.current_position = @ + 1]

(* The links piga_list_sequence prints for one sequence: the inner loop    *)
(* runs over the length of the whole link table.                           *)
piga_list_sequence(s, l_len) == {s.link_offset + j : j \in Index(l_len)}
=============================================================================
