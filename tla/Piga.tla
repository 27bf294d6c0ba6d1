-------------------------------- MODULE Piga --------------------------------
(***************************************************************************)
(* The PIGA monitor with every kernel operation atomic: the decision hook  *)
(* avc_has_perm_flags -> piga_has_perm -> avc_audit, the loading of a      *)
(* policy by sys_piga_add_sequence, the two procfs switches, and the       *)
(* rcu-walk of the VFS that repeats a check whose answer is -ECHILD.       *)
(*                                                                         *)
(* The AVC is seen through its answer: AvdOf[v] is the set of decisions it *)
(* may return for v; permissive folds selinux_enforcing and the permissive *)
(* flag of the decision into one.                                          *)
(***************************************************************************)
EXTENDS PigaTables, Sequences, FiniteSets

CONSTANTS
  Tasks,      \* tasks that make accesses
  Vectors,    \* the accesses they make
  AvdOf,      \* for every access the decisions the AVC may return
  Policies,   \* the policies that may be loaded
  NoVector,   \* "no check to repeat"
  MaxCalls    \* bound on the checks recorded per loaded policy

AvDecision == [allowed : SUBSET Perms, auditallow : SUBSET Perms,
               auditdeny : SUBSET Perms, permissive : BOOLEAN]

ASSUME VectorAssumption == Vectors \subseteq Vector /\ NoVector \notin Vectors
ASSUME AvdAssumption == AvdOf \in [Vectors -> SUBSET AvDecision]
ASSUME PolicyAssumption == \A p \in Policies : WellFormed(p)
ASSUME BoundAssumption == MaxCalls \in Nat

(* The rule piga_has_perm asks of the SELinux policy for its audit-only    *)
(* mode: "For each vector in a PIGA signature/seqeunce, you should add the *)
(* corresponding SELinux auditallow rule."  The denials that permissive    *)
(* mode lets through must be audited too: no dontaudit rule on them.       *)
ASSUME AuditRulesAssumption ==
  \A p \in Policies : \A j \in Index(p.l_len) : \A v \in Vectors :
    Matches(p.link[j], v) =>
      \A d \in AvdOf[v] : /\ p.link[j].requested \subseteq d.auditallow
                          /\ v.requested \subseteq d.auditdeny

VARIABLES
  status,      \* piga_status(): PIGA enabled
  audit_only,  \* piga_audit_only_mode()
  seq, link,   \* the tables of the loaded policy
  s_len, l_len,
  retry,       \* per task: the check the VFS has to repeat in ref-walk
  calls        \* history: the checks that reached the enabled monitor
               \* since the policy was loaded, in order

tables == <<seq, link, s_len, l_len>>
vars == <<status, audit_only, seq, link, s_len, l_len, retry, calls>>

Call == [vec : Vectors, denied : BOOLEAN, retried : BOOLEAN]

TypeOK ==
  /\ status \in BOOLEAN
  /\ audit_only \in BOOLEAN
  /\ s_len \in Nat
  /\ l_len \in Nat
  /\ seq \in [Index(s_len) -> Sequence]
  /\ link \in [Index(l_len) -> Link]
  /\ retry \in [Tasks -> Vectors \cup {NoVector}]
  /\ calls \in Seq(Call)

(* Static data of the module: both switches off, both tables NULL.         *)
Init ==
  /\ status = FALSE
  /\ audit_only = FALSE
  /\ s_len = 0 /\ seq = [i \in Index(0) |-> 0]
  /\ l_len = 0 /\ link = [i \in Index(0) |-> 0]
  /\ retry = [t \in Tasks |-> NoVector]
  /\ calls = <<>>

-----------------------------------------------------------------------------
(* The answers of the hook.                                                *)

(* avc_has_perm_noaudit refuses: a requested permission is not allowed and *)
(* nothing makes the refusal permissive.                                   *)
SelinuxDenies(v, avd) == v.requested \ avd.allowed # {} /\ ~avd.permissive

(* The early returns of piga_has_perm in audit-only mode: SELinux does not *)
(* audit this access.                                                      *)
AuditOnlySkips(v, avd) ==
  LET denied == v.requested \ avd.allowed
  IN  /\ audit_only
      /\ IF denied # {} THEN denied \cap avd.auditdeny = {}
                        ELSE v.requested \cap avd.auditallow = {}

WaitsForAnyClass(i, v) ==
  LET lk == link[TokenIndex(seq[i])]
  IN  lk.cs = v.ssid /\ lk.cc = v.tsid /\ lk.requested \cap v.requested # {}

(* Does sequence i wait for this access?                                   *)
WaitsFor(i, v) == Matches(link[TokenIndex(seq[i])], v)

(* rc of the loop of piga_has_perm: some sequence is at its last link.     *)
LoopDenies(v) == \E i \in Index(s_len) : WaitsFor(i, v) /\ piga_seq_end(seq[i])

LoopRestarts(v) ==
  [i \in Index(s_len) |->
     IF ~WaitsFor(i, v) THEN seq[i]
     ELSE IF piga_seq_end(seq[i]) THEN [seq[i] EXCEPT !.current_position = 0]
     ELSE piga_seq_next(seq[i])]

LoopForgetsToken(v) ==
  [i \in Index(s_len) |-> IF WaitsFor(i, v) /\ ~piga_seq_end(seq[i]) /\ i = 0
                          THEN piga_seq_next(seq[i]) ELSE seq[i]]

(* The tokens after the loop: every sequence that waits for the access     *)
(* moves on, also when another one makes the access fail.                  *)
LoopMoves(v) ==
  [i \in Index(s_len) |-> IF WaitsFor(i, v) /\ ~piga_seq_end(seq[i])
                          THEN piga_seq_next(seq[i]) ELSE seq[i]]

(* What avc_audit has to report; when there is something it returns        *)
(* -ECHILD in an rcu-walk.  A quiet check is one of access(2) for which    *)
(* the policy has a dontaudit rule on audit_access.                        *)
Audited(v, avd, denies, quiet) ==
  LET denied == v.requested \ avd.allowed
  IN  IF denied # {} THEN IF quiet THEN {} ELSE denied \cap avd.auditdeny
      ELSE IF denies THEN v.requested
      ELSE v.requested \cap avd.auditallow

(* avc_has_perm_flags, in an rcu-walk or not.                              *)
avc_has_perm_flags(t, v, avd, rcu, quiet) ==
  LET consulted == ~SelinuxDenies(v, avd)
      examined  == consulted /\ status /\ ~AuditOnlySkips(v, avd)
      denied    == ~consulted \/ (examined /\ LoopDenies(v))
      echild    == rcu /\ Audited(v, avd, denied, quiet) # {}
  IN  /\ seq' = IF examined THEN LoopMoves(v) ELSE seq
      /\ retry' = [retry EXCEPT ![t] = IF echild THEN v ELSE NoVector]
      /\ calls' = IF consulted /\ status
                  THEN Append(calls, [vec |-> v, denied |-> denied,
                                      retried |-> echild])
                  ELSE calls
      /\ UNCHANGED <<status, audit_only, link, s_len, l_len>>

(* A task makes an access; path lookups come in an rcu-walk.  The bound    *)
(* leaves room for the checks still to be repeated.                        *)
Access(t, v) ==
  /\ retry[t] = NoVector
  /\ Len(calls) + Cardinality({u \in Tasks : retry[u] # NoVector}) < MaxCalls
  /\ \E avd \in AvdOf[v] : \E rcu, quiet \in BOOLEAN :
       avc_has_perm_flags(t, v, avd, rcu, quiet)

RetryInRcuWalk(t) ==
  /\ retry[t] # NoVector
  /\ \E avd \in AvdOf[retry[t]] : \E quiet \in BOOLEAN :
       avc_has_perm_flags(t, retry[t], avd, TRUE, quiet)

(* may_lookup and do_path_lookup after -ECHILD: the check again, this time *)
(* in a ref-walk.  (do_path_lookup repeats the checks of the earlier       *)
(* components of the path too; a path here has one component.)             *)
Retry(t) ==
  /\ retry[t] # NoVector
  /\ \E avd \in AvdOf[retry[t]] : \E quiet \in BOOLEAN :
       avc_has_perm_flags(t, retry[t], avd, FALSE, quiet)

SetPolKeepsLinks(p) ==
  /\ seq' = p.seq /\ s_len' = p.s_len
  /\ UNCHANGED <<link, l_len>>

SetPolKeepsLength(p) ==
  /\ seq' = p.seq /\ s_len' = s_len
  /\ link' = p.link /\ l_len' = p.l_len

(* The old tables are freed, the new ones installed.                       *)
piga_set_pol(p) ==
  /\ seq' = p.seq /\ s_len' = p.s_len
  /\ link' = p.link /\ l_len' = p.l_len

(* A system call that succeeds; one that fails changes nothing (its steps  *)
(* are in module PigaThreads).                                             *)
sys_piga_add_sequence(p) ==
  /\ piga_set_pol(p)
  /\ calls' = <<>>
  /\ UNCHANGED <<status, audit_only, retry>>

(* "0" or "1" written to /proc/piga/status and /proc/piga/mode.            *)
piga_proc_status_write(b) ==
  /\ status' = b
  /\ UNCHANGED <<audit_only, seq, link, s_len, l_len, retry, calls>>

piga_proc_mode_write(b) ==
  /\ audit_only' = b
  /\ UNCHANGED <<status, seq, link, s_len, l_len, retry, calls>>

Next ==
  \/ \E t \in Tasks : \E v \in Vectors : Access(t, v)
  \/ \E t \in Tasks : Retry(t)
  \/ \E p \in Policies : sys_piga_add_sequence(p)
  \/ \E b \in BOOLEAN : piga_proc_status_write(b)
  \/ \E b \in BOOLEAN : piga_proc_mode_write(b)

Spec == Init /\ [][Next]_vars

(* The ref-walk is not waiting for anyone: a task that has to repeat its   *)
(* check does so.                                                          *)
FairSpec == Spec /\ \A t \in Tasks : WF_vars(Retry(t))

-----------------------------------------------------------------------------
(* Properties.                                                             *)

(* The checks of the record that PIGA let pass, and all of them.           *)
Passed == {n \in 1 .. Len(calls) : ~calls[n].denied}
Made(n) == 1 .. n

(* The ways to find k links, from index off of link table lk on, in order  *)
(* among the checks of the record rec with numbers in S; and those of the  *)
(* first k links of sequence i in the record.                              *)
EmbeddingsOf(lk, off, rec, k, S) ==
  {f \in [Index(k) -> S] :
     /\ \A a, b \in Index(k) : a < b => f[a] < f[b]
     /\ \A a \in Index(k) : Matches(lk[off + a], rec[f[a]].vec)}

Embeddings(i, k, S) == EmbeddingsOf(link, seq[i].link_offset, calls, k, S)

(* Every token stays on a link of its own sequence and inside the link     *)
(* table, so the getters of piga.c read a link of that sequence.           *)
TokenInSequence ==
  \A i \in Index(s_len) :
    /\ seq[i].current_position < seq[i].length
    /\ seq[i].link_offset + seq[i].length <= l_len

(* The memory PIGA adds to SELinux works: the accesses that piga_has_perm  *)
(* let pass since the policy was loaded never contain a whole signature in *)
(* order, in audit-only mode too when the auditallow rules are in place.   *)
NoSignatureCompleted ==
  \A i \in Index(s_len) : Embeddings(i, seq[i].length, Passed) = {}

(* The monitor does not invent refusals: a check that piga_has_perm        *)
(* refuses is the last link of a signature whose earlier links were        *)
(* checked before it, in order, since the policy was loaded.               *)
DenialJustified ==
  \A n \in 1 .. Len(calls) : calls[n].denied =>
    \E i \in Index(s_len) :
      \E f \in Embeddings(i, seq[i].length, Made(n)) : f[seq[i].length - 1] = n

(* A token only moves forward, one link at a time, until the next policy   *)
(* is loaded: no check of piga_has_perm makes a sequence forget progress.  *)
TokensMoveForward ==
  [][\/ \E p \in Policies : sys_piga_add_sequence(p)
     \/ /\ s_len' = s_len
        /\ \A i \in Index(s_len) :
             seq'[i].current_position \in
               {seq[i].current_position, seq[i].current_position + 1}]_vars

(* A lookup that met -ECHILD is answered in the end: the repeated check is *)
(* made in a ref-walk, where avc_audit never asks for another repetition.  *)
LookupCompletes == \A t \in Tasks : retry[t] # NoVector ~> retry[t] = NoVector

(* avc_audit on the repetition in a ref-walk: "this is logically just as   *)
(* if the operation happened a little later", so a refusal is justified by *)
(* the checks that were not to be repeated.                                *)
RetryIsJustLater ==
  \A n \in 1 .. Len(calls) : (calls[n].denied /\ ~calls[n].retried) =>
    \E i \in Index(s_len) :
      \E f \in Embeddings(i, seq[i].length, {m \in Made(n) : ~calls[m].retried}) :
        f[seq[i].length - 1] = n

(* "Used to print the current loaded signatures": reading                  *)
(* /proc/piga/policy lists for every sequence the links of that sequence.  *)
PolicyFileShowsSignatures ==
  \A i \in Index(s_len) :
    piga_list_sequence(seq[i], l_len) =
      {seq[i].link_offset + a : a \in Index(seq[i].length)}
=============================================================================
