----------------------------- MODULE PigaProofs -----------------------------
(***************************************************************************)
(* The safety properties of Piga for every set of tasks, accesses,         *)
(* decisions and policies that satisfy the assumptions of that module.     *)
(***************************************************************************)
EXTENDS Piga, TLAPS

(* The tables are, up to the tokens, those of one of the policies, or      *)
(* still those of the boot.                                                *)
LoadedPolicy ==
  \/ s_len = 0
  \/ \E p \in Policies :
       /\ s_len = p.s_len /\ l_len = p.l_len /\ link = p.link
       /\ \A i \in Index(s_len) : /\ seq[i].length = p.seq[i].length
                                  /\ seq[i].link_offset = p.seq[i].link_offset

(* What passed never contains more of a signature than its token says.     *)
ProgressBounded ==
  \A i \in Index(s_len) : \A k \in 0 .. seq[i].length :
    Embeddings(i, k, Passed) # {} => k <= seq[i].current_position

(* Every token stands where checks of the record have moved it to.         *)
ProgressEarned ==
  \A i \in Index(s_len) :
    Embeddings(i, seq[i].current_position, Made(Len(calls))) # {}

(* The inductive invariants: of the tables, and of tables and record.      *)
TablesInv == TypeOK /\ LoadedPolicy /\ TokenInSequence
BoundInv == TablesInv /\ ProgressBounded
EarnedInv == TablesInv /\ ProgressEarned /\ DenialJustified

-----------------------------------------------------------------------------
(* The loop of piga_has_perm moves tokens and nothing else.                *)
LEMMA LoopShape ==
  ASSUME TypeOK, NEW v \in Vectors
  PROVE  /\ LoopMoves(v) \in [Index(s_len) -> Sequence]
         /\ \A i \in Index(s_len) :
              /\ LoopMoves(v)[i].length = seq[i].length
              /\ LoopMoves(v)[i].link_offset = seq[i].link_offset
              /\ LoopMoves(v)[i].current_position =
                   IF WaitsFor(i, v) /\ ~piga_seq_end(seq[i])
                   THEN seq[i].current_position + 1
                   ELSE seq[i].current_position
<1>1. \A i \in Index(s_len) : seq[i] \in Sequence
  BY DEF TypeOK
<1>2. ASSUME NEW i \in Index(s_len), ~piga_seq_end(seq[i])
      PROVE  piga_seq_next(seq[i]) = [seq[i] EXCEPT !.current_position = @ + 1]
  BY <1>2 DEF piga_seq_next, piga_seq_end
<1>3. \A i \in Index(s_len) :
        LoopMoves(v)[i] = IF WaitsFor(i, v) /\ ~piga_seq_end(seq[i])
                          THEN [seq[i] EXCEPT !.current_position = @ + 1]
                          ELSE seq[i]
  BY <1>2 DEF LoopMoves
<1>4. \A i \in Index(s_len) : LoopMoves(v)[i] \in Sequence
  <2>1. ASSUME NEW s \in Sequence
        PROVE  [s EXCEPT !.current_position = @ + 1] \in Sequence
    BY DEF Sequence
  <2>2. QED
    BY <1>1, <1>3, <2>1
<1>5. LoopMoves(v) \in [Index(s_len) -> Sequence]
  BY <1>4 DEF LoopMoves
<1>6. QED
  BY <1>1, <1>3, <1>5 DEF Sequence

(* A type-correct state stays type-correct in a check of the AVC.          *)
LEMMA CheckType ==
  ASSUME TypeOK, NEW t \in Tasks, NEW v \in Vectors, NEW avd \in AvdOf[v],
         NEW rcu \in BOOLEAN, NEW quiet \in BOOLEAN,
         avc_has_perm_flags(t, v, avd, rcu, quiet)
  PROVE  TypeOK'
<1>1. seq' \in [Index(s_len) -> Sequence]
  BY LoopShape DEF avc_has_perm_flags, TypeOK
<1>2. retry' \in [Tasks -> Vectors \cup {NoVector}]
  BY DEF avc_has_perm_flags, TypeOK
<1>3. calls' \in Seq(Call)
  <2>1. ASSUME NEW d \in BOOLEAN, NEW e \in BOOLEAN
        PROVE  Append(calls, [vec |-> v, denied |-> d, retried |-> e]) \in Seq(Call)
    BY DEF TypeOK, Call
  <2>2. PICK d \in BOOLEAN, e \in BOOLEAN :
          calls' \in {calls, Append(calls, [vec |-> v, denied |-> d, retried |-> e])}
    BY Zenon DEF avc_has_perm_flags
  <2>3. QED
    BY <2>1, <2>2 DEF TypeOK
<1>4. QED
  BY <1>1, <1>2, <1>3 DEF avc_has_perm_flags, TypeOK

(* Every step of the monitor keeps the types.                              *)
LEMMA TypeStep ==
  ASSUME TypeOK, [Next]_vars
  PROVE  TypeOK'
<1>1. ASSUME NEW t \in Tasks, NEW v \in Vectors, Access(t, v)
      PROVE  TypeOK'
  BY <1>1, CheckType DEF Access
<1>2. ASSUME NEW t \in Tasks, Retry(t)
      PROVE  TypeOK'
  <2>1. retry[t] \in Vectors
    BY <1>2 DEF Retry, TypeOK
  <2>2. QED
    BY <1>2, <2>1, CheckType DEF Retry
<1>3. ASSUME NEW p \in Policies, sys_piga_add_sequence(p)
      PROVE  TypeOK'
  <2>1. WellFormed(p)
    BY PolicyAssumption
  <2>2. calls' \in Seq(Call)
    BY <1>3 DEF sys_piga_add_sequence
  <2>3. QED
    BY <1>3, <2>1, <2>2 DEF sys_piga_add_sequence, piga_set_pol, WellFormed, TypeOK
<1>4. ASSUME NEW b \in BOOLEAN, piga_proc_status_write(b) \/ piga_proc_mode_write(b)
      PROVE  TypeOK'
  BY <1>4 DEF piga_proc_status_write, piga_proc_mode_write, TypeOK
<1>5. CASE UNCHANGED vars
  BY <1>5 DEF vars, TypeOK
<1>6. QED
  BY <1>1, <1>2, <1>3, <1>4, <1>5 DEF Next

(* The initial state is type-correct: empty tables, empty record.          *)
LEMMA TypeInit == Init => TypeOK
<1>1. Index(0) = {}
  BY DEF Index
<1>2. <<>> \in Seq(Call)
  OBVIOUS
<1>3. [i \in Index(0) |-> 0] \in [Index(0) -> Sequence]
  BY <1>1
<1>4. [i \in Index(0) |-> 0] \in [Index(0) -> Link]
  BY <1>1
<1>5. ASSUME Init
      PROVE  /\ status \in BOOLEAN /\ audit_only \in BOOLEAN
             /\ seq \in [Index(s_len) -> Sequence]
             /\ link \in [Index(l_len) -> Link]
  BY <1>3, <1>4, <1>5, Zenon DEF Init
<1>6. ASSUME Init
      PROVE  /\ s_len \in Nat /\ l_len \in Nat
             /\ retry \in [Tasks -> Vectors \cup {NoVector}]
  BY <1>6 DEF Init
<1>7. ASSUME Init
      PROVE  calls \in Seq(Call)
  BY <1>2, <1>7 DEF Init
<1>8. QED
  BY <1>5, <1>6, <1>7, Zenon DEF TypeOK

(* Type correctness of the monitor for every instance: the tables always   *)
(* have as many cells as s_len and l_len say, whatever is checked, loaded  *)
(* or switched.                                                            *)
THEOREM TypeCorrect == Spec => []TypeOK
<1>1. Init => TypeOK
  BY TypeInit
<1>2. TypeOK /\ [Next]_vars => TypeOK'
  BY TypeStep
<1>3. QED
  BY <1>1, <1>2, PTL DEF Spec

-----------------------------------------------------------------------------
(* What audit-only mode skips is no link of a loaded policy: the           *)
(* auditallow rules that the comment of piga_has_perm asks for.            *)
LEMMA SkippedWaitsNowhere ==
  ASSUME TablesInv, NEW v \in Vectors, NEW avd \in AvdOf[v],
         AuditOnlySkips(v, avd), NEW i \in Index(s_len)
  PROVE  ~WaitsFor(i, v)
<1>1. PICK p \in Policies : s_len = p.s_len /\ l_len = p.l_len /\ link = p.link
  BY DEF TablesInv, TypeOK, LoadedPolicy, Index
<1>2. TokenIndex(seq[i]) \in Index(l_len)
  BY SMTT(30) DEF TablesInv, TypeOK, TokenInSequence, TokenIndex, Index, Sequence
<1>3. SUFFICES ASSUME WaitsFor(i, v)
               PROVE  FALSE
  OBVIOUS
<1>4. PICK j \in Index(p.l_len) : Matches(p.link[j], v)
  BY <1>1, <1>2, <1>3 DEF WaitsFor
<1>5. /\ p.link[j].requested \subseteq avd.auditallow
      /\ v.requested \subseteq avd.auditdeny
  BY <1>4, AuditRulesAssumption
<1>6. p.link[j].requested \cap v.requested # {}
  BY <1>4 DEF Matches
<1>7. QED
  BY <1>5, <1>6 DEF AuditOnlySkips

(* A check of the AVC, as tokens and record see it: either it does not     *)
(* reach the enabled monitor, or it is recorded and the loop has its full  *)
(* effect, also when audit-only mode skips it.                             *)
LEMMA CheckOutcome ==
  ASSUME TablesInv, NEW t \in Tasks, NEW v \in Vectors, NEW avd \in AvdOf[v],
         NEW rcu \in BOOLEAN, NEW quiet \in BOOLEAN,
         avc_has_perm_flags(t, v, avd, rcu, quiet)
  PROVE  \/ UNCHANGED <<seq, calls>>
         \/ \E c \in Call : /\ c.vec = v
                            /\ calls' = Append(calls, c)
                            /\ seq' = LoopMoves(v)
                            /\ c.denied <=> LoopDenies(v)
<1> DEFINE consulted == ~SelinuxDenies(v, avd)
           examined  == consulted /\ status /\ ~AuditOnlySkips(v, avd)
           denied    == ~consulted \/ (examined /\ LoopDenies(v))
           echild    == rcu /\ Audited(v, avd, denied, quiet) # {}
           c         == [vec |-> v, denied |-> denied, retried |-> echild]
<1>1. CASE ~(consulted /\ status)
  BY <1>1 DEF avc_has_perm_flags
<1>2. CASE consulted /\ status
  <2>1. c \in Call /\ c.vec = v /\ (c.denied <=> denied)
    BY DEF Call
  <2>2. calls' = Append(calls, c)
    BY <1>2 DEF avc_has_perm_flags
  <2>3. CASE AuditOnlySkips(v, avd)
    <3>1. \A i \in Index(s_len) : ~WaitsFor(i, v)
      BY <2>3, SkippedWaitsNowhere
    <3>2. LoopMoves(v) = seq
      BY <3>1 DEF LoopMoves, TablesInv, TypeOK
    <3>3. ~LoopDenies(v)
      BY <3>1 DEF LoopDenies
    <3>4. seq' = seq
      BY <2>3 DEF avc_has_perm_flags
    <3>5. QED
      BY <1>2, <2>1, <2>2, <2>3, <3>2, <3>3, <3>4
  <2>4. CASE ~AuditOnlySkips(v, avd)
    <3>1. seq' = LoopMoves(v)
      BY <1>2, <2>4 DEF avc_has_perm_flags
    <3>2. QED
      BY <1>2, <2>1, <2>2, <2>4, <3>1
  <2>5. QED
    BY <2>3, <2>4
<1>3. QED
  BY <1>1, <1>2

(* A step is a check of the AVC, or loads a policy, or leaves tables and   *)
(* record alone.                                                           *)
LEMMA StepKinds ==
  ASSUME TypeOK, [Next]_vars
  PROVE  \/ \E t \in Tasks, v \in Vectors : \E avd \in AvdOf[v] :
              \E rcu, quiet \in BOOLEAN : avc_has_perm_flags(t, v, avd, rcu, quiet)
         \/ \E p \in Policies : sys_piga_add_sequence(p)
         \/ UNCHANGED <<seq, link, s_len, l_len, calls>>
<1>1. ASSUME NEW t \in Tasks, Retry(t)
      PROVE  \E v \in Vectors : \E avd \in AvdOf[v] :
               \E rcu, quiet \in BOOLEAN : avc_has_perm_flags(t, v, avd, rcu, quiet)
  <2>1. retry[t] \in Vectors
    BY <1>1 DEF Retry, TypeOK
  <2>2. QED
    BY <1>1, <2>1 DEF Retry
<1>2. QED
  BY <1>1 DEF Next, Access, piga_proc_status_write, piga_proc_mode_write, vars

(* A check keeps the tables those of the loaded policy and every token on  *)
(* its sequence: the loop asks piga_seq_end before piga_seq_next.          *)
LEMMA CheckTables ==
  ASSUME TablesInv, TypeOK', NEW t \in Tasks, NEW v \in Vectors,
         NEW avd \in AvdOf[v], NEW rcu \in BOOLEAN, NEW quiet \in BOOLEAN,
         avc_has_perm_flags(t, v, avd, rcu, quiet)
  PROVE  TablesInv'
<1>1. UNCHANGED <<link, s_len, l_len>> /\ seq' \in {seq, LoopMoves(v)}
  BY DEF avc_has_perm_flags
<1>2. \A i \in Index(s_len) :
        /\ seq'[i].length = seq[i].length
        /\ seq'[i].link_offset = seq[i].link_offset
        /\ \/ seq'[i].current_position = seq[i].current_position
           \/ /\ ~piga_seq_end(seq[i])
              /\ seq'[i].current_position = seq[i].current_position + 1
  BY <1>1, LoopShape DEF TablesInv
<1>3. LoadedPolicy'
  BY <1>1, <1>2 DEF TablesInv, LoadedPolicy
<1>4. TokenInSequence'
  <2>1. \A i \in Index(s_len) : seq[i] \in Sequence
    BY DEF TablesInv, TypeOK
  <2>2. QED
    BY <1>1, <1>2, <2>1 DEF TablesInv, TokenInSequence, piga_seq_end, Sequence
<1>5. QED
  BY <1>3, <1>4 DEF TablesInv

(* A policy that is loaded starts with its tokens on its first links.      *)
LEMMA LoadTables ==
  ASSUME NEW p \in Policies, sys_piga_add_sequence(p), TypeOK'
  PROVE  TablesInv'
<1>1. WellFormed(p)
  BY PolicyAssumption
<1>2. LoadedPolicy'
  BY DEF sys_piga_add_sequence, piga_set_pol, LoadedPolicy
<1>3. TokenInSequence'
  BY <1>1 DEF sys_piga_add_sequence, piga_set_pol, TokenInSequence, WellFormed, Sequence
<1>4. QED
  BY <1>2, <1>3 DEF TablesInv

LEMMA TablesStep ==
  ASSUME TablesInv, [Next]_vars
  PROVE  TablesInv'
<1>1. TypeOK'
  BY TypeStep DEF TablesInv
<1>2. CASE UNCHANGED <<seq, link, s_len, l_len, calls>>
  BY <1>1, <1>2 DEF TablesInv, LoadedPolicy, TokenInSequence
<1>3. QED
  BY <1>1, <1>2, StepKinds, CheckTables, LoadTables DEF TablesInv

LEMMA TablesInit == Init => TablesInv
<1>1. Index(0) = {}
  BY DEF Index
<1>2. QED
  BY <1>1, TypeInit DEF Init, TablesInv, LoadedPolicy, TokenInSequence

(* The getters of piga.c never leave the link table, nor the stretch of    *)
(* their own sequence, for every policy that is well formed.               *)
THEOREM TokensStayInSequence == Spec => []TokenInSequence
<1>1. Init => TablesInv
  BY TablesInit
<1>2. TablesInv /\ [Next]_vars => TablesInv'
  BY TablesStep
<1>3. TablesInv => TokenInSequence
  BY DEF TablesInv
<1>4. QED
  BY <1>1, <1>2, <1>3, PTL DEF Spec

(* No check makes a sequence forget progress or skip a link: tokens move   *)
(* forward by at most one until the next policy is loaded.                 *)
THEOREM TokensForward == Spec => TokensMoveForward
<1> DEFINE Forward ==
             \/ \E p \in Policies : sys_piga_add_sequence(p)
             \/ /\ s_len' = s_len
                /\ \A i \in Index(s_len) :
                     seq'[i].current_position \in
                       {seq[i].current_position, seq[i].current_position + 1}
<1>1. TypeOK /\ [Next]_vars => [Forward]_vars
  <2> SUFFICES ASSUME TypeOK, [Next]_vars
               PROVE  Forward
    OBVIOUS
  <2>1. ASSUME NEW t \in Tasks, NEW v \in Vectors, NEW avd \in AvdOf[v],
               NEW rcu \in BOOLEAN, NEW quiet \in BOOLEAN,
               avc_has_perm_flags(t, v, avd, rcu, quiet)
        PROVE  Forward
    <3>1. s_len' = s_len /\ seq' \in {seq, LoopMoves(v)}
      BY <2>1 DEF avc_has_perm_flags
    <3>2. QED
      BY <3>1, LoopShape
  <2>2. CASE UNCHANGED <<seq, link, s_len, l_len, calls>>
    BY <2>2
  <2>3. QED
    BY <2>1, <2>2, StepKinds
<1>2. QED
  BY <1>1, TypeCorrect, PTL DEF Spec, TokensMoveForward

-----------------------------------------------------------------------------
(* The record after one more check.                                        *)
LEMMA RecordStep ==
  ASSUME TypeOK, NEW c \in Call, calls' = Append(calls, c)
  PROVE  /\ Len(calls) \in Nat
         /\ Len(calls') = Len(calls) + 1
         /\ \A m \in 1 .. Len(calls) : calls'[m] = calls[m]
         /\ calls'[Len(calls) + 1] = c
BY DEF TypeOK

(* One recorded check keeps the bound: if it ends a longer embedding of a  *)
(* signature, then the sequence was waiting for it and its token moves.    *)
LEMMA BoundCheck ==
  ASSUME BoundInv, NEW v \in Vectors, NEW c \in Call, c.vec = v,
         calls' = Append(calls, c), seq' = LoopMoves(v),
         c.denied <=> LoopDenies(v), UNCHANGED <<link, s_len, l_len>>
  PROVE  ProgressBounded'
<1>0. TypeOK /\ TokenInSequence /\ ProgressBounded
  BY DEF BoundInv, TablesInv
<1>1. SUFFICES ASSUME NEW i \in Index(s_len), NEW k \in 0 .. seq[i].length,
                      NEW f \in Embeddings(i, k, Passed)'
               PROVE  k <= seq'[i].current_position
  <2>1. \A i \in Index(s_len) : seq'[i].length = seq[i].length
    BY <1>0, LoopShape
  <2>2. QED
    BY <2>1 DEF ProgressBounded
<1> DEFINE n == Len(calls) + 1
           s == seq[i]
<1>2. /\ s \in Sequence
      /\ seq'[i].link_offset = s.link_offset
      /\ seq'[i].current_position = IF WaitsFor(i, v) /\ ~piga_seq_end(s)
                                    THEN s.current_position + 1
                                    ELSE s.current_position
  BY <1>0, LoopShape DEF TypeOK
<1>3. /\ Len(calls) \in Nat /\ Len(calls') = n
      /\ \A m \in 1 .. Len(calls) : calls'[m] = calls[m]
      /\ calls'[n] = c
  BY <1>0, RecordStep
<1>4. /\ Passed' \subseteq Passed \cup {n}
      /\ n \in Passed' => ~c.denied
      /\ Passed \subseteq 1 .. Len(calls)
  BY <1>3 DEF Passed
<1>5. /\ f \in [Index(k) -> Passed \cup {n}]
      /\ \A a, b \in Index(k) : a < b => f[a] < f[b]
      /\ \A a \in Index(k) : Matches(link[s.link_offset + a], calls'[f[a]].vec)
  BY <1>2, <1>4 DEF Embeddings, EmbeddingsOf
<1>6. k \in Nat /\ s.current_position \in Nat /\ s.length \in Nat
  BY <1>2 DEF Sequence
<1>7. ASSUME NEW g, NEW m \in 0 .. k, g \in [Index(m) -> Passed],
             \A a \in Index(m) : g[a] = f[a]
      PROVE  m <= s.current_position
  <2>1. \A a \in Index(m) : a \in Index(k) /\ g[a] \in 1 .. Len(calls)
    <3>1. Index(m) \subseteq Index(k)
      BY <1>6, <1>7 DEF Index
    <3>2. \A a \in Index(m) : g[a] \in Passed
      BY <1>7
    <3>3. QED
      BY <1>4, <3>1, <3>2
  <2>2. g \in Embeddings(i, m, Passed)
    BY <1>3, <1>5, <1>7, <2>1 DEF Embeddings, EmbeddingsOf
  <2>3. QED
    BY <1>0, <1>6, <2>2 DEF ProgressBounded
<1>8. CASE k = 0
  BY <1>2, <1>6, <1>8
<1>9. CASE k > 0 /\ f[k - 1] # n
  <2>1. \A a \in Index(k) : f[a] # n
    BY <1>3, <1>4, <1>5, <1>6, <1>9 DEF Index
  <2>2. f \in [Index(k) -> Passed]
    BY <1>5, <2>1
  <2>3. QED
    BY <1>2, <1>6, <1>7, <2>2
<1>10. CASE k > 0 /\ f[k - 1] = n
  <2>1. k - 1 \in Index(k) /\ \A a \in Index(k - 1) : a \in Index(k) /\ f[a] # n
    BY <1>3, <1>4, <1>5, <1>6, <1>10 DEF Index
  <2>2. PICK g \in [Index(k - 1) -> Passed] : \A a \in Index(k - 1) : g[a] = f[a]
    <3>1. [a \in Index(k - 1) |-> f[a]] \in [Index(k - 1) -> Passed]
      BY <1>5, <2>1
    <3>2. QED
      BY <3>1
  <2>3. k - 1 <= s.current_position
    <3>1. k - 1 \in 0 .. k
      BY <1>6, <1>10
    <3>2. QED
      BY <1>7, <2>2, <3>1
  <2>4. n \in Passed' /\ Matches(link[s.link_offset + (k - 1)], v)
    BY <1>3, <1>5, <1>10, <2>1 DEF Embeddings, EmbeddingsOf
  <2>5. ~LoopDenies(v)
    BY <1>4, <2>4
  <2>6. CASE k - 1 = s.current_position
    <3>1. WaitsFor(i, v)
      BY <2>4, <2>6 DEF WaitsFor, TokenIndex
    <3>2. ~piga_seq_end(s)
      BY <2>5, <3>1 DEF LoopDenies
    <3>3. QED
      BY <1>2, <1>6, <2>6, <3>1, <3>2
  <2>7. CASE k - 1 < s.current_position
    BY <1>2, <1>6, <2>7
  <2>8. QED
    BY <1>6, <2>3, <2>6, <2>7
<1>11. QED
  BY <1>6, <1>8, <1>9, <1>10

LEMMA BoundStep ==
  ASSUME BoundInv, [Next]_vars
  PROVE  BoundInv'
<1>1. TablesInv' /\ TablesInv /\ TypeOK
  BY TablesStep DEF BoundInv, TablesInv
<1>2. ASSUME UNCHANGED <<seq, link, s_len, l_len, calls>>
      PROVE  ProgressBounded'
  BY <1>2 DEF BoundInv, ProgressBounded, Embeddings, EmbeddingsOf, Passed
<1>3. ASSUME NEW t \in Tasks, NEW v \in Vectors, NEW avd \in AvdOf[v],
             NEW rcu \in BOOLEAN, NEW quiet \in BOOLEAN,
             avc_has_perm_flags(t, v, avd, rcu, quiet)
      PROVE  ProgressBounded'
  <2>1. UNCHANGED <<link, s_len, l_len>>
    BY <1>3 DEF avc_has_perm_flags
  <2>2. QED
    BY <1>1, <1>2, <1>3, <2>1, CheckOutcome, BoundCheck DEF BoundInv
<1>4. ASSUME NEW p \in Policies, sys_piga_add_sequence(p)
      PROVE  ProgressBounded'
  <2>1. SUFFICES ASSUME NEW i \in Index(s_len'), NEW k \in 0 .. seq'[i].length,
                        NEW f \in Embeddings(i, k, Passed)'
                 PROVE  k <= seq'[i].current_position
    BY DEF ProgressBounded
  <2>2. Passed' = {}
    BY <1>4 DEF sys_piga_add_sequence, Passed
  <2>3. f \in [Index(k) -> {}]
    BY <2>2 DEF Embeddings, EmbeddingsOf
  <2>4. seq'[i] \in Sequence
    BY <1>1 DEF TablesInv, TypeOK
  <2>5. k = 0
    BY <2>3, <2>4 DEF Index, Sequence
  <2>6. QED
    BY <2>4, <2>5 DEF Sequence
<1>5. QED
  BY <1>1, <1>2, <1>3, <1>4, StepKinds DEF BoundInv

(* The guarantee of PIGA: for every policy, and in audit-only mode under   *)
(* the auditallow rules, the accesses that passed since the policy was     *)
(* loaded never contain a whole signature in order, as long as each check  *)
(* runs alone.                                                             *)
THEOREM SignaturesNeverComplete == Spec => []NoSignatureCompleted
<1>1. Init => BoundInv
  <2>1. Index(0) = {}
    BY DEF Index
  <2>2. QED
    BY <2>1, TablesInit DEF Init, BoundInv, ProgressBounded
<1>2. BoundInv /\ [Next]_vars => BoundInv'
  BY BoundStep
<1>3. BoundInv => NoSignatureCompleted
  <2>1. SUFFICES ASSUME BoundInv, NEW i \in Index(s_len),
                        Embeddings(i, seq[i].length, Passed) # {}
                 PROVE  FALSE
    BY DEF NoSignatureCompleted
  <2>2. seq[i] \in Sequence
    BY <2>1 DEF BoundInv, TablesInv, TypeOK
  <2>3. seq[i].length <= seq[i].current_position
    BY <2>1, <2>2 DEF BoundInv, ProgressBounded, Sequence
  <2>4. QED
    BY <2>1, <2>2, <2>3 DEF BoundInv, TablesInv, TokenInSequence, Sequence
<1>4. QED
  BY <1>1, <1>2, <1>3, PTL DEF Spec

-----------------------------------------------------------------------------
(* One recorded check keeps what was earned: a token that moves, and a     *)
(* refusal, extend the embedding that brought the token to its link.       *)
LEMMA EarnedCheck ==
  ASSUME EarnedInv, NEW v \in Vectors, NEW c \in Call, c.vec = v,
         calls' = Append(calls, c), seq' = LoopMoves(v),
         c.denied <=> LoopDenies(v), UNCHANGED <<link, s_len, l_len>>
  PROVE  ProgressEarned' /\ DenialJustified'
<1>0. TypeOK /\ TokenInSequence /\ ProgressEarned /\ DenialJustified
  BY DEF EarnedInv, TablesInv
<1>1. PICK n \in Nat :
      /\ Len(calls) \in Nat /\ n = Len(calls) + 1 /\ Len(calls') = n
      /\ \A m \in 1 .. Len(calls) : calls'[m] = calls[m]
      /\ calls'[n] = c
  BY <1>0, RecordStep
<1>2. \A i \in Index(s_len) :
        /\ seq[i] \in Sequence
        /\ seq'[i].length = seq[i].length
        /\ seq'[i].link_offset = seq[i].link_offset
        /\ seq'[i].current_position = IF WaitsFor(i, v) /\ ~piga_seq_end(seq[i])
                                      THEN seq[i].current_position + 1
                                      ELSE seq[i].current_position
  BY <1>0, LoopShape DEF TypeOK
<1>3. ASSUME NEW i \in Index(s_len), NEW k \in Nat, NEW m \in Nat, NEW r \in Nat,
             m <= Len(calls), m <= r, NEW f \in Embeddings(i, k, Made(m))
      PROVE  f \in Embeddings(i, k, Made(r))'
  <2>1. /\ f \in [Index(k) -> 1 .. m]
        /\ \A a, b \in Index(k) : a < b => f[a] < f[b]
        /\ \A a \in Index(k) : Matches(link[seq[i].link_offset + a], calls[f[a]].vec)
    BY DEF Embeddings, EmbeddingsOf, Made
  <2>2. \A a \in Index(k) : f[a] \in 1 .. Len(calls) /\ f[a] \in 1 .. r
    BY <1>1, <1>3, <2>1
  <2>3. \A a \in Index(k) : Matches(link[seq[i].link_offset + a], calls'[f[a]].vec)
    BY <1>1, <2>1, <2>2
  <2>4. f \in [Index(k) -> 1 .. r]
    BY <2>1, <2>2
  <2>5. QED
    BY <1>2, <2>1, <2>3, <2>4 DEF Embeddings, EmbeddingsOf, Made
<1>4. ASSUME NEW i \in Index(s_len), WaitsFor(i, v)
      PROVE  \E k \in Nat : /\ k = seq[i].current_position
                            /\ \E h \in Embeddings(i, k + 1, Made(n))' : h[k] = n
  <2>1. PICK k \in Nat : k = seq[i].current_position
    BY <1>2 DEF Sequence
  <2>2. PICK g : g \in Embeddings(i, k, Made(Len(calls)))
    BY <1>0, <2>1 DEF ProgressEarned
  <2>3. /\ g \in [Index(k) -> 1 .. Len(calls)]
        /\ \A a, b \in Index(k) : a < b => g[a] < g[b]
        /\ \A a \in Index(k) : Matches(link[seq[i].link_offset + a], calls[g[a]].vec)
    BY <2>2 DEF Embeddings, EmbeddingsOf, Made
  <2>4. \A a \in Index(k) : Matches(link[seq[i].link_offset + a], calls'[g[a]].vec)
    BY <1>1, <2>3
  <2> DEFINE h == [a \in Index(k + 1) |-> IF a = k THEN n ELSE g[a]]
  <2>5. Index(k + 1) = Index(k) \cup {k} /\ k \notin Index(k)
    BY <2>1 DEF Index
  <2>6. /\ h[k] = n
        /\ \A a \in Index(k) : h[a] = g[a] /\ g[a] \in 1 .. Len(calls)
    BY <2>3, <2>5
  <2>7. h \in [Index(k + 1) -> 1 .. n]
    <3>1. \A a \in Index(k + 1) : h[a] \in 1 .. n
      <4>1. n \in 1 .. n /\ 1 .. Len(calls) \subseteq 1 .. n
        BY <1>1
      <4>2. QED
        BY <2>5, <2>6, <4>1
    <3>2. QED
      BY <3>1
  <2>8. \A a, b \in Index(k + 1) : a < b => h[a] < h[b]
    <3>1. ASSUME NEW a \in Index(k + 1), NEW b \in Index(k + 1), a < b
          PROVE  h[a] < h[b]
      <4>1. a \in Index(k)
        BY <2>1, <3>1 DEF Index
      <4>2. QED
        BY <1>1, <2>3, <2>5, <2>6, <3>1, <4>1
    <3>2. QED
      BY <3>1
  <2>9. Matches(link[seq[i].link_offset + k], calls'[n].vec)
    BY <1>1, <1>4, <2>1 DEF WaitsFor, TokenIndex
  <2>10. \A a \in Index(k + 1) : Matches(link[seq[i].link_offset + a], calls'[h[a]].vec)
    BY <2>4, <2>5, <2>6, <2>9
  <2>11. h \in Embeddings(i, k + 1, Made(n))'
    BY <1>2, <2>7, <2>8, <2>10 DEF Embeddings, EmbeddingsOf, Made
  <2>12. QED
    BY <2>1, <2>6, <2>11
<1>5. ProgressEarned'
  <2>1. SUFFICES ASSUME NEW i \in Index(s_len)
                 PROVE  \E k \in Nat : /\ k = seq'[i].current_position
                                       /\ Embeddings(i, k, Made(n))' # {}
    BY <1>1 DEF ProgressEarned, Embeddings
  <2>2. CASE WaitsFor(i, v) /\ ~piga_seq_end(seq[i])
    <3>1. PICK k \in Nat : /\ k = seq[i].current_position
                           /\ Embeddings(i, k + 1, Made(n))' # {}
      BY <1>4, <2>2
    <3>2. QED
      BY <1>2, <2>2, <3>1
  <2>3. CASE ~(WaitsFor(i, v) /\ ~piga_seq_end(seq[i]))
    <3>1. PICK k \in Nat : k = seq[i].current_position
      BY <1>2 DEF Sequence
    <3>2. PICK g : g \in Embeddings(i, k, Made(Len(calls)))
      BY <1>0, <3>1 DEF ProgressEarned
    <3>3. PICK m \in Nat : m = Len(calls)
      BY <1>1
    <3>4. g \in Embeddings(i, k, Made(n))'
      <4>1. m <= Len(calls) /\ m <= n /\ g \in Embeddings(i, k, Made(m))
        BY <1>1, <3>2, <3>3
      <4>2. QED
        BY <1>3, <4>1
    <3>5. QED
      BY <1>2, <2>3, <3>1, <3>4
  <2>4. QED
    BY <2>2, <2>3
<1>6. DenialJustified'
  <2>1. SUFFICES ASSUME NEW m \in 1 .. n, calls'[m].denied
                 PROVE  \E i \in Index(s_len) : \E k \in Nat :
                          /\ k = seq[i].length
                          /\ \E f \in Embeddings(i, k, Made(m))' : f[k - 1] = m
    BY <1>1, <1>2 DEF DenialJustified, Embeddings
  <2>2. CASE m \in 1 .. Len(calls)
    <3>1. PICK i \in Index(s_len) :
            \E f \in Embeddings(i, seq[i].length, Made(m)) : f[seq[i].length - 1] = m
      BY <1>0, <1>1, <2>1, <2>2 DEF DenialJustified
    <3>2. PICK k \in Nat : k = seq[i].length
      BY <1>2 DEF Sequence
    <3>3. QED
      BY <1>1, <1>3, <2>2, <3>1, <3>2
  <2>3. CASE m = n
    <3>1. PICK i \in Index(s_len) : WaitsFor(i, v) /\ piga_seq_end(seq[i])
      BY <1>1, <2>1, <2>3 DEF LoopDenies
    <3>2. PICK k \in Nat : /\ k = seq[i].current_position
                           /\ \E h \in Embeddings(i, k + 1, Made(n))' : h[k] = n
      BY <1>4, <3>1
    <3>3. k + 1 = seq[i].length /\ (k + 1) - 1 = k
      BY <3>1, <3>2 DEF piga_seq_end
    <3>4. QED
      BY <2>3, <3>2, <3>3
  <2>4. QED
    BY <1>1, <2>2, <2>3
<1>7. QED
  BY <1>5, <1>6

LEMMA EarnedStep ==
  ASSUME EarnedInv, [Next]_vars
  PROVE  EarnedInv'
<1>1. TablesInv' /\ TablesInv /\ TypeOK
  BY TablesStep DEF EarnedInv, TablesInv
<1>2. ASSUME UNCHANGED <<seq, link, s_len, l_len, calls>>
      PROVE  ProgressEarned' /\ DenialJustified'
  BY <1>2 DEF EarnedInv, ProgressEarned, DenialJustified, Embeddings
<1>3. ASSUME NEW t \in Tasks, NEW v \in Vectors, NEW avd \in AvdOf[v],
             NEW rcu \in BOOLEAN, NEW quiet \in BOOLEAN,
             avc_has_perm_flags(t, v, avd, rcu, quiet)
      PROVE  ProgressEarned' /\ DenialJustified'
  <2>1. UNCHANGED <<link, s_len, l_len>>
    BY <1>3 DEF avc_has_perm_flags
  <2>2. QED
    BY <1>1, <1>2, <1>3, <2>1, CheckOutcome, EarnedCheck DEF EarnedInv
<1>4. ASSUME NEW p \in Policies, sys_piga_add_sequence(p)
      PROVE  ProgressEarned' /\ DenialJustified'
  <2>1. WellFormed(p)
    BY PolicyAssumption
  <2>2. seq' = p.seq /\ s_len' = p.s_len /\ calls' = <<>>
    BY <1>4 DEF sys_piga_add_sequence, piga_set_pol
  <2>3. \A i \in Index(s_len') : seq'[i].current_position = 0
    BY <2>1, <2>2 DEF WellFormed
  <2>4. \A i : <<>> \in Embeddings(i, 0, Made(Len(calls)))'
    BY DEF Embeddings, EmbeddingsOf, Index
  <2>5. ProgressEarned'
    BY <2>3, <2>4 DEF ProgressEarned
  <2>6. DenialJustified'
    BY <2>2 DEF DenialJustified
  <2>7. QED
    BY <2>5, <2>6
<1>5. QED
  BY <1>1, <1>2, <1>3, <1>4, StepKinds DEF EarnedInv

(* PIGA refuses nothing of its own: every refusal ends a signature whose   *)
(* earlier links were all checked before it, in order, under this policy.  *)
THEOREM DenialsAreJustified == Spec => []DenialJustified
<1>1. Init => EarnedInv
  <2>1. Index(0) = {}
    BY DEF Index
  <2>2. QED
    BY <2>1, TablesInit DEF Init, EarnedInv, ProgressEarned, DenialJustified
<1>2. EarnedInv /\ [Next]_vars => EarnedInv'
  BY EarnedStep
<1>3. EarnedInv => DenialJustified
  BY DEF EarnedInv
<1>4. QED
  BY <1>1, <1>2, <1>3, PTL DEF Spec
=============================================================================
