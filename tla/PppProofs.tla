----------------------------- MODULE PppProofs ------------------------------
(***************************************************************************)
(* The parser's tables for every policy text, every answer of SELinux and  *)
(* every size of the tables.                                               *)
(***************************************************************************)
EXTENDS Ppp, FiniteSetTheorems, TLAPS

Phases == Parsing \cup {"start", "parsed", "loaded", "failed", "overrun"}

TypeInv ==
  /\ expect \in Phases
  /\ s \in [Index(MaxSeq) -> Sequence]
  /\ l \in [Index(MaxLink) -> Link]
  /\ curr_seq \in Nat
  /\ curr_link \in Nat
  /\ request \subseteq Words
  /\ request_list \subseteq Words
  /\ DOMAIN sid_map \subseteq Contexts
  /\ \A x \in DOMAIN sid_map : sid_map[x] \in Answers[x]

(* The layout of the tables: the finished sequences are not empty and lie  *)
(* before the one being read, which ends at curr_link.                     *)
Layout ==
  /\ curr_seq \in Index(MaxSeq)
  /\ \A i \in Index(MaxSeq) : s[i].current_position = 0
  /\ \A i \in Index(curr_seq) :
       /\ s[i].length > 0
       /\ s[i].link_offset + s[i].length <= s[curr_seq].link_offset
  /\ \A i \in Index(MaxSeq) : i > curr_seq => s[i].length = 0
  /\ s[curr_seq].link_offset + s[curr_seq].length = curr_link
  /\ expect = "signature" => s[curr_seq].length > 0
  /\ expect \in {"line", "parsed"} => curr_seq > 0

LayoutInv ==
  /\ TypeInv
  /\ expect # "overrun" => Layout
  /\ HandedWellFormed

-----------------------------------------------------------------------------
(* string_to_sid returns what its cache then holds, or BadSid; the cache   *)
(* holds answers, and keeps what it held.                                  *)
LEMMA SidAnswer ==
  ASSUME NEW x \in Contexts, NEW map, NEW ans \in Answers[x] \cup {BadSid},
         DOMAIN map \subseteq Contexts, \A z \in DOMAIN map : map[z] \in Answers[z],
         NEW r, r = string_to_sid(x, map, ans)
  PROVE  /\ r.res \in Nat
         /\ r.res = BadSid \/ (x \in DOMAIN r.map /\ r.res = r.map[x])
         /\ DOMAIN r.map \subseteq Contexts
         /\ \A z \in DOMAIN r.map : r.map[z] \in Answers[z]
         /\ \A z \in DOMAIN map : z \in DOMAIN r.map /\ r.map[z] = map[z]
<1>1. BadSid \in Nat /\ \A z \in Contexts : Answers[z] \subseteq Nat
  BY SidAssumption
<1>2. CASE x \in DOMAIN map
  BY <1>1, <1>2 DEF string_to_sid
<1>3. CASE x \notin DOMAIN map /\ ans = BadSid
  BY <1>1, <1>3 DEF string_to_sid
<1>4. CASE x \notin DOMAIN map /\ ans # BadSid
  BY <1>1, <1>4 DEF string_to_sid
<1>5. QED
  BY <1>2, <1>3, <1>4

(* The reductions keep the types.                                          *)
LEMMA TypeStep ==
  ASSUME TypeInv, expect # "overrun" => curr_seq \in Index(MaxSeq), [Next]_vars
  PROVE  TypeInv'
<1>1. ASSUME NEW c \in Classes, ReadVector(c)
      PROVE  TypeInv'
  <2>1. TclassOf[c] \in Nat /\ Requested(c) \in SUBSET Perms
    <3>1. \A w \in Words : AvPerm[c][w] \in SUBSET Perms
      BY ClassAssumption
    <3>2. QED
      BY <3>1, ClassAssumption DEF Requested, TypeInv
  <2>2. QED
    BY <1>1, <2>1 DEF ReadVector, TypeInv, Phases, Parsing, Link
<1>2. ASSUME NEW x \in Contexts, NEW y \in Contexts,
             NEW ansx \in Answers[x] \cup {BadSid}, NEW ansy \in Answers[y] \cup {BadSid},
             Transition(x, y, ansx, ansy)
      PROVE  TypeInv'
  <2> DEFINE cs == string_to_sid(x, sid_map, ansx)
             cc == string_to_sid(y, cs.map, ansy)
  <2>1. /\ cs.res \in Nat /\ DOMAIN cs.map \subseteq Contexts
        /\ \A z \in DOMAIN cs.map : cs.map[z] \in Answers[z]
    BY SidAnswer DEF TypeInv
  <2>2. /\ cc.res \in Nat /\ DOMAIN cc.map \subseteq Contexts
        /\ \A z \in DOMAIN cc.map : cc.map[z] \in Answers[z]
    BY <2>1, SidAnswer
  <2> HIDE DEF cs, cc
  <2>3. /\ expect' = "signature" /\ curr_link' = curr_link + 1
        /\ l' = [l EXCEPT ![curr_link].cs = cs.res, ![curr_link].cc = cc.res]
        /\ s' = [s EXCEPT ![curr_seq].length = @ + 1]
        /\ sid_map' = cc.map
        /\ UNCHANGED <<curr_seq, request, request_list>>
    BY <1>2 DEF Transition, cs, cc
  <2>4. l' \in [Index(MaxLink) -> Link]
    BY <2>1, <2>2, <2>3, ZenonT(60) DEF TypeInv, Link
  <2>5. s' \in [Index(MaxSeq) -> Sequence]
    <3>1. curr_seq \in Index(MaxSeq)
      BY <1>2 DEF Transition
    <3>2. QED
      BY <2>3, <3>1 DEF TypeInv, Sequence
  <2>6. QED
    BY <2>2, <2>3, <2>4, <2>5 DEF TypeInv, Phases, Parsing
<1>3. CASE Line
  <2>1. s' = s \/ s' = [s EXCEPT ![curr_seq + 1].link_offset = NextOffset]
    BY <1>3 DEF Line
  <2>2. NextOffset \in Nat
    <3>1. curr_seq \in Index(MaxSeq)
      BY <1>3 DEF Line
    <3>2. s[curr_seq] \in Sequence /\ curr_link \in Nat
      BY <3>1 DEF TypeInv
    <3>3. QED
      BY <3>2 DEF NextOffset, Sequence
  <2>3. s' \in [Index(MaxSeq) -> Sequence]
    BY <2>1, <2>2 DEF TypeInv, Sequence
  <2>4. QED
    BY <1>3, <2>2, <2>3 DEF Line, TypeInv, Phases, Parsing
<1>4. CASE Allocate \/ EndOfFile \/ SyntaxError \/ set_sequence
  BY <1>4 DEF Allocate, EndOfFile, SyntaxError, set_sequence, TypeInv, Phases, Parsing
<1>5. ASSUME NEW w \in Words, Request(w) \/ RequestMore(w)
      PROVE  TypeInv'
  BY <1>5 DEF Request, RequestMore, TypeInv, Phases, Parsing
<1>6. CASE UNCHANGED vars
  BY <1>6 DEF vars, TypeInv
<1>7. QED
  BY <1>1, <1>2, <1>3, <1>4, <1>5, <1>6 DEF Next

-----------------------------------------------------------------------------
(* A reduction that finishes a line leaves it in place before the next.    *)
LEMMA LineLayout ==
  ASSUME TypeInv, Layout, Line, expect' # "overrun"
  PROVE  Layout'
<1>1. /\ curr_seq \in Nat /\ curr_seq + 1 \in Index(MaxSeq)
      /\ expect' = "line" /\ curr_seq' = curr_seq + 1
      /\ s' = [s EXCEPT ![curr_seq + 1].link_offset = NextOffset]
      /\ curr_link' = NextOffset /\ s[curr_seq].length > 0
  BY SizeAssumption DEF Line, Layout, Index, TypeInv
<1>2. \A i \in Index(MaxSeq) : s[i] \in Sequence
  BY DEF TypeInv
<1>3. NextOffset = s[curr_seq].link_offset + s[curr_seq].length + s[curr_seq].length
  BY DEF Layout, NextOffset
<1>4. /\ \A i \in Index(MaxSeq) : /\ s'[i].length = s[i].length
                                  /\ s'[i].current_position = s[i].current_position
      /\ \A i \in Index(MaxSeq) : i # curr_seq + 1 => s'[i] = s[i]
      /\ s'[curr_seq + 1].link_offset = NextOffset
  BY <1>1, <1>2 DEF TypeInv, Sequence
<1>5. curr_seq \in Index(MaxSeq) /\ s[curr_seq] \in Sequence
  BY <1>2 DEF Layout
<1>6. ASSUME NEW i \in Index(curr_seq + 1)
      PROVE  /\ s'[i].length > 0
             /\ s'[i].link_offset + s'[i].length <= NextOffset
  <2>1. i \in Index(MaxSeq) /\ i # curr_seq + 1 /\ s[i] \in Sequence
    BY <1>1, <1>2, <1>6, SizeAssumption DEF Index
  <2>2. CASE i = curr_seq
    BY <1>1, <1>3, <1>4, <1>5, <2>1, <2>2 DEF Sequence
  <2>3. CASE i \in Index(curr_seq)
    BY <1>3, <1>4, <1>5, <2>1, <2>3 DEF Layout, Sequence
  <2>4. QED
    BY <1>1, <2>2, <2>3 DEF Index
<1>7. s'[curr_seq + 1].length = 0
  BY <1>1, <1>4 DEF Layout
<1>8. NextOffset \in Nat
  BY <1>3, <1>5 DEF Sequence
<1>9. \A i \in Index(MaxSeq) : i > curr_seq + 1 => s'[i].length = 0
  BY <1>1, <1>4 DEF Layout, Index
<1>10. QED
  BY <1>1, <1>4, <1>6, <1>7, <1>8, <1>9 DEF Layout

(* A transition makes the sequence being read one link longer.             *)
LEMMA TransitionLayout ==
  ASSUME TypeInv, Layout, NEW x, NEW y, NEW ansx, NEW ansy,
         Transition(x, y, ansx, ansy)
  PROVE  Layout'
<1>1. /\ expect' = "signature" /\ curr_seq' = curr_seq /\ curr_link' = curr_link + 1
      /\ s' = [s EXCEPT ![curr_seq].length = @ + 1]
  BY DEF Transition
<1>2. curr_seq \in Index(MaxSeq) /\ s[curr_seq] \in Sequence /\ curr_seq \in Nat
  BY DEF Layout, TypeInv
<1>3. /\ \A i \in Index(MaxSeq) :
           /\ s'[i].link_offset = s[i].link_offset
           /\ s'[i].current_position = s[i].current_position
           /\ i # curr_seq => s'[i] = s[i]
      /\ s'[curr_seq].length = s[curr_seq].length + 1
  BY <1>1, <1>2 DEF TypeInv, Sequence
<1>4. \A i \in Index(curr_seq) : i \in Index(MaxSeq) /\ i # curr_seq
  BY <1>2, SizeAssumption DEF Index
<1>5. s[curr_seq].length \in Nat /\ s[curr_seq].link_offset \in Nat
  BY <1>2 DEF Sequence
<1>6. s'[curr_seq].link_offset + s'[curr_seq].length = curr_link'
  BY <1>1, <1>2, <1>3, <1>5 DEF Layout
<1>7. \A i \in Index(MaxSeq) : i > curr_seq => i # curr_seq
  BY <1>2 DEF Index
<1>8. QED
  BY <1>1, <1>2, <1>3, <1>4, <1>5, <1>6, <1>7 DEF Layout

(* The policy handed to the kernel inherits the layout.                    *)
LEMMA PolicyWellFormed ==
  ASSUME TypeInv, Layout, expect = "parsed"
  PROVE  WellFormed(Policy)
<1>1. /\ curr_seq \in Nat \ {0} /\ curr_seq \in Index(MaxSeq)
      /\ Index(curr_seq) \subseteq Index(MaxSeq)
  BY SizeAssumption DEF Layout, TypeInv, Index
<1>2. \A i \in Index(MaxSeq) : s[i] \in Sequence
  BY DEF TypeInv
<1>3. ASSUME NEW i \in Index(curr_seq)
      PROVE  /\ s[i].length > 0 /\ s[i].current_position = 0
             /\ s[i].link_offset + s[i].length <= curr_link
  BY <1>1, <1>2, <1>3 DEF Layout, Sequence
<1>4. curr_link \in Nat \ {0}
  <2>1. 0 \in Index(curr_seq)
    BY <1>1 DEF Index
  <2>2. QED
    BY <1>1, <1>2, <1>3, <2>1 DEF TypeInv, Sequence
<1>5. Policy.seq \in [Index(curr_seq) -> Sequence]
  BY <1>1, <1>2 DEF Policy
<1>6. Policy.link \in [Index(curr_link) -> Link]
  <2>1. \A j \in Index(curr_link) : j < MaxLink => j \in Index(MaxLink)
    BY <1>4, SizeAssumption DEF Index
  <2>2. QED
    BY <2>1, AfterAssumption DEF Policy, TypeInv
<1>7. /\ Policy.s_len = curr_seq /\ Policy.l_len = curr_link
      /\ \A i \in Index(curr_seq) : Policy.seq[i] = s[i]
  BY DEF Policy
<1>8. QED
  BY <1>1, <1>3, <1>4, <1>5, <1>6, <1>7 DEF WellFormed

LEMMA LayoutInit == Init => LayoutInv
<1>1. SUFFICES ASSUME Init
               PROVE  LayoutInv
  OBVIOUS
<1>2. 0 \in Index(MaxSeq) /\ Index(0) = {}
  BY SizeAssumption DEF Index
<1>3. \A i \in Index(MaxSeq) : s[i] = ZeroSequence
  BY <1>1 DEF Init
<1>4. TypeInv
  <2>1. ZeroSequence \in Sequence /\ ZeroLink \in Link
    BY DEF ZeroSequence, ZeroLink, Sequence, Link
  <2>2. s \in [Index(MaxSeq) -> Sequence] /\ l \in [Index(MaxLink) -> Link]
    BY <1>1, <2>1 DEF Init
  <2>3. QED
    BY <1>1, <2>2 DEF Init, TypeInv, Phases
<1>5. Layout
  BY <1>1, <1>2, <1>3 DEF Init, Layout, ZeroSequence
<1>6. QED
  BY <1>1, <1>4, <1>5 DEF Init, LayoutInv, HandedWellFormed

LEMMA LayoutStep ==
  ASSUME LayoutInv, [Next]_vars
  PROVE  LayoutInv'
<1>1. TypeInv /\ (expect # "overrun" => Layout) /\ HandedWellFormed
  BY DEF LayoutInv
<1>2. TypeInv'
  BY <1>1, TypeStep DEF Layout
<1>3. ASSUME NEW w \in Words, Request(w) \/ RequestMore(w)
      PROVE  Layout' /\ HandedWellFormed'
  BY <1>1, <1>3 DEF Request, RequestMore, Layout, HandedWellFormed
<1>4. ASSUME NEW c \in Classes, ReadVector(c)
      PROVE  Layout' /\ HandedWellFormed'
  BY <1>1, <1>4 DEF ReadVector, Layout, HandedWellFormed
<1>5. ASSUME NEW x \in Contexts, NEW y \in Contexts,
             NEW ansx \in Answers[x] \cup {BadSid}, NEW ansy \in Answers[y] \cup {BadSid},
             Transition(x, y, ansx, ansy)
      PROVE  Layout' /\ HandedWellFormed'
  <2>1. expect # "overrun" /\ handed' = handed
    BY <1>5 DEF Transition
  <2>2. QED
    BY <1>1, <1>5, <2>1, TransitionLayout DEF HandedWellFormed
<1>6. ASSUME Line
      PROVE  (expect' # "overrun" => Layout') /\ HandedWellFormed'
  <2>1. expect # "overrun" /\ handed' = handed
    BY <1>6 DEF Line
  <2>2. QED
    BY <1>1, <1>6, <2>1, LineLayout DEF HandedWellFormed
<1>7. ASSUME Allocate \/ EndOfFile \/ SyntaxError
      PROVE  Layout' /\ HandedWellFormed'
  <2>1. expect # "overrun" /\ UNCHANGED <<s, curr_seq, curr_link, handed>>
    BY <1>7 DEF Allocate, EndOfFile, SyntaxError, Parsing
  <2>2. /\ expect' \in {"transition", "failed", "parsed"}
        /\ expect' = "parsed" => expect = "line"
    BY <1>7 DEF Allocate, EndOfFile, SyntaxError
  <2>3. QED
    BY <1>1, <2>1, <2>2 DEF Layout, HandedWellFormed
<1>8. ASSUME set_sequence
      PROVE  Layout' /\ HandedWellFormed'
  <2>1. /\ expect = "parsed" /\ expect' \in {"loaded", "failed"}
        /\ UNCHANGED <<s, curr_seq, curr_link>>
        /\ handed' \subseteq handed \cup {Policy}
    BY <1>8 DEF set_sequence
  <2>2. WellFormed(Policy)
    BY <1>1, <2>1, PolicyWellFormed
  <2>3. QED
    BY <1>1, <2>1, <2>2 DEF Layout, HandedWellFormed
<1>9. CASE UNCHANGED vars
  BY <1>1, <1>2, <1>9 DEF vars, LayoutInv, Layout, HandedWellFormed
<1>10. QED
  BY <1>2, <1>3, <1>4, <1>5, <1>6, <1>7, <1>8, <1>9 DEF Next, LayoutInv

(* The kernel may rely on the parser: for every text and every size of the *)
(* tables, what set_sequence hands to sys_piga_add_sequence satisfies the  *)
(* assumption under which the theorems of PigaProofs hold.                 *)
THEOREM ParserDeliversWellFormed == Spec => []HandedWellFormed
<1>1. Init => LayoutInv
  BY LayoutInit
<1>2. LayoutInv /\ [Next]_vars => LayoutInv'
  BY LayoutStep
<1>3. LayoutInv => HandedWellFormed
  BY DEF LayoutInv
<1>4. QED
  BY <1>1, <1>2, <1>3, PTL DEF Spec

-----------------------------------------------------------------------------
(* What is being read: the first word of the vector is in request_list,    *)
(* with no other, and a vector that is complete is in the cell at          *)
(* curr_link.                                                              *)
CellMirrorsItem ==
  /\ expect = "vector" =>
       request_list = request /\ item.class = {} /\ item.first = request
  /\ expect \in {"start", "transition", "signature", "line"} =>
       request_list = {} /\ item = NoItem
  /\ expect = "target" =>
       /\ request_list = {}
       /\ curr_link \in Index(MaxLink)
       /\ \E c \in Classes :
            /\ item.class = {c}
            /\ l[curr_link].tclass = TclassOf[c]
            /\ l[curr_link].requested = UNION {AvPerm[c][w] : w \in item.first}

(* The finished signatures and the one being read, in their stretches, all *)
(* of them below the cell at curr_link.                                    *)
Stretch(i, sig) ==
  /\ Len(sig) = s[i].length
  /\ \A a \in 1 .. Len(sig) :
       /\ s[i].link_offset + a - 1 \in Index(MaxLink)
       /\ Translates(l[s[i].link_offset + a - 1], sig[a], sid_map)

Step == [from : Contexts, to : Contexts, class : SUBSET Classes,
         first : SUBSET Words, words : SUBSET Words]

HistoryType ==
  /\ item \in [class : SUBSET Classes, first : SUBSET Words, words : SUBSET Words]
  /\ line \in Seq(Step)
  /\ text \in Seq(Seq(Step))

(* The part of the invariant that speaks of a state that has not overrun.  *)
Mirror ==
  /\ CellMirrorsItem
  /\ Len(text) = curr_seq
  /\ \A n \in 1 .. Len(text) : Stretch(n - 1, text[n])
  /\ Stretch(curr_seq, line)

MirrorInv ==
  /\ LayoutInv
  /\ HistoryType
  /\ expect # "overrun" => Mirror

(* A link stays right when the cache grows.                                *)
Grown(map, new) == \A z \in DOMAIN map : z \in DOMAIN new /\ new[z] = map[z]

LEMMA TranslatesGrown ==
  ASSUME NEW map, NEW new, Grown(map, new), NEW lk, NEW tr, Translates(lk, tr, map)
  PROVE  Translates(lk, tr, new)
  BY DEF Grown, Translates, Resolved

(* A stretch below curr_link is not disturbed by a write to that cell.     *)
LEMMA StretchKept ==
  ASSUME NEW i, NEW sig, Stretch(i, sig), Len(sig) \in Nat, curr_link \in Nat,
         s[i].link_offset \in Nat, s[i].link_offset + s[i].length <= curr_link,
         s'[i].length = s[i].length, s'[i].link_offset = s[i].link_offset,
         \A j \in Index(MaxLink) : j # curr_link => l'[j] = l[j],
         Grown(sid_map, sid_map')
  PROVE  Stretch(i, sig)'
<1>1. \A a \in 1 .. Len(sig) : s[i].link_offset + a - 1 # curr_link
  BY DEF Stretch
<1>2. QED
  BY <1>1, TranslatesGrown, ZenonT(60) DEF Stretch

(* All stretches of a state with the parser's layout are below curr_link.  *)
LEMMA StretchBelow ==
  ASSUME TypeInv, Layout, NEW i \in 0 .. curr_seq
  PROVE  /\ s[i].link_offset \in Nat /\ s[i].length \in Nat
         /\ s[i].link_offset + s[i].length <= curr_link
         /\ i \in Index(MaxSeq)
<1>1. i \in Index(MaxSeq) /\ curr_seq \in Index(MaxSeq)
  BY SizeAssumption DEF Layout, TypeInv, Index
<1>2. s[i] \in Sequence /\ s[curr_seq] \in Sequence
  BY <1>1 DEF TypeInv
<1>3. i = curr_seq \/ i \in Index(curr_seq)
  BY DEF TypeInv, Index
<1>4. QED
  BY <1>1, <1>2, <1>3 DEF Layout, Sequence

LEMMA HistoryStep ==
  ASSUME HistoryType, [Next]_vars
  PROVE  HistoryType'
<1>1. NoItem \in [class : SUBSET Classes, first : SUBSET Words, words : SUBSET Words]
  BY DEF NoItem
<1>2. ASSUME NEW w \in Words, Request(w) \/ RequestMore(w)
      PROVE  HistoryType'
  BY <1>2 DEF Request, RequestMore, HistoryType
<1>3. ASSUME NEW c \in Classes, ReadVector(c)
      PROVE  HistoryType'
  BY <1>3 DEF ReadVector, HistoryType
<1>4. ASSUME NEW x \in Contexts, NEW y \in Contexts,
             NEW ansx \in Answers[x] \cup {BadSid}, NEW ansy \in Answers[y] \cup {BadSid},
             Transition(x, y, ansx, ansy)
      PROVE  HistoryType'
  <2>1. [from |-> x, to |-> y, class |-> item.class,
                 first |-> item.first, words |-> item.words] \in Step
    BY DEF HistoryType, Step
  <2>2. QED
    BY <1>1, <1>4, <2>1 DEF Transition, HistoryType
<1>5. CASE Line
  BY <1>5 DEF Line, HistoryType
<1>6. CASE Allocate \/ EndOfFile \/ SyntaxError \/ set_sequence \/ UNCHANGED vars
  BY <1>6 DEF Allocate, EndOfFile, SyntaxError, set_sequence, vars, HistoryType
<1>7. QED
  BY <1>2, <1>3, <1>4, <1>5, <1>6 DEF Next

(* Steps that write at most the cell at curr_link, and no sequence.        *)
LEMMA MirrorCell ==
  ASSUME TypeInv, Layout, HistoryType, Mirror, CellMirrorsItem',
         UNCHANGED <<s, curr_seq, text, line, sid_map>>,
         \A j \in Index(MaxLink) : j # curr_link => l'[j] = l[j]
  PROVE  Mirror'
<1>1. Len(text) = curr_seq /\ Len(text) \in Nat /\ curr_seq \in Nat
  BY DEF Mirror, HistoryType
<1>2. \A n \in 1 .. Len(text) : n - 1 \in 0 .. curr_seq /\ Len(text[n]) \in Nat
  BY <1>1 DEF HistoryType
<1>3. curr_seq \in 0 .. curr_seq /\ Len(line) \in Nat /\ curr_link \in Nat
  BY <1>1 DEF HistoryType, TypeInv
<1>. Grown(sid_map, sid_map')
  BY DEF Grown
<1>4. \A n \in 1 .. Len(text) : Stretch(n - 1, text[n])'
  BY <1>1, <1>2, <1>3, StretchKept, StretchBelow DEF Mirror
<1>5. Stretch(curr_seq, line)'
  <2>1. PICK i, sig : i = curr_seq /\ sig = line
    OBVIOUS
  <2>2. Stretch(i, sig)'
    BY <1>3, <2>1, StretchKept, StretchBelow DEF Mirror
  <2>3. i = curr_seq' /\ sig = line'
    BY <2>1
  <2>4. QED
    BY <2>2, <2>3 DEF Stretch
<1>6. QED
  BY <1>1, <1>4, <1>5 DEF Mirror, Stretch

(* A transition completes the cell at curr_link and makes it the last link *)
(* of the signature being read.                                            *)
LEMMA MirrorTransition ==
  ASSUME TypeInv, Layout, HistoryType, Mirror,
         NEW x \in Contexts, NEW y \in Contexts,
         NEW ansx \in Answers[x] \cup {BadSid}, NEW ansy \in Answers[y] \cup {BadSid},
         Transition(x, y, ansx, ansy)
  PROVE  Mirror'
<1> DEFINE cs == string_to_sid(x, sid_map, ansx)
           cc == string_to_sid(y, cs.map, ansy)
           tr == [from |-> x, to |-> y, class |-> item.class,
                 first |-> item.first, words |-> item.words]
<1>1. /\ Grown(sid_map, cc.map)
      /\ Resolved(x, cs.res, cc.map) /\ Resolved(y, cc.res, cc.map)
  <2>1. /\ Grown(sid_map, cs.map) /\ DOMAIN cs.map \subseteq Contexts
        /\ \A z \in DOMAIN cs.map : cs.map[z] \in Answers[z]
        /\ cs.res = BadSid \/ (x \in DOMAIN cs.map /\ cs.res = cs.map[x])
    BY SidAnswer DEF TypeInv, Grown
  <2> HIDE DEF cs
  <2>2. /\ Grown(cs.map, cc.map)
        /\ \A z \in DOMAIN cc.map : cc.map[z] \in Answers[z]
        /\ cc.res = BadSid \/ (y \in DOMAIN cc.map /\ cc.res = cc.map[y])
    BY <2>1, SidAnswer DEF Grown
  <2> HIDE DEF cc
  <2>3. QED
    BY <2>1, <2>2 DEF Grown, Resolved
<1> HIDE DEF cs, cc
<1>2. /\ expect = "target" /\ expect' = "signature"
      /\ l' = [l EXCEPT ![curr_link].cs = cs.res, ![curr_link].cc = cc.res]
      /\ s' = [s EXCEPT ![curr_seq].length = @ + 1]
      /\ curr_link' = curr_link + 1
      /\ line' = Append(line, tr) /\ item' = NoItem /\ sid_map' = cc.map
      /\ UNCHANGED <<curr_seq, request_list, text>>
  BY DEF Transition, cs, cc
<1>3. PICK i \in Index(MaxSeq) : i = curr_seq
  BY DEF Layout
<1>4. PICK k \in Index(MaxLink) : k = curr_link
  BY <1>2 DEF Mirror, CellMirrorsItem
<1>5. /\ s[i] \in Sequence /\ s[i].link_offset + s[i].length = k
      /\ Len(line) = s[i].length /\ Len(line) \in Nat /\ k \in Nat
      /\ s[i].link_offset \in Nat
  BY <1>3, <1>4 DEF TypeInv, Layout, Mirror, Stretch, HistoryType, Sequence
<1>6. /\ \A j \in Index(MaxLink) : j # k => l'[j] = l[j]
      /\ l'[k].cs = cs.res /\ l'[k].cc = cc.res
      /\ l'[k].tclass = l[k].tclass /\ l'[k].requested = l[k].requested
  BY <1>2, <1>4 DEF TypeInv, Link
<1>7. /\ s'[i].length = s[i].length + 1 /\ s'[i].link_offset = s[i].link_offset
      /\ \A j \in Index(MaxSeq) : j # i => s'[j] = s[j]
  BY <1>2, <1>3, <1>5 DEF TypeInv, Sequence
<1>8. Translates(l'[k], tr, sid_map')
  <2>1. PICK c \in Classes :
          /\ item.class = {c}
          /\ l[k].tclass = TclassOf[c]
          /\ l[k].requested = UNION {AvPerm[c][w] : w \in item.first}
    BY <1>2, <1>4 DEF Mirror, CellMirrorsItem
  <2>2. tr.from = x /\ tr.to = y /\ tr.class = {c} /\ tr.first = item.first
    BY <2>1
  <2>3. Resolved(tr.from, l'[k].cs, sid_map') /\ Resolved(tr.to, l'[k].cc, sid_map')
    BY <1>1, <1>2, <1>6
  <2> HIDE DEF tr
  <2>4. /\ c \in tr.class /\ l'[k].tclass = TclassOf[c]
        /\ l'[k].requested = UNION {AvPerm[c][w] : w \in tr.first}
    BY <1>6, <2>1, <2>2
  <2>5. QED
    BY <2>3, <2>4, Zenon DEF Translates
<1>9. Stretch(i, line)'
  <2>1. /\ Len(line') = Len(line) + 1 /\ line'[Len(line) + 1] = tr
        /\ \A a \in 1 .. Len(line) : line'[a] = line[a]
    BY <1>2 DEF HistoryType
  <2>2. ASSUME NEW a \in 1 .. Len(line)
        PROVE  /\ s[i].link_offset + a - 1 \in Index(MaxLink)
               /\ Translates(l'[s[i].link_offset + a - 1], line'[a], sid_map')
    <3>1. /\ s[i].link_offset + a - 1 \in Index(MaxLink)
          /\ Translates(l[s[i].link_offset + a - 1], line[a], sid_map)
      BY <1>3 DEF Mirror, Stretch
    <3>2. s[i].link_offset + a - 1 # k
      BY <1>5
    <3>3. Translates(l[s[i].link_offset + a - 1], line[a], sid_map')
      BY <1>1, <1>2, <3>1, TranslatesGrown
    <3>4. QED
      BY <1>6, <2>1, <3>1, <3>2, <3>3
  <2>3. s[i].link_offset + (Len(line) + 1) - 1 = k
    BY <1>5
  <2>4. ASSUME NEW a \in 1 .. (Len(line) + 1)
        PROVE  /\ s[i].link_offset + a - 1 \in Index(MaxLink)
               /\ Translates(l'[s[i].link_offset + a - 1], line'[a], sid_map')
    <3>1. a \in 1 .. Len(line) \/ a = Len(line) + 1
      BY <1>5
    <3>2. QED
      BY <1>8, <2>1, <2>2, <2>3, <3>1
  <2>5. QED
    BY <1>5, <1>7, <2>1, <2>4 DEF Stretch
<1>10. \A n \in 1 .. Len(text) : Stretch(n - 1, text[n])'
  <2>1. ASSUME NEW n \in 1 .. Len(text)
        PROVE  Stretch(n - 1, text[n])'
    <3>1. /\ n - 1 \in 0 .. curr_seq /\ n - 1 # i /\ Len(text[n]) \in Nat
          /\ curr_link \in Nat
      BY <1>3 DEF Mirror, HistoryType, TypeInv
    <3>2. PICK j, sig : j = n - 1 /\ sig = text[n]
      OBVIOUS
    <3>3. /\ s[j].link_offset \in Nat /\ j \in Index(MaxSeq)
          /\ s[j].link_offset + s[j].length <= curr_link
      BY <3>1, <3>2, StretchBelow
    <3>4. Stretch(j, sig) /\ s'[j] = s[j]
      BY <1>7, <3>1, <3>2, <3>3 DEF Mirror
    <3>5. Stretch(j, sig)'
      BY <1>1, <1>2, <1>4, <1>6, <3>1, <3>2, <3>3, <3>4, StretchKept
    <3>6. j = n - 1 /\ sig = text'[n]
      BY <1>2, <3>2
    <3>7. QED
      BY <3>5, <3>6 DEF Stretch
  <2>2. QED
    BY <2>1
<1>11. CellMirrorsItem'
  BY <1>2 DEF CellMirrorsItem, Mirror
<1>12. QED
  BY <1>2, <1>3, <1>9, <1>10, <1>11 DEF Mirror, Stretch

(* A line moves the signature that was read to the finished ones.          *)
LEMMA MirrorLine ==
  ASSUME TypeInv, Layout, HistoryType, Mirror, Line, expect' # "overrun", Layout'
  PROVE  Mirror'
<1>1. /\ expect = "signature" /\ expect' = "line" /\ curr_seq' = curr_seq + 1
      /\ curr_seq \in Nat /\ curr_seq + 1 \in Index(MaxSeq)
      /\ s' = [s EXCEPT ![curr_seq + 1].link_offset = NextOffset]
      /\ text' = Append(text, line) /\ line' = <<>>
      /\ UNCHANGED <<l, request_list, item, sid_map>>
  BY SizeAssumption DEF Line, Index, TypeInv
<1>2. \A i \in Index(MaxSeq) : /\ s'[i].length = s[i].length
                               /\ i # curr_seq + 1 => s'[i] = s[i]
  BY <1>1 DEF TypeInv, Sequence
<1>3. /\ Len(text) = curr_seq /\ Len(text') = curr_seq + 1
      /\ \A n \in 1 .. curr_seq : text'[n] = text[n]
      /\ text'[curr_seq + 1] = line
  BY <1>1 DEF Mirror, HistoryType
<1>4. ASSUME NEW n \in 1 .. (curr_seq + 1)
      PROVE  Stretch(n - 1, text[n])'
  <2>1. PICK j, sig : j = n - 1 /\ sig = text'[n]
    OBVIOUS
  <2>2. j \in Index(MaxSeq) /\ j # curr_seq + 1
    BY <1>1, <2>1, SizeAssumption DEF Index
  <2>3. Stretch(j, sig)
    <3>1. CASE n = curr_seq + 1
      BY <1>1, <1>3, <2>1, <3>1 DEF Mirror
    <3>2. CASE n \in 1 .. curr_seq
      BY <1>3, <2>1, <3>2 DEF Mirror
    <3>3. QED
      BY <1>1, <3>1, <3>2
  <2>4. Stretch(j, sig)'
    <3>1. l' = l /\ s'[j] = s[j] /\ sid_map' = sid_map
      BY <1>1, <1>2, <2>2
    <3>2. QED
      BY <2>3, <3>1 DEF Stretch
  <2>5. QED
    BY <2>1, <2>4 DEF Stretch
<1>5. Stretch(curr_seq, line)'
  <2>1. s'[curr_seq + 1].length = 0
    BY <1>1, <1>2 DEF Layout
  <2>2. QED
    BY <1>1, <2>1 DEF Stretch
<1>6. CellMirrorsItem'
  BY <1>1 DEF CellMirrorsItem, Mirror
<1>7. QED
  BY <1>1, <1>3, <1>4, <1>5, <1>6 DEF Mirror

LEMMA MirrorStep ==
  ASSUME MirrorInv, [Next]_vars
  PROVE  MirrorInv'
<1>1. LayoutInv' /\ HistoryType'
  BY LayoutStep, HistoryStep DEF MirrorInv
<1>2. TypeInv /\ HistoryType /\ (expect # "overrun" => Layout /\ Mirror)
  BY DEF MirrorInv, LayoutInv
<1>3. ASSUME NEW w \in Words, Request(w) \/ RequestMore(w)
      PROVE  Mirror'
  <2>1. /\ Layout /\ Mirror /\ UNCHANGED <<s, l, curr_seq, text, line, sid_map>>
        /\ expect' = "vector"
    BY <1>2, <1>3 DEF Request, RequestMore
  <2>2. CASE Request(w)
    <3>1. request_list = {} /\ item = NoItem
      BY <2>1, <2>2 DEF Request, Mirror, CellMirrorsItem
    <3>2. request_list' = {w} /\ request' = {w}
      BY <2>2, <3>1 DEF Request
    <3>3. item'.class = {} /\ item'.first = {w}
      BY <2>2, <3>1 DEF Request, NoItem
    <3>4. CellMirrorsItem'
      BY <2>1, <3>2, <3>3 DEF CellMirrorsItem
    <3>5. QED
      BY <1>2, <2>1, <3>4, MirrorCell
  <2>3. CASE RequestMore(w)
    <3>1. request_list = request /\ item.class = {} /\ item.first = request
      BY <2>1, <2>3 DEF RequestMore, Mirror, CellMirrorsItem
    <3>2. request_list' = request /\ request' = request
      BY <2>3, <3>1 DEF RequestMore
    <3>3. item'.class = {} /\ item'.first = request
      BY <1>2, <2>3, <3>1 DEF RequestMore, HistoryType
    <3>4. CellMirrorsItem'
      BY <2>1, <3>2, <3>3 DEF CellMirrorsItem
    <3>5. QED
      BY <1>2, <2>1, <3>4, MirrorCell
  <2>4. QED
    BY <1>3, <2>2, <2>3
<1>4. ASSUME NEW c \in Classes, ReadVector(c), expect' # "overrun"
      PROVE  Mirror'
  <2>1. /\ Layout /\ Mirror /\ UNCHANGED <<s, curr_seq, text, line, sid_map>>
        /\ curr_link \in Index(MaxLink) /\ curr_link' = curr_link
        /\ l' = [l EXCEPT ![curr_link].tclass = TclassOf[c],
                          ![curr_link].requested = Requested(c)]
        /\ request_list' = {} /\ item.first = request_list
        /\ item' = [item EXCEPT !.class = {c}] /\ expect' = "target"
    <3>1. /\ expect = "vector" /\ curr_link < MaxLink /\ curr_link' = curr_link
          /\ UNCHANGED <<s, curr_seq, text, line, sid_map>>
          /\ l' = [l EXCEPT ![curr_link].tclass = TclassOf[c],
                            ![curr_link].requested = Requested(c)]
          /\ request_list' = {} /\ expect' = "target"
          /\ item' = [item EXCEPT !.class = {c}]
      BY <1>4 DEF ReadVector
    <3>2. Layout /\ Mirror
      BY <1>2, <3>1
    <3>3. item.first = request_list
      BY <3>1, <3>2 DEF Mirror, CellMirrorsItem
    <3>4. curr_link \in Index(MaxLink)
      BY <1>2, <3>1, SizeAssumption DEF TypeInv, Index
    <3>5. QED
      BY <3>1, <3>2, <3>3, <3>4
  <2>2. /\ \A j \in Index(MaxLink) : j # curr_link => l'[j] = l[j]
        /\ l'[curr_link].tclass = TclassOf[c]
        /\ l'[curr_link].requested = Requested(c)
    BY <1>2, <2>1 DEF TypeInv, Link
  <2>3. item'.class = {c} /\ item'.first = request_list
    BY <1>2, <2>1 DEF HistoryType
  <2>4. CellMirrorsItem'
    BY <2>1, <2>2, <2>3 DEF CellMirrorsItem, Requested
  <2>5. QED
    BY <1>2, <2>1, <2>2, <2>4, MirrorCell
<1>5. ASSUME NEW x \in Contexts, NEW y \in Contexts,
             NEW ansx \in Answers[x] \cup {BadSid}, NEW ansy \in Answers[y] \cup {BadSid},
             Transition(x, y, ansx, ansy)
      PROVE  Mirror'
  BY <1>2, <1>5, MirrorTransition DEF Transition
<1>6. ASSUME Line, expect' # "overrun"
      PROVE  Mirror'
  BY <1>1, <1>2, <1>6, MirrorLine DEF Line, LayoutInv
<1>7. ASSUME Allocate \/ EndOfFile \/ SyntaxError \/ set_sequence
      PROVE  Mirror'
  <2>1. /\ expect # "overrun"
        /\ UNCHANGED <<s, l, curr_seq, curr_link, request_list, item, text, line,
                       sid_map>>
        /\ expect' \in {"transition", "parsed", "failed", "loaded"}
        /\ expect' = "transition" => expect = "start"
    BY <1>7 DEF Allocate, EndOfFile, SyntaxError, set_sequence, Parsing
  <2>2. CellMirrorsItem'
    BY <1>2, <2>1 DEF Mirror, CellMirrorsItem
  <2>3. QED
    BY <1>2, <2>1, <2>2, MirrorCell
<1>8. ASSUME UNCHANGED vars, expect # "overrun"
      PROVE  Mirror'
  <2>1. CellMirrorsItem'
    BY <1>2, <1>8 DEF vars, Mirror, CellMirrorsItem
  <2>2. QED
    BY <1>2, <1>8, <2>1, MirrorCell DEF vars
<1>9. expect' # "overrun" => Mirror'
  <2>1. CASE UNCHANGED vars
    BY <1>8, <2>1 DEF vars
  <2>2. QED
    BY <1>3, <1>4, <1>5, <1>6, <1>7, <2>1 DEF Next
<1>10. QED
  BY <1>1, <1>9 DEF MirrorInv

LEMMA MirrorInit == Init => MirrorInv
<1>1. SUFFICES ASSUME Init
               PROVE  MirrorInv
  OBVIOUS
<1>2. 0 \in Index(MaxSeq)
  BY SizeAssumption DEF Index
<1>3. HistoryType
  BY <1>1 DEF Init, HistoryType, NoItem
<1>4. s[0].length = 0
  BY <1>1, <1>2 DEF Init, ZeroSequence
<1>5. Mirror
  BY <1>1, <1>4 DEF Init, Mirror, CellMirrorsItem, Stretch
<1>6. QED
  BY <1>1, <1>3, <1>5, LayoutInit DEF MirrorInv

(* The tables mirror the policy text for every text: the offsets that run  *)
(* ahead twice as fast never make one line write over another, and no      *)
(* vector keeps a permission of the one before it.                         *)
THEOREM TablesMirrorText == Spec => []TableMirrorsFile
<1>1. Init => MirrorInv
  BY MirrorInit
<1>2. MirrorInv /\ [Next]_vars => MirrorInv'
  BY MirrorStep
<1>3. MirrorInv => TableMirrorsFile
  BY DEF MirrorInv, Mirror, Stretch, TableMirrorsFile
<1>4. QED
  BY <1>1, <1>2, <1>3, PTL DEF Spec

-----------------------------------------------------------------------------
(* The two numbers main() prints.  While a line is read, the flag          *)
(* invalid_context says whether the sequence has a link that is broken.    *)
CountInv ==
  /\ MirrorInv
  /\ invalid_context \in BOOLEAN /\ loaded \in Nat /\ ignored \in Nat
  /\ CountsExact
  /\ expect # "overrun" => (invalid_context <=> Broken(curr_seq))

(* string_to_sid flags exactly the answers that are no SID, from the cache *)
(* or not.                                                                 *)
LEMMA SidInvalid ==
  ASSUME NEW x \in Contexts, NEW map, NEW ans \in Answers[x] \cup {BadSid},
         \A z \in DOMAIN map : map[z] \in Answers[z]
  PROVE  string_to_sid(x, map, ans).invalid <=>
           string_to_sid(x, map, ans).res \in {0, BadSid}
<1>1. CASE x \in DOMAIN map
  <2>1. /\ string_to_sid(x, map, ans).res = map[x]
        /\ string_to_sid(x, map, ans).invalid <=> map[x] = 0
    BY <1>1, Zenon DEF string_to_sid
  <2>2. map[x] # BadSid
    BY <1>1, NoAnswerIsBadSid
  <2>3. QED
    BY <2>1, <2>2
<1>2. CASE x \notin DOMAIN map /\ ans = BadSid
  BY <1>2 DEF string_to_sid
<1>3. CASE x \notin DOMAIN map /\ ans # BadSid
  <2>1. /\ string_to_sid(x, map, ans).res = ans
        /\ string_to_sid(x, map, ans).invalid <=> ans = 0
    BY <1>3, Zenon DEF string_to_sid
  <2>2. QED
    BY <1>3, <2>1
<1>4. QED
  BY <1>1, <1>2, <1>3

(* The cells of a stretch, counted from 0 as Broken does.                  *)
LEMMA StretchCells ==
  ASSUME NEW i, NEW sig, Stretch(i, sig), s[i].length \in Nat,
         s[i].link_offset \in Nat, curr_link \in Nat,
         s[i].link_offset + s[i].length <= curr_link,
         NEW a \in Index(s[i].length)
  PROVE  s[i].link_offset + a \in Index(MaxLink) /\ s[i].link_offset + a # curr_link
<1>1. a \in Nat /\ a < s[i].length
  BY DEF Index
<1>2. a + 1 \in 1 .. Len(sig) /\ s[i].link_offset + (a + 1) - 1 = s[i].link_offset + a
  BY <1>1 DEF Stretch
<1>3. s[i].link_offset + a \in Index(MaxLink)
  BY <1>2 DEF Stretch
<1>4. QED
  BY <1>1, <1>3

(* A write to the cell at curr_link breaks no sequence below it.           *)
LEMMA BrokenKept ==
  ASSUME NEW i, NEW sig, Stretch(i, sig), s[i].length \in Nat,
         s[i].link_offset \in Nat, curr_link \in Nat,
         s[i].link_offset + s[i].length <= curr_link,
         s'[i].length = s[i].length, s'[i].link_offset = s[i].link_offset,
         \A j \in Index(MaxLink) : j # curr_link => l'[j] = l[j]
  PROVE  Broken(i)' <=> Broken(i)
<1>1. \A a \in Index(s[i].length) :
        l'[s[i].link_offset + a] = l[s[i].link_offset + a]
  BY StretchCells
<1>2. QED
  BY <1>1, Zenon DEF Broken

LEMMA FinishedKept ==
  ASSUME TypeInv, Layout, HistoryType, Mirror,
         \A i \in Index(curr_seq) : s'[i] = s[i],
         \A j \in Index(MaxLink) : j # curr_link => l'[j] = l[j]
  PROVE  \A i \in Index(curr_seq) : Broken(i)' <=> Broken(i)
<1>1. TAKE i \in Index(curr_seq)
<1>2. curr_seq \in Nat /\ curr_link \in Nat /\ Len(text) = curr_seq
  BY DEF TypeInv, Mirror
<1>3. i \in 0 .. curr_seq /\ i + 1 \in 1 .. Len(text) /\ (i + 1) - 1 = i
  BY <1>2 DEF Index
<1>4. /\ s[i].link_offset \in Nat /\ s[i].length \in Nat
      /\ s[i].link_offset + s[i].length <= curr_link
  BY <1>3, StretchBelow
<1>5. PICK sig : Stretch(i, sig)
  BY <1>3 DEF Mirror
<1>6. QED
  BY <1>2, <1>4, <1>5, BrokenKept

(* Steps between the reductions of transitions and lines.                  *)
LEMMA CountCell ==
  ASSUME CountInv, expect # "overrun",
         UNCHANGED <<s, curr_seq, text, loaded, ignored, invalid_context>>,
         \A j \in Index(MaxLink) : j # curr_link => l'[j] = l[j]
  PROVE  /\ CountsExact' /\ invalid_context' \in BOOLEAN
         /\ invalid_context' <=> Broken(curr_seq)'
<1>1. TypeInv /\ Layout /\ HistoryType /\ Mirror
  BY DEF CountInv, MirrorInv, LayoutInv
<1>2. \A i \in Index(curr_seq) : Broken(i)' <=> Broken(i)
  BY <1>1, FinishedKept
<1>3. {i \in Index(Len(text)) : Broken(i)}' = {i \in Index(Len(text)) : Broken(i)}
  BY <1>1, <1>2 DEF Mirror
<1>4. CountsExact'
  BY <1>3 DEF CountInv, CountsExact
<1>5. curr_seq \in 0 .. curr_seq /\ curr_link \in Nat
  BY <1>1 DEF TypeInv
<1>6. PICK i, sig : i = curr_seq /\ sig = line
  OBVIOUS
<1>7. /\ Stretch(i, sig) /\ s[i].link_offset \in Nat /\ s[i].length \in Nat
      /\ s[i].link_offset + s[i].length <= curr_link
  BY <1>1, <1>5, <1>6, StretchBelow DEF Mirror
<1>8. Broken(i)' <=> Broken(i)
  BY <1>5, <1>7, BrokenKept
<1>9. Broken(curr_seq)' <=> Broken(curr_seq)
  <2>1. i = curr_seq /\ i = curr_seq'
    BY <1>6
  <2>2. QED
    BY <1>8, <2>1, Zenon DEF Broken
<1>10. QED
  BY <1>4, <1>9, Zenon DEF CountInv

(* A transition breaks the sequence being read when it sets the flag.      *)
LEMMA CountTransition ==
  ASSUME CountInv, NEW x \in Contexts, NEW y \in Contexts,
         NEW ansx \in Answers[x] \cup {BadSid}, NEW ansy \in Answers[y] \cup {BadSid},
         Transition(x, y, ansx, ansy)
  PROVE  /\ CountsExact' /\ invalid_context' \in BOOLEAN
         /\ invalid_context' <=> Broken(curr_seq)'
<1> DEFINE cs == string_to_sid(x, sid_map, ansx)
           cc == string_to_sid(y, cs.map, ansy)
           bad == {0, BadSid}
<1>1. /\ TypeInv /\ Layout /\ HistoryType /\ Mirror /\ CountsExact
      /\ invalid_context <=> Broken(curr_seq)
  BY DEF CountInv, MirrorInv, LayoutInv, Transition
<1>2. (cs.invalid <=> cs.res \in bad) /\ (cc.invalid <=> cc.res \in bad)
  <2>1. \A z \in DOMAIN cs.map : cs.map[z] \in Answers[z]
    BY <1>1, SidAnswer DEF TypeInv
  <2>2. cs.invalid <=> cs.res \in bad
    BY <1>1, SidInvalid DEF TypeInv
  <2> HIDE DEF cs
  <2>3. cc.invalid <=> cc.res \in bad
    BY <2>1, SidInvalid
  <2>4. QED
    BY <2>2, <2>3
<1> HIDE DEF cs, cc
<1>3. /\ expect = "target"
      /\ l' = [l EXCEPT ![curr_link].cs = cs.res, ![curr_link].cc = cc.res]
      /\ s' = [s EXCEPT ![curr_seq].length = @ + 1]
      /\ invalid_context' = (invalid_context \/ cs.invalid \/ cc.invalid)
      /\ UNCHANGED <<curr_seq, text, loaded, ignored>>
  BY DEF Transition, cs, cc
<1>4. PICK i \in Index(MaxSeq) : i = curr_seq
  BY <1>1 DEF Layout
<1>5. PICK k \in Index(MaxLink) : k = curr_link
  BY <1>1, <1>3 DEF Mirror, CellMirrorsItem
<1>6. /\ Stretch(i, line) /\ s[i].length \in Nat /\ s[i].link_offset \in Nat
      /\ s[i].link_offset + s[i].length = k /\ k \in Nat
  BY <1>1, <1>4, <1>5 DEF TypeInv, Layout, Mirror, Sequence
<1>7. /\ \A j \in Index(MaxLink) : j # k => l'[j] = l[j]
      /\ l'[k].cs = cs.res /\ l'[k].cc = cc.res
  BY <1>1, <1>3, <1>5 DEF TypeInv, Link
<1>8. /\ s'[i].length = s[i].length + 1 /\ s'[i].link_offset = s[i].link_offset
      /\ \A j \in Index(MaxSeq) : j # i => s'[j] = s[j]
  BY <1>1, <1>3, <1>4 DEF TypeInv, Sequence
<1>9. {j \in Index(Len(text)) : Broken(j)}' = {j \in Index(Len(text)) : Broken(j)}
  <2>1. \A j \in Index(curr_seq) : j \in Index(MaxSeq) /\ j # i
    BY <1>1, <1>4, SizeAssumption DEF TypeInv, Index
  <2>2. \A j \in Index(curr_seq) : Broken(j)' <=> Broken(j)
    BY <1>1, <1>5, <1>7, <1>8, <2>1, FinishedKept
  <2>3. QED
    BY <1>1, <1>3, <2>2 DEF Mirror
<1>10. CountsExact'
  BY <1>1, <1>3, <1>9 DEF CountsExact
<1>11. Broken(i)' <=> Broken(i) \/ cs.res \in bad \/ cc.res \in bad
  <2>1. \A a \in Index(s[i].length) :
          l'[s[i].link_offset + a] = l[s[i].link_offset + a]
    BY <1>5, <1>6, <1>7, StretchCells
  <2>2. Index(s[i].length + 1) = Index(s[i].length) \cup {s[i].length}
    BY <1>6 DEF Index
  <2>3. Broken(i)' <=> \E a \in Index(s[i].length) \cup {s[i].length} :
          {l'[s[i].link_offset + a].cs, l'[s[i].link_offset + a].cc} \cap bad # {}
    BY <1>8, <2>2, Zenon DEF Broken
  <2>4. Broken(i) <=> \E a \in Index(s[i].length) :
          {l[s[i].link_offset + a].cs, l[s[i].link_offset + a].cc} \cap bad # {}
    BY Zenon DEF Broken
  <2>5. {l'[k].cs, l'[k].cc} \cap bad # {} <=> cs.res \in bad \/ cc.res \in bad
    BY <1>7
  <2>6. QED
    BY <1>6, <2>1, <2>3, <2>4, <2>5, Zenon
<1>12. Broken(curr_seq)' <=> Broken(i)'
  <2>1. i = curr_seq'
    BY <1>3, <1>4
  <2>2. QED
    BY <2>1, Zenon DEF Broken
<1>13. invalid_context' \in BOOLEAN /\ (invalid_context' <=> Broken(curr_seq)')
  BY <1>1, <1>2, <1>3, <1>4, <1>11, <1>12, Zenon
<1>14. QED
  BY <1>10, <1>13

(* A line counts its sequence on the side the flag says.                   *)
LEMMA CountLine ==
  ASSUME CountInv, MirrorInv', Line
  PROVE  /\ CountsExact' /\ invalid_context' \in BOOLEAN
         /\ loaded' \in Nat /\ ignored' \in Nat
         /\ expect' # "overrun" => (invalid_context' <=> Broken(curr_seq)')
<1> DEFINE n == curr_seq
           B == {i \in Index(n) : Broken(i)}
<1>1. /\ TypeInv /\ Layout /\ HistoryType /\ Mirror /\ CountsExact
      /\ invalid_context <=> Broken(n)
      /\ loaded \in Nat /\ ignored \in Nat
  BY DEF CountInv, MirrorInv, LayoutInv, Line
<1>2. /\ n \in Nat /\ n \in Index(MaxSeq) /\ Len(text) = n /\ Len(text') = n + 1
      /\ curr_seq' = n + 1 /\ l' = l /\ invalid_context' = FALSE
  BY <1>1 DEF Line, TypeInv, Layout, Mirror, HistoryType
<1>3. \A i \in 0 .. n : s'[i] = s[i]
  <2>1. \A i \in 0 .. n : i \in Index(MaxSeq) /\ i # n + 1
    BY <1>1, <1>2, SizeAssumption DEF Index
  <2>2. s' = s \/ s' = [s EXCEPT ![n + 1].link_offset = NextOffset]
    BY DEF Line
  <2>3. QED
    BY <1>1, <2>1, <2>2 DEF TypeInv
<1>4. \A i \in 0 .. n : Broken(i)' <=> Broken(i)
  BY <1>2, <1>3, Zenon DEF Broken
<1>5. IsFiniteSet(B) /\ n \notin B /\ Cardinality(B) \in Nat
  <2>1. IsFiniteSet(Index(n))
    BY <1>2, FS_Interval DEF Index
  <2>2. IsFiniteSet(B) /\ n \notin B
    BY <1>2, <2>1, FS_Subset DEF Index
  <2>3. QED
    BY <2>2, FS_CardinalityType
<1>6. Cardinality({i \in Index(Len(text)) : Broken(i)}') = ignored'
  <2>1. Index(n + 1) = Index(n) \cup {n} /\ \A i \in Index(n + 1) : i \in 0 .. n
    BY <1>2 DEF Index
  <2>2. {i \in Index(Len(text)) : Broken(i)}' = {i \in Index(n + 1) : Broken(i)}
    BY <1>2, <1>4, <2>1
  <2>3. ignored = Cardinality(B)
    BY <1>1, <1>2 DEF CountsExact
  <2>4. CASE invalid_context
    <3>1. {i \in Index(n + 1) : Broken(i)} = B \cup {n}
      BY <1>1, <2>1, <2>4
    <3>2. Cardinality(B \cup {n}) = Cardinality(B) + 1
      BY <1>5, FS_AddElement
    <3>3. ignored' = ignored + 1
      BY <2>4 DEF Line
    <3>4. QED
      BY <2>2, <2>3, <3>1, <3>2, <3>3
  <2>5. CASE ~invalid_context
    <3>1. {i \in Index(n + 1) : Broken(i)} = B
      BY <1>1, <2>1, <2>5
    <3>2. ignored' = ignored
      BY <1>1, <2>5 DEF Line
    <3>3. QED
      BY <2>2, <2>3, <3>1, <3>2
  <2>6. QED
    BY <2>4, <2>5
<1>7. /\ loaded' \in Nat /\ ignored' \in Nat
      /\ loaded' + ignored' = n + 1
  <2>1. loaded + ignored = n
    BY <1>1, <1>2 DEF CountsExact
  <2>2. CASE invalid_context
    BY <1>1, <1>2, <2>1, <2>2 DEF Line
  <2>3. CASE ~invalid_context
    BY <1>1, <1>2, <2>1, <2>3 DEF Line
  <2>4. QED
    BY <2>2, <2>3
<1>8. CountsExact'
  BY <1>2, <1>6, <1>7 DEF CountsExact
<1>9. ASSUME expect' # "overrun" PROVE ~Broken(curr_seq)'
  <2>1. Layout' /\ expect' = "line"
    BY <1>9 DEF MirrorInv, LayoutInv, Line
  <2>2. s'[n + 1].length = 0
    <3>1. n + 1 \in Index(MaxSeq) /\ s' = [s EXCEPT ![n + 1].link_offset = NextOffset]
      BY <1>2, <1>9, SizeAssumption DEF Line, Index
    <3>2. s'[n + 1].length = s[n + 1].length
      BY <1>1, <3>1 DEF TypeInv, Sequence
    <3>3. QED
      BY <1>1, <1>2, <3>1, <3>2 DEF Layout
  <2>3. Index(0) = {}
    BY DEF Index
  <2>4. QED
    BY <1>2, <2>2, <2>3, Zenon DEF Broken
<1>10. QED
  BY <1>2, <1>7, <1>8, <1>9, Zenon

LEMMA CountStep ==
  ASSUME CountInv, [Next]_vars
  PROVE  CountInv'
<1>1. MirrorInv' /\ TypeInv
  BY MirrorStep DEF CountInv, MirrorInv, LayoutInv
<1>2. ASSUME NEW w \in Words, Request(w) \/ RequestMore(w)
      PROVE  CountInv'
  <2>1. /\ expect # "overrun"
        /\ UNCHANGED <<s, l, curr_seq, text, loaded, ignored, invalid_context>>
    BY <1>2 DEF Request, RequestMore
  <2>2. QED
    BY <1>1, <2>1, CountCell, Zenon DEF CountInv
<1>3. ASSUME NEW c \in Classes, ReadVector(c)
      PROVE  CountInv'
  <2>1. /\ expect # "overrun"
        /\ UNCHANGED <<s, curr_seq, text, loaded, ignored, invalid_context>>
    BY <1>3 DEF ReadVector
  <2>2. \A j \in Index(MaxLink) : j # curr_link => l'[j] = l[j]
    BY <1>1, <1>3 DEF ReadVector, TypeInv
  <2>3. QED
    BY <1>1, <2>1, <2>2, CountCell, Zenon DEF CountInv
<1>4. ASSUME NEW x \in Contexts, NEW y \in Contexts,
             NEW ansx \in Answers[x] \cup {BadSid}, NEW ansy \in Answers[y] \cup {BadSid},
             Transition(x, y, ansx, ansy)
      PROVE  CountInv'
  <2>1. UNCHANGED <<loaded, ignored>>
    BY <1>4 DEF Transition
  <2>2. QED
    BY <1>1, <1>4, <2>1, CountTransition, Zenon DEF CountInv
<1>5. CASE Line
  BY <1>1, <1>5, CountLine, Zenon DEF CountInv
<1>6. ASSUME Allocate \/ EndOfFile \/ SyntaxError \/ set_sequence
      PROVE  CountInv'
  <2>1. /\ expect # "overrun"
        /\ UNCHANGED <<s, l, curr_seq, text, loaded, ignored, invalid_context>>
    BY <1>6 DEF Allocate, EndOfFile, SyntaxError, set_sequence, Parsing
  <2>2. QED
    BY <1>1, <2>1, CountCell, Zenon DEF CountInv
<1>7. ASSUME UNCHANGED vars
      PROVE  CountInv'
  <2>1. /\ UNCHANGED <<expect, s, l, curr_seq, text, loaded, ignored, invalid_context>>
    BY <1>7 DEF vars
  <2>2. CountsExact' /\ (Broken(curr_seq)' <=> Broken(curr_seq))
    BY <2>1 DEF CountInv, CountsExact, Broken
  <2>3. QED
    BY <1>1, <2>1, <2>2, Zenon DEF CountInv
<1>8. QED
  BY <1>2, <1>3, <1>4, <1>5, <1>6, <1>7 DEF Next

(* The numbers main() prints are right for every text and every answer of  *)
(* SELinux: what it calls ignored are exactly the sequences with a context *)
(* that was not resolved, also when a table has overrun.                   *)
THEOREM CountsAreExact == Spec => []CountsExact
<1>1. Init => CountInv
  <2>1. SUFFICES ASSUME Init
                 PROVE  CountInv
    OBVIOUS
  <2>2. /\ invalid_context = FALSE /\ loaded = 0 /\ ignored = 0 /\ curr_seq = 0
        /\ Len(text) = 0
    BY <2>1 DEF Init
  <2>3. ~Broken(curr_seq)
    <3>1. Index(s[0].length) = {}
      BY <2>1, SizeAssumption DEF Init, ZeroSequence, Index
    <3>2. QED
      BY <2>2, <3>1, Zenon DEF Broken
  <2>4. CountsExact
    <3>1. {i \in Index(Len(text)) : Broken(i)} = {}
      BY <2>2 DEF Index
    <3>2. QED
      BY <2>2, <3>1, FS_EmptySet DEF CountsExact
  <2>5. invalid_context \in BOOLEAN /\ loaded \in Nat /\ ignored \in Nat
    BY <2>2
  <2>6. QED
    BY <2>1, <2>2, <2>3, <2>4, <2>5, MirrorInit, Zenon DEF CountInv
<1>2. CountInv /\ [Next]_vars => CountInv'
  BY CountStep
<1>3. CountInv => CountsExact
  BY DEF CountInv
<1>4. QED
  BY <1>1, <1>2, <1>3, PTL DEF Spec

-----------------------------------------------------------------------------
(* How far the tables are filled: every transition of a finished line has  *)
(* taken two cells of l, every one of the line being read one.             *)
Transitions(t) == {r \in (1 .. Len(t)) \X (1 .. MaxLen) : r[2] <= Len(t[r[1]])}

Filled ==
  /\ s[curr_seq].link_offset = 2 * Cardinality(Transitions(text))
  /\ Len(line) <= MaxLen
  /\ expect \in {"vector", "target"} => Len(line) < MaxLen
  /\ \A n \in 1 .. Len(text) : Len(text[n]) <= MaxLen

FillInv ==
  /\ MirrorInv
  /\ expect # "overrun" => Filled
  /\ OverrunOnlyWhenFull

LEMMA TransitionsFinite ==
  ASSUME NEW t \in Seq(Seq(Step))
  PROVE  IsFiniteSet(Transitions(t)) /\ Cardinality(Transitions(t)) \in Nat
<1>1. IsFiniteSet(1 .. Len(t)) /\ IsFiniteSet(1 .. MaxLen)
  BY SizeAssumption, FS_Interval
<1>2. IsFiniteSet((1 .. Len(t)) \X (1 .. MaxLen))
  BY <1>1, FS_Product
<1>3. IsFiniteSet(Transitions(t))
  BY <1>2, FS_Subset DEF Transitions
<1>4. QED
  BY <1>3, FS_CardinalityType

(* One more line adds its transitions.                                     *)
LEMMA TransitionsAppend ==
  ASSUME NEW t \in Seq(Seq(Step)), NEW sig \in Seq(Step), Len(sig) <= MaxLen
  PROVE  Cardinality(Transitions(Append(t, sig))) = Cardinality(Transitions(t)) + Len(sig)
<1> DEFINE n == Len(t)
           u == Append(t, sig)
           New == {n + 1} \X (1 .. Len(sig))
<1>1. /\ n \in Nat /\ Len(u) = n + 1 /\ u[n + 1] = sig /\ Len(sig) \in Nat
      /\ \A k \in 1 .. n : u[k] = t[k]
  OBVIOUS
<1> HIDE DEF n, u
<1>2. IsFiniteSet(New) /\ Cardinality(New) = Len(sig)
  <2>1. IsFiniteSet(1 .. Len(sig)) /\ Cardinality(1 .. Len(sig)) = Len(sig)
    <3>1. PICK m \in Nat : m = Len(sig)
      BY <1>1
    <3>2. IsFiniteSet(1 .. m) /\ Cardinality(1 .. m) = IF 1 > m THEN 0 ELSE m - 1 + 1
      BY FS_Interval
    <3>3. QED
      BY <3>1, <3>2
  <2>2. IsFiniteSet({n + 1}) /\ Cardinality({n + 1}) = 1
    BY FS_Singleton
  <2>3. IsFiniteSet(New) /\ Cardinality(New) = 1 * Len(sig)
    BY <2>1, <2>2, FS_Product
  <2>4. QED
    BY <1>1, <2>3
<1>3. Transitions(u) = Transitions(t) \cup New
  <2>1. ASSUME NEW k, NEW a
        PROVE  <<k, a>> \in Transitions(u) <=> <<k, a>> \in Transitions(t) \cup New
    <3>1. <<k, a>> \in Transitions(u) <=>
            k \in 1 .. (n + 1) /\ a \in 1 .. MaxLen /\ a <= Len(u[k])
      BY <1>1 DEF Transitions
    <3>2. <<k, a>> \in Transitions(t) <=>
            k \in 1 .. n /\ a \in 1 .. MaxLen /\ a <= Len(t[k])
      BY DEF Transitions, n
    <3>3. <<k, a>> \in New <=> k = n + 1 /\ a \in 1 .. Len(sig)
      OBVIOUS
    <3>4. CASE k = n + 1
      BY <1>1, <3>1, <3>2, <3>3, <3>4, SizeAssumption
    <3>5. CASE k # n + 1
      BY <1>1, <3>1, <3>2, <3>3, <3>5
    <3>6. QED
      BY <3>4, <3>5
  <2>2. /\ \A r \in Transitions(u) : r = <<r[1], r[2]>>
        /\ \A r \in Transitions(t) \cup New : r = <<r[1], r[2]>>
    BY DEF Transitions
  <2>3. QED
    BY <2>1, <2>2
<1>4. Transitions(t) \cap New = {}
  BY <1>1 DEF Transitions, n
<1>5. IsFiniteSet(Transitions(t)) /\ Cardinality(Transitions(t)) \in Nat
  BY TransitionsFinite
<1>6. Cardinality(Transitions(u)) =
        Cardinality(Transitions(t)) + Cardinality(New) - Cardinality({})
  BY <1>2, <1>3, <1>4, <1>5, FS_Union
<1>7. QED
  BY <1>1, <1>2, <1>5, <1>6, FS_EmptySet DEF u

LEMMA FillLine ==
  ASSUME FillInv, Line
  PROVE  /\ expect' # "overrun" => Filled'
         /\ OverrunOnlyWhenFull'
<1> DEFINE n == curr_seq
<1>1. TypeInv /\ Layout /\ HistoryType /\ Mirror /\ Filled
  BY DEF FillInv, MirrorInv, LayoutInv, Line
<1>2. /\ n \in Nat /\ n < MaxSeq /\ Len(text) = n
      /\ text' = Append(text, line) /\ line' = <<>> /\ curr_seq' = n + 1
  BY <1>1, SizeAssumption DEF Line, TypeInv, Layout, Mirror, Index
<1>3. Len(text') = n + 1 /\ text'[n + 1] = line /\ \A k \in 1 .. n : text'[k] = text[k]
  BY <1>1, <1>2 DEF HistoryType
<1>4. ASSUME expect' = "overrun" PROVE OverrunOnlyWhenFull'
  <2>1. n + 1 = MaxSeq
    BY <1>2, <1>4, SizeAssumption DEF Line
  <2>2. QED
    BY <1>3, <2>1 DEF OverrunOnlyWhenFull
<1>5. ASSUME expect' # "overrun" PROVE Filled'
  <2>1. /\ expect' = "line" /\ n + 1 \in Index(MaxSeq)
        /\ s' = [s EXCEPT ![n + 1].link_offset = NextOffset]
    BY <1>2, <1>5, SizeAssumption DEF Line, Index
  <2>2. s'[n + 1].link_offset = NextOffset
    BY <1>1, <2>1 DEF TypeInv, Sequence
  <2>3. /\ s[n].link_offset \in Nat /\ s[n].length \in Nat
        /\ NextOffset = s[n].link_offset + s[n].length + s[n].length
    BY <1>1 DEF TypeInv, Layout, NextOffset, Sequence
  <2>4. s[n].length = Len(line) /\ Len(line) \in Nat
    BY <1>1 DEF Mirror, Stretch, HistoryType
  <2>5. /\ Cardinality(Transitions(text')) = Cardinality(Transitions(text)) + Len(line)
        /\ Cardinality(Transitions(text)) \in Nat
    <3>1. text \in Seq(Seq(Step)) /\ line \in Seq(Step) /\ Len(line) <= MaxLen
      BY <1>1 DEF HistoryType, Filled
    <3>2. QED
      BY <1>2, <3>1, TransitionsAppend, TransitionsFinite
  <2>6. s'[n + 1].link_offset = 2 * Cardinality(Transitions(text'))
    <3>1. s[n].link_offset = 2 * Cardinality(Transitions(text))
      BY <1>1 DEF Filled
    <3>2. QED
      BY <2>2, <2>3, <2>4, <2>5, <3>1
  <2>7. \A k \in 1 .. Len(text') : Len(text'[k]) <= MaxLen
    <3>1. \A k \in 1 .. (n + 1) : k \in 1 .. n \/ k = n + 1
      BY <1>2
    <3>2. QED
      BY <1>1, <1>2, <1>3, <3>1 DEF Filled
  <2>8. Len(line') <= MaxLen
    BY <1>2, SizeAssumption
  <2>9. QED
    BY <1>2, <2>1, <2>6, <2>7, <2>8 DEF Filled, Transitions
<1>6. QED
  BY <1>4, <1>5 DEF OverrunOnlyWhenFull

LEMMA FillStep ==
  ASSUME FillInv, [Next]_vars
  PROVE  FillInv'
<1>1. MirrorInv' /\ TypeInv /\ HistoryType
  BY MirrorStep DEF FillInv, MirrorInv, LayoutInv
<1>2. expect # "overrun" => Filled /\ Layout /\ Mirror
  BY DEF FillInv, MirrorInv, LayoutInv
<1>3. Len(line) \in Nat
  BY <1>1 DEF HistoryType
<1>4. ASSUME NEW w \in Words, Request(w) \/ RequestMore(w)
      PROVE  FillInv'
  <2>1. /\ expect # "overrun" /\ expect' = "vector" /\ Len(line) < MaxLen
        /\ UNCHANGED <<s, curr_seq, text, line>>
    BY <1>2, <1>4 DEF Request, RequestMore, Filled
  <2>2. Filled'
    BY <1>2, <2>1 DEF Filled, Transitions
  <2>3. QED
    BY <1>1, <2>1, <2>2 DEF FillInv, OverrunOnlyWhenFull
<1>5. ASSUME NEW c \in Classes, ReadVector(c)
      PROVE  FillInv'
  <2>1. /\ expect = "vector" /\ expect' \in {"target", "overrun"}
        /\ expect' = "overrun" => ~(curr_link < MaxLink)
        /\ UNCHANGED <<s, curr_seq, curr_link, text, line>>
    BY <1>5 DEF ReadVector
  <2>2. expect' # "overrun" => Filled'
    BY <1>2, <2>1 DEF Filled, Transitions
  <2>3. ASSUME expect' = "overrun" PROVE OverrunOnlyWhenFull'
    <3>1. curr_link \in Nat /\ curr_link >= MaxLink
      BY <1>1, <2>1, <2>3, SizeAssumption DEF TypeInv
    <3>2. curr_link = s[curr_seq].link_offset + Len(line)
      BY <1>2, <2>1 DEF Layout, Mirror, Stretch
    <3>3. 2 * Cardinality(Transitions(text)) + Len(line) >= MaxLink
      BY <1>2, <2>1, <3>1, <3>2 DEF Filled
    <3>4. 2 * Cardinality(Transitions(text')) + Len(line') >= MaxLink
      BY <2>1, <3>3
    <3>5. QED
      BY <3>4 DEF OverrunOnlyWhenFull, Transitions
  <2>4. QED
    BY <1>1, <2>2, <2>3 DEF FillInv, OverrunOnlyWhenFull
<1>6. ASSUME NEW x \in Contexts, NEW y \in Contexts,
             NEW ansx \in Answers[x] \cup {BadSid}, NEW ansy \in Answers[y] \cup {BadSid},
             Transition(x, y, ansx, ansy)
      PROVE  FillInv'
  <2>1. /\ expect = "target" /\ expect' = "signature"
        /\ s' = [s EXCEPT ![curr_seq].length = @ + 1]
        /\ UNCHANGED <<curr_seq, text>>
    BY <1>6 DEF Transition
  <2>2. curr_seq \in Index(MaxSeq)
    BY <1>2, <2>1 DEF Layout
  <2>3. s'[curr_seq].link_offset = s[curr_seq].link_offset
    BY <1>1, <2>1, <2>2 DEF TypeInv, Sequence
  <2>4. Len(line') = Len(line) + 1
    BY <1>1, <1>6 DEF Transition, HistoryType
  <2>5. Filled'
    <3>1. Len(line') <= MaxLen
      BY <1>2, <1>3, <2>1, <2>4, SizeAssumption DEF Filled
    <3>2. QED
      BY <1>2, <2>1, <2>3, <3>1 DEF Filled, Transitions
  <2>6. QED
    BY <1>1, <2>1, <2>5 DEF FillInv, OverrunOnlyWhenFull
<1>7. CASE Line
  BY <1>1, <1>7, FillLine DEF FillInv
<1>8. ASSUME Allocate \/ EndOfFile \/ SyntaxError \/ set_sequence
      PROVE  FillInv'
  <2>1. /\ expect # "overrun" /\ expect' \in {"transition", "parsed", "failed", "loaded"}
        /\ UNCHANGED <<s, curr_seq, text, line>>
    BY <1>8 DEF Allocate, EndOfFile, SyntaxError, set_sequence, Parsing
  <2>2. Filled'
    BY <1>2, <2>1 DEF Filled, Transitions
  <2>3. QED
    BY <1>1, <2>1, <2>2 DEF FillInv, OverrunOnlyWhenFull
<1>9. CASE UNCHANGED vars
  <2>1. UNCHANGED <<expect, s, curr_seq, text, line>>
    BY <1>9 DEF vars
  <2>2. expect' # "overrun" => Filled'
    BY <1>2, <2>1 DEF Filled, Transitions
  <2>3. OverrunOnlyWhenFull'
    BY <2>1 DEF FillInv, OverrunOnlyWhenFull
  <2>4. QED
    BY <1>1, <2>2, <2>3 DEF FillInv
<1>10. QED
  BY <1>4, <1>5, <1>6, <1>7, <1>8, <1>9 DEF Next

(* The doubled offsets cost half of l and no more: for every size of the   *)
(* tables, the parser runs past one only when the text has as many lines   *)
(* as s has cells, or twice the transitions of the finished lines and the  *)
(* one being read fill l.                                                  *)
THEOREM OverrunNeedsFullTables == Spec => []OverrunOnlyWhenFull
<1>1. Init => FillInv
  <2>1. SUFFICES ASSUME Init
                 PROVE  FillInv
    OBVIOUS
  <2>2. /\ expect = "start" /\ curr_seq = 0 /\ Len(text) = 0 /\ Len(line) = 0
        /\ s[0].link_offset = 0
    BY <2>1, SizeAssumption DEF Init, ZeroSequence, Index
  <2>3. Cardinality(Transitions(text)) = 0
    <3>1. Transitions(text) = {}
      BY <2>2 DEF Transitions
    <3>2. QED
      BY <3>1, FS_EmptySet
  <2>4. Filled
    BY <2>2, <2>3, SizeAssumption DEF Filled
  <2>5. QED
    BY <2>1, <2>2, <2>4, MirrorInit DEF FillInv, OverrunOnlyWhenFull
<1>2. FillInv /\ [Next]_vars => FillInv'
  BY FillStep
<1>3. FillInv => OverrunOnlyWhenFull
  BY DEF FillInv
<1>4. QED
  BY <1>1, <1>2, <1>3, PTL DEF Spec
=============================================================================
