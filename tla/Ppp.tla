-------------------------------- MODULE Ppp ---------------------------------
(***************************************************************************)
(* The PIGA policy parser (ppp/): the reductions of the yacc grammar write *)
(* the two tables, string_to_sid asks /proc/piga/getsid for SIDs, and      *)
(* set_sequence hands the tables to the kernel.                            *)
(*                                                                         *)
(* The text of the policy is not fixed: every reduction takes what it      *)
(* reads from the sets below, in the order the grammar prescribes.  s and  *)
(* l are malloc'ed and never cleared; blocks of their size come from mmap  *)
(* and so are zero.                                                        *)
(***************************************************************************)
EXTENDS PigaTables, Sequences, FiniteSets

CONSTANTS
  Contexts,  \* security contexts a policy may name
  Answers,   \* what /proc/piga/getsid may answer for each: a SID, 0 for an
             \* error, or what other clients leave there (see GetSid)
  Classes,   \* class names
  TclassOf,  \* string_to_security_class: their numbers, 0 for an unknown one
  Words,     \* permission names
  AvPerm,    \* string_to_av_perm: the bit of a word in a class, or no bit
  BadSid,    \* (unsigned int) -1
  AfterL,    \* what the memory behind l reads as
  MaxSeq,    \* cells of s, 400000 in main.cpp
  MaxLink,   \* cells of l, 10000000 in main.cpp
  MaxLen     \* bound on the transitions of one signature

ASSUME SidAssumption == Answers \in [Contexts -> SUBSET Nat] /\ BadSid \in Nat
ASSUME NoAnswerIsBadSid == \A x \in Contexts : BadSid \notin Answers[x]
ASSUME AfterAssumption == AfterL \in Link
ASSUME ClassAssumption == /\ TclassOf \in [Classes -> Nat]
                          /\ AvPerm \in [Classes -> [Words -> SUBSET Perms]]
ASSUME SizeAssumption == /\ MaxSeq \in Nat \ {0}
                         /\ MaxLink \in Nat \ {0}
                         /\ MaxLen \in Nat \ {0}

VARIABLES
  expect,           \* what the grammar waits for, or how the program ended
  s, l,             \* the tables
  curr_seq, curr_link,
  request,          \* the value of the nonterminal request, a word or none
  request_list,     \* the words kept for the vector being read
  invalid_context,
  sid_map,          \* the contexts resolved so far, with their SIDs
  loaded, ignored,  \* the two counters main() prints
  handed,           \* the policies sys_piga_add_sequence has accepted
  item, line, text  \* history: the transition and the signature being read,
                    \* and the signatures read

vars == <<expect, s, l, curr_seq, curr_link, request, request_list,
          invalid_context, sid_map, loaded, ignored, handed, item, line, text>>

Parsing == {"transition", "vector", "target", "signature", "line"}

ZeroSequence == [length |-> 0, current_position |-> 0, link_offset |-> 0]

NoItem == [class |-> {}, first |-> {}, words |-> {}]

Init ==
  /\ expect = "start"
  /\ s = [i \in Index(MaxSeq) |-> ZeroSequence]
  /\ l = [j \in Index(MaxLink) |-> ZeroLink]
  /\ curr_seq = 0 /\ curr_link = 0
  /\ request = {} /\ request_list = {}
  /\ invalid_context = FALSE
  /\ sid_map = [x \in {} |-> 0]
  /\ loaded = 0 /\ ignored = 0
  /\ handed = {}
  /\ item = NoItem /\ line = <<>> /\ text = <<>>

(* main() up to yyparse.                                                   *)
Allocate ==
  /\ expect = "start"
  /\ expect' \in {"transition", "failed"}
  /\ UNCHANGED <<s, l, curr_seq, curr_link, request, request_list,
                 invalid_context, sid_map, loaded, ignored, handed, item, line, text>>

-----------------------------------------------------------------------------
CachedSidUnchecked(x, map, ans) ==
  IF x \in DOMAIN map
  THEN [res |-> map[x], map |-> map, invalid |-> FALSE]
  ELSE IF ans = BadSid
  THEN [res |-> BadSid, map |-> map, invalid |-> TRUE]
  ELSE [res |-> ans,
        map |-> [z \in DOMAIN map \cup {x} |-> IF z = x THEN ans ELSE map[z]],
        invalid |-> ans = 0]

(* string_to_sid with the cache map, when /proc/piga/getsid answers ans;   *)
(* BadSid says that one of the two opens fails.  The cache keeps every     *)
(* answer, the error 0 too, but not a question that failed.                *)
string_to_sid(x, map, ans) ==
  IF x \in DOMAIN map
  THEN [res |-> map[x], map |-> map, invalid |-> map[x] = 0]
  ELSE IF ans = BadSid
  THEN [res |-> BadSid, map |-> map, invalid |-> TRUE]
  ELSE [res |-> ans,
        map |-> [z \in DOMAIN map \cup {x} |-> IF z = x THEN ans ELSE map[z]],
        invalid |-> ans = 0]

(* request: WORD.  It starts a transition: at the beginning of a line, or  *)
(* after a ';'.                                                            *)
Request(w) ==
  /\ expect \in {"transition", "signature", "line"}
  /\ Len(line) < MaxLen
  /\ expect' = "vector"
  /\ request' = {w}
  /\ request_list' = request_list \cup {w}
  /\ item' = [item EXCEPT !.first = {w}, !.words = {w}]
  /\ UNCHANGED <<s, l, curr_seq, curr_link, invalid_context, sid_map, loaded,
                 ignored, handed, line, text>>

(* request: request WORD.  The action keeps $1, which is the value of the  *)
(* shorter request and so the first word once more, and not the new one.   *)
RequestMore(w) ==
  /\ expect = "vector"
  /\ request_list' = request_list \cup request
  /\ item' = [item EXCEPT !.words = @ \cup {w}]
  /\ UNCHANGED <<expect, request, s, l, curr_seq, curr_link, invalid_context,
                 sid_map, loaded, ignored, handed, line, text>>

(* The permission bits of the words kept, or'ed together.                  *)
Requested(c) == UNION {AvPerm[c][w] : w \in request_list}

ReadVectorKeepsList(c) ==
  /\ expect = "vector"
  /\ item' = [item EXCEPT !.class = {c}]
  /\ IF curr_link < MaxLink
     THEN /\ expect' = "target"
          /\ l' = [l EXCEPT ![curr_link].tclass = TclassOf[c],
                            ![curr_link].requested = Requested(c)]
     ELSE expect' = "overrun" /\ UNCHANGED l
  /\ request' = {}
  /\ UNCHANGED <<s, curr_seq, curr_link, request_list, invalid_context, sid_map,
                 loaded, ignored, handed, line, text>>

(* vector: WORD '{' request '}'.  The first write to l[curr_link].         *)
ReadVector(c) ==
  /\ expect = "vector"
  /\ item' = [item EXCEPT !.class = {c}]
  /\ IF curr_link < MaxLink
     THEN /\ expect' = "target"
          /\ l' = [l EXCEPT ![curr_link].tclass = TclassOf[c],
                            ![curr_link].requested = Requested(c)]
          /\ request_list' = {}
     ELSE expect' = "overrun" /\ UNCHANGED <<l, request_list>>
  /\ request' = {}
  /\ UNCHANGED <<s, curr_seq, curr_link, invalid_context, sid_map, loaded,
                 ignored, handed, line, text>>

(* transition: SID AVPERMSTART vector AVPERMEND SID, and piga_seq_add_link.*)
Transition(x, y, ansx, ansy) ==
  LET cs == string_to_sid(x, sid_map, ansx)
      cc == string_to_sid(y, cs.map, ansy)
  IN  /\ expect = "target"
      /\ expect' = "signature"
      /\ l' = [l EXCEPT ![curr_link].cs = cs.res, ![curr_link].cc = cc.res]
      /\ s' = [s EXCEPT ![curr_seq].length = @ + 1]
      /\ curr_link' = curr_link + 1
      /\ sid_map' = cc.map
      /\ invalid_context' = (invalid_context \/ cs.invalid \/ cc.invalid)
      /\ line' = Append(line, [from |-> x, to |-> y, class |-> item.class,
                               first |-> item.first, words |-> item.words])
      /\ item' = NoItem
      /\ UNCHANGED <<curr_seq, request, request_list, loaded, ignored, handed, text>>

NextOffsetAddsOffset == curr_link + s[curr_seq].link_offset + s[curr_seq].length

(* Where the links of the next sequence will start: curr_link has already  *)
(* moved past every link of this one, and is moved by its length again.    *)
NextOffset == curr_link + s[curr_seq].length

(* Both forms of a line.  The indices move on whether the line counts as   *)
(* loaded or as ignored.                                                   *)
Line ==
  /\ expect = "signature"
  /\ ignored' = ignored + (IF invalid_context THEN 1 ELSE 0)
  /\ loaded' = loaded + (IF invalid_context THEN 0 ELSE 1)
  /\ invalid_context' = FALSE
  /\ curr_link' = NextOffset
  /\ curr_seq' = curr_seq + 1
  /\ IF curr_seq + 1 < MaxSeq
     THEN /\ expect' = "line"
          /\ s' = [s EXCEPT ![curr_seq + 1].link_offset = NextOffset]
     ELSE expect' = "overrun" /\ UNCHANGED s
  /\ text' = Append(text, line) /\ line' = <<>>
  /\ UNCHANGED <<l, request, request_list, sid_map, handed, item>>

EndOfFile ==
  /\ expect = "line"
  /\ expect' = "parsed"
  /\ UNCHANGED <<s, l, curr_seq, curr_link, request, request_list,
                 invalid_context, sid_map, loaded, ignored, handed, item, line, text>>

(* yyparse fails on a text that is no policy; main() returns.              *)
SyntaxError ==
  /\ expect \in Parsing
  /\ expect' = "failed"
  /\ UNCHANGED <<s, l, curr_seq, curr_link, request, request_list,
                 invalid_context, sid_map, loaded, ignored, handed, item, line, text>>

PolicyWithNext ==
  [s_len |-> curr_seq + 1, l_len |-> curr_link,
   seq |-> [i \in Index(curr_seq + 1) |-> s[i]],
   link |-> [j \in Index(curr_link) |-> IF j < MaxLink THEN l[j] ELSE AfterL]]

(* The tables as the system call copies them, which after the last         *)
(* doubling of curr_link may go on behind the end of l.                    *)
Policy ==
  [s_len |-> curr_seq, l_len |-> curr_link,
   seq |-> [i \in Index(curr_seq) |-> s[i]],
   link |-> [j \in Index(curr_link) |-> IF j < MaxLink THEN l[j] ELSE AfterL]]

(* The system call may refuse (no memory, or unmapped cells behind l).     *)
set_sequence ==
  /\ expect = "parsed"
  /\ \/ expect' = "loaded" /\ handed' = handed \cup {Policy}
     \/ expect' = "failed" /\ UNCHANGED handed
  /\ UNCHANGED <<s, l, curr_seq, curr_link, request, request_list,
                 invalid_context, sid_map, loaded, ignored, item, line, text>>

Next ==
  \/ Allocate
  \/ \E w \in Words : Request(w) \/ RequestMore(w)
  \/ \E c \in Classes : ReadVector(c)
  \/ \E x, y \in Contexts :
       \E ansx \in Answers[x] \cup {BadSid}, ansy \in Answers[y] \cup {BadSid} :
         Transition(x, y, ansx, ansy)
  \/ Line
  \/ EndOfFile
  \/ SyntaxError
  \/ set_sequence

Spec == Init /\ [][Next]_vars

-----------------------------------------------------------------------------
(* Properties.                                                             *)

(* Context x stands for r: the answer to it in map, or BadSid for a        *)
(* question that failed.                                                   *)
Resolved(x, r, map) ==
  \/ r = BadSid
  \/ x \in DOMAIN map /\ r = map[x] /\ r \in Answers[x]

(* The link that transition tr of the text stands for; of the permissions, *)
(* it has the first.                                                       *)
Translates(lk, tr, map) ==
  /\ Resolved(tr.from, lk.cs, map)
  /\ Resolved(tr.to, lk.cc, map)
  /\ \E c \in tr.class :
       /\ lk.tclass = TclassOf[c]
       /\ lk.requested = UNION {AvPerm[c][w] : w \in tr.first}

(* Has the sequence a link that no access can match?                       *)
Broken(i) ==
  \E a \in Index(s[i].length) :
    LET lk == l[s[i].link_offset + a]
    IN  {lk.cs, lk.cc} \cap {0, BadSid} # {}

(* The tables always hold the signatures read so far, link by link, in     *)
(* spite of the doubled offsets: no line writes over another one, nothing  *)
(* of one vector or line leaks into the next, and a context has one answer *)
(* in all of them.  Only the first permission of each vector is kept.      *)
TableMirrorsFile ==
  expect # "overrun" =>
    \A n \in 1 .. Len(text) :
      /\ s[n - 1].length = Len(text[n])
      /\ \A a \in 1 .. Len(text[n]) :
           Translates(l[s[n - 1].link_offset + a - 1], text[n][a], sid_map)

(* The two numbers main() prints are right: ignored lines are exactly the  *)
(* sequences with a context that SELinux did not resolve, also when the    *)
(* answer came from the cache; such a sequence can never complete.         *)
CountsExact ==
  /\ ignored = Cardinality({i \in Index(Len(text)) : Broken(i)})
  /\ loaded + ignored = Len(text)

(* Whatever the parser hands to sys_piga_add_sequence is a policy the      *)
(* kernel module can work with: it relies on this and does not check it.   *)
HandedWellFormed == \A p \in handed : WellFormed(p)

(* The tables overrun only for texts that are too long: as many lines as   *)
(* s has cells (one cell is needed behind the last line), or so many       *)
(* transitions that, doubled for the lines before, they fill l.            *)
OverrunOnlyWhenFull ==
  expect = "overrun" =>
    \/ Len(text) = MaxSeq
    \/ LET read == {r \in (1 .. Len(text)) \X (1 .. MaxLen) : r[2] <= Len(text[r[1]])}
       IN  2 * Cardinality(read) + Len(line) >= MaxLink

(* A link requests every permission its vector lists: "Do the stuff with   *)
(* the temporary request list".                                            *)
AllPermissionsRequested ==
  expect # "overrun" =>
    \A n \in 1 .. Len(text) : \A a \in 1 .. Len(text[n]) :
      \E c \in text[n][a].class :
        l[s[n - 1].link_offset + a - 1].requested =
          UNION {AvPerm[c][w] : w \in text[n][a].words}
=============================================================================
