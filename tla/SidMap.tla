------------------------------- MODULE SidMap -------------------------------
(***************************************************************************)
(* What SELinux promises of SIDs, and PIGA builds its tables on: a context *)
(* that has no SID gets a new one, and a SID above the initial ones stays  *)
(* with its context.  Only the load of a policy changes anything that is   *)
(* there: it may give the initial SIDs other contexts, and rewrites the    *)
(* context of every other SID as far as Becomes allows.                    *)
(***************************************************************************)
EXTENDS Integers

CONSTANTS
  Contexts, Sids,
  Last,             \* the last initial SID
  Becomes           \* the pairs of contexts where a load may turn one into
                    \* the other

VARIABLES
  known,            \* the pairs of SID and context
  ready             \* a load is about to take effect

vars == <<known, ready>>

OneContextPerSid(k) == \A m, n \in k : m[1] = n[1] => m = n

Init == OneContextPerSid(known) /\ ready = FALSE

Assign(s, c) ==
  /\ \A n \in known : n[1] # s /\ n[2] # c
  /\ known' = known \cup {<<s, c>>}
  /\ UNCHANGED ready

(* A load comes to the point where it may take effect, or is given up.     *)
Prepare ==
  /\ ready' = ~ready
  /\ UNCHANGED known

Reload ==
  /\ ready /\ ready' = FALSE
  /\ OneContextPerSid(known')
  /\ \A n \in known : n[1] > Last =>
       \E m \in known' : m[1] = n[1] /\ <<n[2], m[2]>> \in Becomes
  /\ \A m \in known' : m[1] > Last => \E n \in known : n[1] = m[1]

Next ==
  \/ \E s \in Sids : \E c \in Contexts : Assign(s, c)
  \/ Prepare
  \/ Reload

Spec == Init /\ [][Next]_vars
=============================================================================
