---------------------------- MODULE GetSidProofs ----------------------------
(***************************************************************************)
(* The answers of /proc/piga/getsid are never left over from before a      *)
(* question that reached the handler: for any number of clients and        *)
(* contexts.                                                               *)
(***************************************************************************)
EXTENDS GetSid, TLAPS

(* What keeps old answers out: once the handler has cleared sid for a      *)
(* client, every value in sid was stored by a lookup that the client has   *)
(* noticed; and it notices every lookup that is still to store something.  *)
Fresh(c) == sid \in {0} \cup UNION {SidsOf[x] : x \in around[c]}

SidFresh == \A c \in taken : pc[c] \in {"store", "read", "reset"} => Fresh(c)

LookupsNoticed == \A c \in taken : \A d \in Clients : Writing(d) => asked[d] \in around[c]

AskedIsContext ==
  \A c \in Clients : pc[c] \in {"copy", "clear", "store"} => asked[c] \in Contexts

(* The handler knows of every client it is working for, and of no client   *)
(* before it has copied its question.                                      *)
TakenPhases ==
  \A c \in Clients : /\ Writing(c) => c \in taken
                     /\ pc[c] \in {"idle", "copy"} => c \notin taken /\ answer[c] = 0

FreshInv == /\ TypeOK /\ AskedIsContext /\ TakenPhases
            /\ LookupsNoticed /\ SidFresh /\ AnswerNotStale

LEMMA InitFresh == Init => FreshInv
  BY DEF Init, FreshInv, TypeOK, Pcs, AskedIsContext, TakenPhases, LookupsNoticed,
         SidFresh, AnswerNotStale, Writing

LEMMA NextFresh == FreshInv /\ [Next]_vars => FreshInv'
<1> SUFFICES ASSUME FreshInv, [Next]_vars PROVE FreshInv'
  OBVIOUS
<1> USE SidAssumption, NoContextAssumption
<1>1. CASE UNCHANGED vars
  BY <1>1 DEF vars, FreshInv, TypeOK, AskedIsContext, TakenPhases, LookupsNoticed,
              SidFresh, Fresh, AnswerNotStale, Writing
<1>2. ASSUME NEW c \in Clients, NEW x \in Contexts, Ask(c, x) PROVE FreshInv'
  <2>1. TypeOK' /\ AskedIsContext' /\ TakenPhases'
    BY <1>2 DEF Ask, Goto, FreshInv, TypeOK, Pcs, AskedIsContext, TakenPhases, Writing
  <2>2. LookupsNoticed'
    BY <1>2 DEF Ask, Goto, FreshInv, TypeOK, LookupsNoticed, Writing
  <2>3. SidFresh' /\ AnswerNotStale'
    BY <1>2 DEF Ask, Goto, FreshInv, TypeOK, SidFresh, Fresh, AnswerNotStale
  <2> QED  BY <2>1, <2>2, <2>3 DEF FreshInv
<1>3. ASSUME NEW c \in Clients, CopyFails(c) PROVE FreshInv'
  <2>1. TypeOK' /\ AskedIsContext' /\ TakenPhases'
    BY <1>3 DEF CopyFails, Goto, FreshInv, TypeOK, Pcs, AskedIsContext, TakenPhases,
                Writing
  <2>2. LookupsNoticed'
    BY <1>3 DEF CopyFails, Goto, FreshInv, TypeOK, LookupsNoticed, Writing
  <2>3. SidFresh' /\ AnswerNotStale'
    BY <1>3 DEF CopyFails, Goto, FreshInv, TypeOK, TakenPhases, SidFresh, Fresh,
                AnswerNotStale
  <2> QED  BY <2>1, <2>2, <2>3 DEF FreshInv
<1>4. ASSUME NEW c \in Clients, Copy(c) PROVE FreshInv'
  <2>1. asked[c] \in Contexts /\ LookedUp(asked[c]) \subseteq Contexts
    BY <1>4 DEF Copy, LookedUp, FreshInv, AskedIsContext, Writing
  <2>2. TypeOK' /\ AskedIsContext' /\ TakenPhases'
    BY <1>4, <2>1 DEF Copy, Goto, FreshInv, TypeOK, Pcs, AskedIsContext, TakenPhases,
                      Writing
  <2>3. LookupsNoticed'
    BY <1>4 DEF Copy, Goto, FreshInv, TypeOK, LookupsNoticed, Writing, LookedUp
  <2>4. \A d \in taken : around[d] \subseteq around'[d] \/ d = c
    BY <1>4 DEF Copy, FreshInv, TypeOK
  <2>5. c \notin taken
    BY <1>4 DEF Copy, FreshInv, TakenPhases
  <2>6. SidFresh'
    BY <1>4, <2>4, <2>5 DEF Copy, Goto, FreshInv, TypeOK, SidFresh, Fresh
  <2>7. AnswerNotStale'
    <3>1. answer[c] = 0
      BY <1>4 DEF Copy, FreshInv, TakenPhases
    <3> QED  BY <1>4, <2>4, <2>5, <3>1 DEF Copy, FreshInv, TypeOK, AnswerNotStale
  <2> QED  BY <2>2, <2>3, <2>6, <2>7 DEF FreshInv
<1>5. ASSUME NEW c \in Clients, Clear(c) PROVE FreshInv'
  <2>1. TypeOK' /\ AskedIsContext' /\ TakenPhases' /\ LookupsNoticed' /\ AnswerNotStale'
    BY <1>5 DEF Clear, Goto, FreshInv, TypeOK, Pcs, AskedIsContext, TakenPhases, Writing,
                LookupsNoticed, AnswerNotStale
  <2>2. SidFresh'
    BY <1>5 DEF Clear, SidFresh, Fresh
  <2> QED  BY <2>1, <2>2 DEF FreshInv
<1>6. ASSUME NEW c \in Clients, piga_proc_getsid_write(c) PROVE FreshInv'
  <2>1. asked[c] \in Contexts
    BY <1>6 DEF piga_proc_getsid_write, FreshInv, AskedIsContext
  <2>2. TypeOK' /\ AskedIsContext' /\ TakenPhases' /\ LookupsNoticed' /\ AnswerNotStale'
    BY <1>6, <2>1 DEF piga_proc_getsid_write, Goto, FreshInv, TypeOK, Pcs,
                      AskedIsContext, TakenPhases, Writing, LookupsNoticed, AnswerNotStale
  <2>3. ASSUME NEW d \in taken PROVE Fresh(d)'
    <3>1. asked[c] \in around[d]
      BY <1>6, <2>3 DEF piga_proc_getsid_write, FreshInv, LookupsNoticed, Writing
    <3> QED  BY <1>6, <3>1 DEF piga_proc_getsid_write, Fresh
  <2>4. SidFresh'
    BY <1>6, <2>3 DEF piga_proc_getsid_write, SidFresh
  <2> QED  BY <2>2, <2>4 DEF FreshInv
<1>7. ASSUME NEW c \in Clients, Forget(c), sid' \in {sid, 0} PROVE FreshInv'
  <2>1. TypeOK' /\ AskedIsContext' /\ TakenPhases' /\ LookupsNoticed' /\ AnswerNotStale'
    BY <1>7 DEF Forget, Goto, FreshInv, TypeOK, Pcs, AskedIsContext, TakenPhases, Writing,
                LookupsNoticed, AnswerNotStale
  <2>2. SidFresh'
    BY <1>7 DEF Forget, Goto, FreshInv, TypeOK, SidFresh, Fresh
  <2> QED  BY <2>1, <2>2 DEF FreshInv
<1>8. ASSUME NEW c \in Clients, piga_proc_getsid_read(c) PROVE FreshInv'
  <2>1. TypeOK' /\ AskedIsContext' /\ TakenPhases' /\ LookupsNoticed' /\ SidFresh'
    BY <1>8 DEF piga_proc_getsid_read, Goto, FreshInv, TypeOK, Pcs, Fresh,
                AskedIsContext, TakenPhases, Writing, LookupsNoticed, SidFresh
  <2>2. AnswerNotStale'
    BY <1>8 DEF piga_proc_getsid_read, FreshInv, TypeOK, SidFresh, Fresh,
                AnswerNotStale
  <2> QED  BY <2>1, <2>2 DEF FreshInv
<1>9. ASSUME NEW c \in Clients, GiveUp(c) \/ Reset(c) PROVE FreshInv'
  BY <1>7, <1>9 DEF GiveUp, Reset
<1> QED
  BY <1>1, <1>2, <1>3, <1>4, <1>5, <1>6, <1>8, <1>9 DEF Next

(* A client whose question reached the handler of /proc/piga/getsid reads  *)
(* 0 or the SID of a context that was being looked up after that, whatever *)
(* other clients do, wherever they give up and whichever writes fail.      *)
THEOREM AnswersNeverStale == Spec => []AnswerNotStale
<1>1. FreshInv => AnswerNotStale
  BY DEF FreshInv
<1> QED
  BY <1>1, InitFresh, NextFresh, PTL DEF Spec
=============================================================================
