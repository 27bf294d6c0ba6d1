------------------------------- MODULE GetSid -------------------------------
(***************************************************************************)
(* /proc/piga/getsid.  A client (a run of the policy parser) writes a      *)
(* context to the file and reads the SID back; the write handler leaves    *)
(* the answer in one global variable that the read handler prints and      *)
(* clears.  Nothing ties the two calls together, and nothing keeps another *)
(* client out between them; nor does a client look whether its write went  *)
(* through before it reads.                                                *)
(***************************************************************************)
EXTENDS Naturals, FiniteSets

CONSTANTS
  Clients,
  Contexts,  \* the contexts asked for
  SidsOf,    \* the SIDs a lookup may find, under whatever policy is loaded
  NoContext

ASSUME SidAssumption == SidsOf \in [Contexts -> SUBSET Nat]
ASSUME NoContextAssumption == NoContext \notin Contexts

VARIABLES
  sid,     \* the global of procfs.c
  pc,      \* per client: the next step of string_to_sid
  asked,   \* per client: the context it asks for
  answer,  \* per client: the answer it has read, until the question is over
  taken,   \* history: the clients whose question the handler has got
  around   \* history, per client: the contexts that the handler was still
           \* looking up, for it or for another one, after it had got that

vars == <<sid, pc, asked, answer, taken, around>>

Pcs == {"idle", "copy", "clear", "store", "read", "reset"}

TypeOK ==
  /\ sid \in Nat
  /\ pc \in [Clients -> Pcs]
  /\ asked \in [Clients -> Contexts \cup {NoContext}]
  /\ answer \in [Clients -> Nat]
  /\ taken \subseteq Clients
  /\ around \in [Clients -> SUBSET Contexts]

Init ==
  /\ sid = 0
  /\ pc = [c \in Clients |-> "idle"]
  /\ asked = [c \in Clients |-> NoContext]
  /\ answer = [c \in Clients |-> 0]
  /\ taken = {}
  /\ around = [c \in Clients |-> {}]

Writing(d) == pc[d] \in {"clear", "store"}

Goto(c, at) == pc' = [pc EXCEPT ![c] = at]

(* The client is done with its question.                                   *)
Forget(c) ==
  /\ Goto(c, "idle")
  /\ asked' = [asked EXCEPT ![c] = NoContext]
  /\ answer' = [answer EXCEPT ![c] = 0]
  /\ taken' = taken \ {c}
  /\ around' = [around EXCEPT ![c] = {}]

(* string_to_sid for a context that is not in the cache: the file opens    *)
(* and the write begins.  (If it does not open, nothing happens.)          *)
Ask(c, x) ==
  /\ pc[c] = "idle"
  /\ Goto(c, "copy")
  /\ asked' = [asked EXCEPT ![c] = x]
  /\ UNCHANGED <<sid, answer, taken, around>>

(* The write handler cannot copy the context and returns -EFAULT; sid is   *)
(* as it was, and the client goes on to read.                              *)
CopyFails(c) ==
  /\ pc[c] = "copy"
  /\ Goto(c, "read")
  /\ UNCHANGED <<sid, asked, answer, taken, around>>

(* The contexts that are being looked up when the question x arrives.      *)
LookedUp(x) == {x} \cup {asked[e] : e \in {w \in Clients : Writing(w)}}

(* copy_from_user succeeds.                                                *)
Copy(c) ==
  /\ pc[c] = "copy"
  /\ Goto(c, "clear")
  /\ taken' = taken \cup {c}
  /\ around' = [d \in Clients |-> IF d = c THEN LookedUp(asked[c])
                                  ELSE IF d \in taken THEN around[d] \cup {asked[c]}
                                  ELSE around[d]]
  /\ UNCHANGED <<sid, asked, answer>>

ClearOrFail(c) ==
  /\ pc[c] = "clear"
  /\ \/ sid' = 0 /\ Goto(c, "store")
     \/ UNCHANGED sid /\ Goto(c, "read")
  /\ UNCHANGED <<asked, answer, taken, around>>

(* security_context_to_sid begins with *sid = SECSID_NULL.                 *)
Clear(c) ==
  /\ pc[c] = "clear"
  /\ sid' = 0
  /\ Goto(c, "store")
  /\ UNCHANGED <<asked, answer, taken, around>>

(* ... and ends with the SID, or fails: an unknown context or no memory.   *)
(* Then the write handler sets sid to 0, or finds it so.                   *)
piga_proc_getsid_write(c) ==
  /\ pc[c] = "store"
  /\ sid' \in SidsOf[asked[c]] \cup {0}
  /\ Goto(c, "read")
  /\ UNCHANGED <<asked, answer, taken, around>>

(* The client cannot open the file again and gives up, or its read fails   *)
(* before it comes to the handler; the answer stays.                       *)
GiveUp(c) ==
  /\ pc[c] = "read"
  /\ Forget(c)
  /\ UNCHANGED sid

(* The read handler prints the answer ...                                  *)
piga_proc_getsid_read(c) ==
  /\ pc[c] = "read"
  /\ answer' = [answer EXCEPT ![c] = sid]
  /\ Goto(c, "reset")
  /\ UNCHANGED <<sid, asked, taken, around>>

(* ... and clears it.                                                      *)
Reset(c) ==
  /\ pc[c] = "reset"
  /\ sid' = 0
  /\ Forget(c)

Next ==
  \E c \in Clients :
    \/ \E x \in Contexts : Ask(c, x)
    \/ CopyFails(c)
    \/ Copy(c)
    \/ Clear(c)
    \/ piga_proc_getsid_write(c)
    \/ GiveUp(c)
    \/ piga_proc_getsid_read(c)
    \/ Reset(c)

Spec == Init /\ [][Next]_vars

-----------------------------------------------------------------------------
(* Properties.                                                             *)

(* A client whose question reached the handler gets no answer from before: *)
(* what it reads from getsid is 0 or the SID of a context that the handler *)
(* was looking up, for it or for another client, after it had got the      *)
(* question, although clients that give up leave their answers in the      *)
(* global and clients whose writes fail read and clear it.  (Such a client *)
(* reads whatever is there.)                                               *)
AnswerNotStale ==
  \A c \in taken : answer[c] \in {0} \cup UNION {SidsOf[x] : x \in around[c]}

(* string_to_sid reads "the answer for" the context it has written: once   *)
(* the handler got that context, an answer other than the error 0 is the   *)
(* SID of it.                                                              *)
AnswerIsMine ==
  \A c \in taken : answer[c] # 0 => answer[c] \in SidsOf[asked[c]]
=============================================================================
