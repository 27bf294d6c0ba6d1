------------------------------- MODULE MCPiga -------------------------------
(***************************************************************************)
(* A small instance of Piga.  Subject 1 can read (class 5) a secret 2,     *)
(* write it to a temporary file 3 and read that file: the shape of the     *)
(* sample signatures in pol/.  Policy A holds the confidentiality          *)
(* signature and a shorter one that shares links with it; policy B one     *)
(* signature with the same link twice.  The link tables have the layout    *)
(* the parser produces: after the links of a sequence as many unused cells.*)
(***************************************************************************)
EXTENDS Piga

MCPerms == {"read", "write"}

Read(s, o) == [ssid |-> s, tsid |-> o, tclass |-> 5, requested |-> {"read"}]
Write(s, o) == [ssid |-> s, tsid |-> o, tclass |-> 5, requested |-> {"write"}]
ReadWrite(s, o) == [ssid |-> s, tsid |-> o, tclass |-> 5,
                    requested |-> {"read", "write"}]
ReadDir(s, o) == [Read(s, o) EXCEPT !.tclass = 6]

LinkOf(v) == [cs |-> v.ssid, cc |-> v.tsid, tclass |-> v.tclass,
              requested |-> v.requested]

MCVectors == {Read(1, 2), Write(1, 3), ReadWrite(1, 3), ReadDir(1, 2)}

(* The tables for two signatures (sequences of vectors) g and h.           *)
Tables(g, h) ==
  LET n == Len(g)  m == Len(h)
  IN  [s_len |-> 2, l_len |-> 2 * (n + m),
       seq |-> [i \in 0 .. 1 |->
                  IF i = 0
                  THEN [length |-> n, current_position |-> 0, link_offset |-> 0]
                  ELSE [length |-> m, current_position |-> 0, link_offset |-> 2 * n]],
       link |-> [j \in 0 .. (2 * (n + m) - 1) |->
                   IF j < n THEN LinkOf(g[j + 1])
                   ELSE IF j >= 2 * n /\ j < 2 * n + m THEN LinkOf(h[j - 2 * n + 1])
                   ELSE ZeroLink]]

PolicyA == Tables(<<Read(1, 2), Write(1, 3), Read(1, 3)>>,
                  <<Read(1, 2), Read(1, 3)>>)
PolicyB == Tables(<<Read(1, 2), Read(1, 2)>>, <<Write(1, 3)>>)

(* SELinux allows everything that a signature mentions and audits it, and  *)
(* refuses nothing silently; the directory access is allowed or, in a      *)
(* permissive domain, refused and let through without an audit rule.       *)
MCAvdOf ==
  [v \in MCVectors |->
     IF v = ReadDir(1, 2)
     THEN {[allowed |-> {"read"}, auditallow |-> {}, auditdeny |-> {}, permissive |-> FALSE],
           [allowed |-> {}, auditallow |-> {}, auditdeny |-> {}, permissive |-> TRUE],
           [allowed |-> {}, auditallow |-> {}, auditdeny |-> MCPerms, permissive |-> FALSE]}
     ELSE {[allowed |-> MCPerms, auditallow |-> MCPerms, auditdeny |-> MCPerms, permissive |-> FALSE],
           [allowed |-> {"read"}, auditallow |-> MCPerms, auditdeny |-> MCPerms, permissive |-> TRUE]}]

MCPolicies == {PolicyA, PolicyB}
=============================================================================
