----------------------------- MODULE MCThreads ------------------------------
(***************************************************************************)
(* Small instances of PigaThreads: the access kinds and policies of        *)
(* MCPiga, cut down.  A link table has as many unused cells behind the     *)
(* links of a sequence as it has links, the layout of the parser.          *)
(***************************************************************************)
EXTENDS PigaThreads, TLC

MCPerms == {"read", "write"}

Read(o) == [ssid |-> 1, tsid |-> o, tclass |-> 5, requested |-> {"read"}]
Write(o) == [ssid |-> 1, tsid |-> o, tclass |-> 5, requested |-> {"write"}]
LinkOf(v) == [cs |-> v.ssid, cc |-> v.tsid, tclass |-> v.tclass,
              requested |-> v.requested]

(* The tables for one signature, a sequence of accesses.                   *)
Single(g) ==
  LET n == Len(g)
  IN  [s_len |-> 1, l_len |-> 2 * n,
       seq |-> [i \in Index(1) |->
                  [length |-> n, current_position |-> 0, link_offset |-> 0]],
       link |-> [j \in Index(2 * n) |-> IF j < n THEN LinkOf(g[j + 1]) ELSE ZeroLink]]

MCVectors == {Read(2), Write(3)}
Allow == [allowed |-> MCPerms, auditallow |-> {}, auditdeny |-> MCPerms,
          permissive |-> FALSE]
MCAvdOf == [v \in MCVectors |-> {Allow}]

(* For the races: a chain of three different links.                        *)
ChainVectors == {Read(2), Write(3), Read(3)}
ChainAvdOf == [v \in ChainVectors |-> {Allow}]
ChainPolicies == {Single(<<Read(2), Write(3), Read(3)>>)}

MCPolicies == {Single(<<Read(2), Write(3)>>)}

(* Tasks are never told apart, and no property names one.                  *)
Symmetry == Permutations(Tasks)
=============================================================================
