------------------------------ MODULE MCSerial ------------------------------
(***************************************************************************)
(* A small instance of PigaSerial: two signatures that share links, and    *)
(* one whose link occurs twice; a link table of the parser's layout.       *)
(***************************************************************************)
EXTENDS PigaSerial, TLC

MCPerms == {"read", "write"}

Access(o, perms) == [ssid |-> 1, tsid |-> o, tclass |-> 5, requested |-> perms]
LinkOf(v) == [cs |-> v.ssid, cc |-> v.tsid, tclass |-> v.tclass,
              requested |-> v.requested]

Secret == Access(2, {"read"})
Leak == Access(3, {"read", "write"})
MCVectors == {Secret, Leak}

(* The tables for two signatures (sequences of accesses) g and h.          *)
Tables(g, h) ==
  LET n == Len(g)  m == Len(h)
  IN  [s_len |-> 2, l_len |-> 2 * (n + m),
       seq |-> (0 :> [length |-> n, current_position |-> 0, link_offset |-> 0]
                @@ 1 :> [length |-> m, current_position |-> 0, link_offset |-> 2 * n]),
       link |-> [j \in Index(2 * (n + m)) |->
                   IF j < n THEN LinkOf(g[j + 1])
                   ELSE IF j - 2 * n \in Index(m) THEN LinkOf(h[j - 2 * n + 1])
                   ELSE ZeroLink]]

MCPolicies == {Tables(<<Secret, Access(3, {"write"}), Access(3, {"read"})>>,
                      <<Secret, Leak>>),
               Tables(<<Secret>>, <<Secret, Secret>>)}

(* The secret is always allowed; the leak may be let through by a          *)
(* permissive domain, or refused by SELinux.  All of it is audited.        *)
Decision(allowed, permissive) ==
  [allowed |-> allowed, auditallow |-> MCPerms, auditdeny |-> MCPerms,
   permissive |-> permissive]
MCAvdOf == [v \in MCVectors |->
              IF v = Secret THEN {Decision(MCPerms, FALSE)}
              ELSE {Decision({"read"}, TRUE), Decision({}, FALSE)}]
=============================================================================
