------------------------------ MODULE MCSidTab ------------------------------
(***************************************************************************)
(* A small instance of SidTab: two initial SIDs, three SIDs to give out    *)
(* and more contexts than that.  One policy has MLS and does not know one  *)
(* of the names; one gives both initial SIDs the same context; and one has *)
(* a name as an alias and lists a single initial SID.                      *)
(***************************************************************************)
EXTENDS SidTab

Self(S) == [x \in S |-> x]

Context(n, r) == [name |-> n, range |-> r, form |-> "mapped"]

Plain ==
  [names |-> Self({"user_t", "tmp_t", "shadow_t"}), ranges |-> Self({}),
   contexts |-> {Context(n, NoRange) : n \in {"user_t", "tmp_t", "shadow_t"}},
   isids |-> {<<1, Context("user_t", NoRange)>>, <<2, Context("user_t", NoRange)>>}]

WithMls ==
  [names |-> Self({"user_t", "tmp_t"}), ranges |-> Self({"s0", "s1"}),
   contexts |-> {Context("user_t", "s0"), Context("tmp_t", "s0"), Context("tmp_t", "s1")},
   isids |-> {<<1, Context("user_t", "s0")>>, <<2, Context("tmp_t", "s0")>>}]

WithAlias ==
  [names |-> [x \in {"user_t", "tmp_t"} |-> "user_t"], ranges |-> Self({}),
   contexts |-> {Context("user_t", NoRange)},
   isids |-> {<<1, Context("user_t", NoRange)>>}]

MCNames == {"user_t", "tmp_t", "shadow_t"}
MCRanges == {"s0", "s1"}
MCPolicies == {Plain, WithMls, WithAlias}
=============================================================================
