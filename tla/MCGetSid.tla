------------------------------ MODULE MCGetSid ------------------------------
(***************************************************************************)
(* Runs of the parser that ask for three contexts: one is unknown, and one *)
(* is found under another SID after a load of a policy.                    *)
(***************************************************************************)
EXTENDS GetSid, TLC

ClientSymmetry == Permutations(Clients)

MCContexts == {"shadow_t", "tmp_t", "gone_t"}
MCSidsOf == [x \in MCContexts |->
               CASE x = "shadow_t" -> {7} [] x = "tmp_t" -> {8, 9} [] OTHER -> {}]
=============================================================================
