---------------------------- MODULE MCTokenFetch ----------------------------
(***************************************************************************)
(* Instances of TokenFetch: two regions, one set of temporary instance     *)
(* role credentials, and the tokens OpenBao may return.                    *)
(***************************************************************************)
EXTENDS TokenFetch

MCRegions == {"eu-west-2", "us-east-1"}
MCCreds == {[key |-> "role", session |-> TRUE]}
TwoTokens == {"t1", "t2"}
OneToken == {"t1"}
=============================================================================
