---------------------------- MODULE MCSurfaces ----------------------------
(***************************************************************************)
(* Surfaces with a registry of two models: both are called x by their      *)
(* providers, and b's name for its own is "r/a/x", which ends like a's id.  *)
(***************************************************************************)
EXTENDS Surfaces

MCRegistered == {<<"a", "x">>, <<"b", "x">>}
MCUpstream == [m \in MCRegistered |-> IF m = <<"b", "x">> THEN <<"r", "a", "x">> ELSE <<"x1">>]
MCTools == [m \in MCRegistered |-> IF m = <<"a", "x">> THEN "yes" ELSE "unknown"]
MCPrice == [m \in MCRegistered |-> 1]
MCWanted == {<<>>, <<"x">>, <<"r", "a", "x">>}
MCDefault == <<>>
MCHarnesses == <<"h1">>
============================================================================
