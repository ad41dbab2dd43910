----------------------------- MODULE MCRegistry -----------------------------
(***************************************************************************)
(* The instance of Registry that TLC checks: two users, one profile, and   *)
(* two addresses whose lengths differ, so that a text may be shorter than  *)
(* the one before by a character or by two.                                *)
(***************************************************************************)
EXTENDS Registry, TLC

MCChars == Digits \union {TAB, ".", "b", "c", "e", "o"}
MCUserIDs == <<<<"c", "e">>, <<"b", "o">>>>
MCProfiles == {[age |-> <<"2", "0">>, gpa |-> <<"4", ".", "0">>]}
MCAddrs == {<<"1", ".", "1">>, <<"1", "1", ".", "1">>}

\* The starters differ in nothing.
Symmetry == Permutations(Starters)
=============================================================================
