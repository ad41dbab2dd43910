------------------------------ MODULE MapSpec -------------------------------
(***************************************************************************)
(* What map.h promises: a map from keys to data, and the map_result that   *)
(* the last call has returned.                                             *)
(***************************************************************************)
CONSTANTS
  Keys,
  Values,  (* the pointers that callers store                              *)
  NULL

VARIABLES
  contents,  (* the data of each key, NULL for a key that is not there     *)
  result

vars == <<contents, result>>

ResultOf(k) == [found |-> contents[k] # NULL, data |-> contents[k]]

Init ==
  /\ contents = [k \in Keys |-> NULL]
  /\ result = [found |-> FALSE, data |-> NULL]

Set(k, v) ==
  /\ contents' = [contents EXCEPT ![k] = v]
  /\ UNCHANGED result

Get(k) ==
  /\ result' = ResultOf(k)
  /\ UNCHANGED contents

\* Data that was freed is not returned.
Delete(k, free_it) ==
  /\ contents' = [contents EXCEPT ![k] = NULL]
  /\ result' = IF free_it THEN [ResultOf(k) EXCEPT !.data = NULL]
                          ELSE ResultOf(k)

Next ==
  \E k \in Keys :
    \/ \E v \in Values : Set(k, v)
    \/ Get(k)
    \/ \E free_it \in BOOLEAN : Delete(k, free_it)

Spec == Init /\ [][Next]_vars
=============================================================================
