------------------------------ MODULE FreshTags ------------------------------
(***************************************************************************)
(* What makeStructsUnique, makeUnionsUnique and makeEnumsUnique of         *)
(* csym/parse_fixups.go promise together, without saying how a tag is      *)
(* found: once the types are known, some of those that share their tag are *)
(* given a tag that nothing was given or carries, one at a time and each   *)
(* at most once, and when that is over no two types carry the same tag.    *)
(* A tag is here a pair of a kind and a tag.                               *)
(***************************************************************************)
VARIABLES
  given,   (* type |-> the tag of the symbol file; empty until it is read *)
  carried, (* type |-> the tag it carries now                             *)
  over     (* the renaming is over                                        *)

tagVars == <<given, carried, over>>

TagsIn(f) == {f[t] : t \in DOMAIN f}

Start == given = <<>> /\ carried' = given' /\ over' = FALSE

Rename(t) ==
  /\ ~ over /\ carried[t] = given[t]
  /\ \E u \in DOMAIN given \ {t} : given[u] = given[t]
  /\ carried'[t] \notin TagsIn(given) \cup TagsIn(carried)
  /\ carried' = [carried EXCEPT ![t] = carried'[t]]
  /\ UNCHANGED <<given, over>>

End ==
  /\ \A t, u \in DOMAIN carried : carried[t] = carried[u] => t = u
  /\ over' = TRUE /\ UNCHANGED <<given, carried>>

Init == given = <<>> /\ carried = <<>> /\ over = FALSE
Next == Start \/ (\E t \in DOMAIN given : Rename(t)) \/ End

Spec == Init /\ [][Next]_tagVars
=============================================================================
