------------------------------ MODULE MCCutover -------------------------------
(***************************************************************************)
(* Small instances of LegacyCutover.                                       *)
(***************************************************************************)
EXTENDS LegacyCutover, TLC

CONSTANTS o, n1, n2, page, other, email, telegram

\* An old and a new ID of one posting, and an unrelated posting.
Moved == o :> page @@ n1 :> page @@ n2 :> other

\* Two new IDs share the page of the old one.
Shared == o :> page @@ n1 :> page @@ n2 :> page

\* Materials are only compared with each other.
SameMaterials == Permutations(Materials)

SentByMail == {<<o, email>>, <<n2, email>>}
OldSentByMail == {<<o, email>>}
=============================================================================
