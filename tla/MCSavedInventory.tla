---- MODULE MCSavedInventory ----
(* A root with a folder "a" that may hold "a/x", and a file "b" beside it.  *)
EXTENDS SavedInventory, TLC

\* The paths ".", "a", "a/x" and "b" in byte order.
MCParent == <<0, 1, 0>>
\* Everything the folder can turn into, for the run about safety.
MCKinds == [p \in 0..3 |-> CASE p = 0 -> {"dir", "absent"}
                             [] p = 1 -> {"absent", "file", "dir", "sealed"}
                             [] OTHER -> {"absent", "file"}]
\* Plain names appearing and disappearing, for the run about progress.
PlainKinds == [p \in 0..3 |-> CASE p = 0 -> {"dir"}
                               [] p = 1 -> {"absent", "file", "dir"}
                               [] OTHER -> {"absent", "file"}]
\* An empty folder, and one with an empty folder in it.
SmallStarts == {(0 :> "dir") @@ (1 :> "absent") @@ (2 :> "absent") @@ (3 :> "absent"),
                (0 :> "dir") @@ (1 :> "dir") @@ (2 :> "absent") @@ (3 :> "absent")}
====
