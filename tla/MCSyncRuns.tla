----------------------------- MODULE MCSyncRuns -----------------------------
(***************************************************************************)
(* Small instances of SyncRuns for TLC.                                    *)
(***************************************************************************)
EXTENDS SyncRuns, TLC

At(n) == [f \in {"sequence"} |-> n]
On(n) == [f \in {"updatedAt"} |-> n]

Good(c) == [candidate |-> c, valid |-> TRUE]
Bad(c) == [candidate |-> c, valid |-> FALSE]

\* An older and a newer record in one list, a list that ends in a record the
\* mapping rejects, and a list with a record that has no candidate.
MixedPayloads == {<<Good(At(2)), Good(At(1))>>, <<Good(At(3)), Bad(At(4))>>,
                  <<Good(NoCursor), Good(At(2))>>}

\* Candidates on either key, so that some pairs are not comparable, and the
\* empty list of a scheduled run.
TwoKeyPayloads == {<<Good(At(1)), Good(On(2))>>, <<Good(On(1)), Good(At(2))>>,
                   <<Good(At(1)), Bad(On(1))>>, <<Good(At(1))>>, <<>>}

\* Fewer of these lists, for runs on liveness.
FewPayloads == {<<Good(At(1))>>, <<Good(On(2)), Good(At(2))>>, <<>>}

OneRecordPayloads == {<<Good(At(1))>>, <<Good(At(2))>>, <<Bad(At(3))>>}

Symmetry == Permutations(Runs) \cup Permutations(Executors)
=============================================================================
