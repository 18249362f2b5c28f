------------------------------- MODULE MCClarc -------------------------------
(***************************************************************************)
(* Constants of the small instances of Clarc that TLC checks.              *)
(***************************************************************************)
EXTENDS ClarcInv, TLC

CONSTANTS a, b, s1, s2

FilesValue == {a, b}
OneFile == {a}
SlotsValue == {s1, s2}
OneSlot == {s1}
Symmetry == Permutations(SlotsValue)
\* Where Symlinks, Huge and the command lines treat all files alike.
FullSymmetry == Permutations(FilesValue) \cup Permutations(SlotsValue)

NoEdits == {}
GrowingEdits == {"fresh", "touch"}
CarefulEdits == GrowingEdits \cup {"remove"}
AllEdits == CarefulEdits \cup {"racy", "revert", "restore"}

NoFaults == {}
AllFaults == {"crash", "lostReply", "netError", "httpError", "metaRejected",
              "dbError", "postPartial"}

DeleteRun == [PlainRun EXCEPT !.delete = TRUE]
RebuildRun == [PlainRun EXCEPT !.rebuild = TRUE]
RebuildOnly == [RebuildRun EXCEPT !.upload = FALSE]
Dry(o) == [o EXCEPT !.dryRun = TRUE]

DeleteRuns == {DeleteRun}
FaultFreeRuns == {PlainRun, [DeleteRun EXCEPT !.rebuild = TRUE], RebuildOnly}
ConvergingRuns == {PlainRun, [DeleteRun EXCEPT !.rebuild = TRUE]}
CarefulRuns == {PlainRun, DeleteRun, RebuildRun}
HostileRuns == {DeleteRun, Dry(RebuildOnly),
                Dry([RebuildRun EXCEPT !.delete = TRUE])}
=============================================================================
