--------------------------- MODULE MCSynchronizer ---------------------------
(***************************************************************************)
(* Synchronizer for TLC.  The requests under way are interchangeable.      *)
(***************************************************************************)
EXTENDS Synchronizer, TLC

CONSTANTS L1, L2, O1, O2, R1, R2, R3, R4   \* diffs and requests

TwoRequests   == {R1, R2}
ThreeRequests == {R1, R2, R3}
FourRequests  == {R1, R2, R3, R4}
AnyRequest    == Permutations(Ids)
=============================================================================
