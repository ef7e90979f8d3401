------------------------------ MODULE MCIoUring ------------------------------
(* Two ids on one socket and one file handle, each handle registered once.    *)
(* One CQE per poll, so an acknowledgement can outlive its operation.         *)
EXTENDS IoUring, TLC

MCDrainSizes == {1}
IdSymmetry == Permutations(Ids)
==============================================================================
