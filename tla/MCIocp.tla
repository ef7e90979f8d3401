------------------------------- MODULE MCIocp -------------------------------
(* Two handles compete for one association slot whose generation ends at two, *)
(* so that it is refused, reused and used up; two ids; one wake at a time.    *)
EXTENDS Iocp

MCDrainSizes == {1}
==============================================================================
