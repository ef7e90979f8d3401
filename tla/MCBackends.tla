----------------------------- MODULE MCBackends -----------------------------
(***************************************************************************)
(* The backends, small: one descriptor is registered up to twice and two   *)
(* ids are reused without bound; a poll fetches up to two events, so an    *)
(* event under an old cookie can come with one under the new.              *)
(***************************************************************************)
EXTENDS Providers

\* One shape of each readiness class, and one no readiness event completes.
MCShapes == {<<"socket", "read">>, <<"socket", "connect">>, <<"file", "fsync">>}
MCSocketShapes == {<<"socket", "read">>, <<"socket", "connect">>}

MCSpec == ProviderSpec /\ (scenario = "epoll" => Ep!Fairness)

\* Epoll: an operation whose descriptor stays ready completes (Readiness).
ReadyEventuallyCompletes == scenario = "epoll" => Ep!ReadyEventuallyCompletes
==============================================================================
