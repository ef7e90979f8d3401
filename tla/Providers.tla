----------------------------- MODULE Providers -----------------------------
(***************************************************************************)
(* The virtual backend on its own, or as the fallback_ of an epoll or a    *)
(* kqueue backend, or an io_uring backend without a ring, as scenario says *)
(* from the start.                                                         *)
(***************************************************************************)
EXTENDS Backends

Ep == INSTANCE Epoll WITH UsedShapes <- SocketShapes
Kq == INSTANCE Kqueue WITH UsedShapes <- SocketShapes
Ring == INSTANCE IoUringFallback WITH UsedShapes <- SocketShapes,
          registry <- fRegistry, pending <- fPending, completions <- fCompletions,
          active <- fActive, counters <- fCounters, stopped <- fStopped

ProviderInit ==
  /\ scenario \in {"virtual", "epoll", "kqueue", "io_uring"}
  /\ Init /\ filters = {} /\ ready = {} /\ woken = FALSE /\ lost = {} /\ events = <<>>
  /\ Ring!Init

ProviderNext ==
  /\ UNCHANGED scenario
  /\ \/ scenario = "virtual" /\ Next /\ UNCHANGED <<kernelVars, ringVars>>
     \/ scenario = "epoll" /\ Ep!Next /\ UNCHANGED ringVars
     \/ scenario = "kqueue" /\ Kq!Next /\ UNCHANGED ringVars
     \/ scenario = "io_uring" /\ Ring!Next /\ UNCHANGED <<vars, kernelVars>>

ProviderSpec == ProviderInit /\ [][ProviderNext]_<<scenario, vars, kernelVars, ringVars>>
==============================================================================
