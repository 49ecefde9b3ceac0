--------------------------- MODULE EventHandlerMC ---------------------------
(***************************************************************************)
(* Instances for TLC of two parts of the event handler of                  *)
(* src/dart/bin/eventhandler.h that keep no state in common: the timeouts, *)
(* and a descriptor that one port uses.  A behaviour drives one of them.   *)
(***************************************************************************)
EXTENDS TimeoutQueue, DescriptorInfoSingle, TLC

VARIABLE part    \* the part that is driven

HandlerInit ==
    /\ part \in {"timeouts", "descriptor"}
    /\ Init
    /\ SingleInit
    /\ part = "timeouts" => ~disableTokens

HandlerNext ==
    \/ part = "timeouts" /\ Next /\ UNCHANGED <<part, single>>
    \/ part = "descriptor" /\ SingleNext /\ UNCHANGED <<part, vars>>

HandlerSpec == HandlerInit /\ [][HandlerNext]_<<part, vars, single>>

\* The ports that have timeouts are only compared with each other.
Symmetry == Permutations(Ports)

=============================================================================
