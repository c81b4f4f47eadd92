---------------------------- MODULE OutboxReader ----------------------------
(***************************************************************************)
(* What the two readers of the outbox have in common: each polls a batch   *)
(* of committed events in sequence order, and a pass of it may be cut      *)
(* short.                                                                  *)
(***************************************************************************)
EXTENDS Outbox

CONSTANTS
  BatchSize,
  MaxFaults,    \* bound: worker deaths, refused publishes, failed transactions
  Idle          \* a reader between two passes

ASSUME BatchSizeAssumption == BatchSize \in Nat \ {0}
ASSUME MaxFaultsAssumption == MaxFaults \in Nat

VARIABLE faults

ReaderInit == OutboxInit /\ faults = 0

ReaderTypeOK == OutboxTypeOK /\ faults \in 0 .. MaxFaults
=============================================================================
