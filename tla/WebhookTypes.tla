---------------------------- MODULE WebhookTypes ----------------------------
(***************************************************************************)
(* The sets and parameters the modules of webhook delivery share.          *)
(***************************************************************************)
EXTENDS Naturals, FiniteSets

CONSTANTS
    Deliveries, \* rows of core.webhook_deliveries of one endpoint, numbered in
                \* the order of their occurred_at
    Slots,      \* handlers of the delivery workers, of both lanes
    Gaps,       \* length of the retry policy's gaps: one attempt more is made
    MaxResends, \* BOUND: how often a person sends one delivery again
    None        \* no slot

ASSUME DeliveriesAssumption == Deliveries \subseteq Nat
ASSUME GapsAssumption == Gaps \in Nat
ASSUME ResendsAssumption == MaxResends \in Nat
ASSUME NoSlotAssumption == None \notin Slots

\* Every delivery starts on "ordered"; one that failed for longer than the hold
\* is retried on "retry", a queue of its own.
Lanes == {"ordered", "retry"}
=============================================================================
