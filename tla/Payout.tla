------------------------------- MODULE Payout -------------------------------
(***************************************************************************)
(* The lateness rule of the credit service: how much of the accepted offer *)
(* a courier is paid (credit-service/internal/reservation/lateness.go).    *)
(* Durations are in the microseconds that OrderOutcome.validate truncates  *)
(* to.                                                                     *)
(***************************************************************************)
EXTENDS Integers

\* Payable cuts the reward linearly between allowed and twice allowed. The
\* product is taken in big integers, so it does not overflow.
Payable(reward, elapsed, allowed) ==
  IF elapsed <= allowed THEN reward
  ELSE IF elapsed >= 2 * allowed THEN 0
  ELSE (reward * (2 * allowed - elapsed)) \div allowed

\* Only a completed order is cut for lateness; a courier whose order was
\* cancelled after pickup is paid the whole offer.
LatenessPayout(offer, type, elapsed, allowed) ==
  IF type = "COMPLETED" THEN Payable(offer, elapsed, allowed) ELSE offer
=============================================================================
