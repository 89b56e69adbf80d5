----------------------------- MODULE Scenarios -----------------------------
(***************************************************************************)
(* The convention of src/src/scenarios.rs: the digits of an identifier     *)
(* select the functional case.  An identifier is the sequence of its       *)
(* digits, everything else having been filtered out.                       *)
(***************************************************************************)
EXTENDS Naturals, Sequences

Digit == 0..9

\* What an identifier of fewer than three digits selects (`None`).
NoTail == 1000
TailValue == 0..999 \cup {NoTail}

RESERVED_ERROR_SUFFIXES == {400, 401, 403, 404, 409, 422, 429, 500, 503}

TrailingThreeDigits(id) ==
    IF Len(id) < 3 THEN NoTail
    ELSE 100 * id[Len(id) - 2] + 10 * id[Len(id) - 1] + id[Len(id)]

IsReservedError(id) == TrailingThreeDigits(id) \in RESERVED_ERROR_SUFFIXES

\* The pair of tails most services read as "not granted yet" or "open-ended".
TripleZero(id) == TrailingThreeDigits(id) \in {0, NoTail}

=============================================================================
