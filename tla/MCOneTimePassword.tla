------------------------- MODULE MCOneTimePassword -------------------------
(***************************************************************************)
(* A small instance of OneTimePassword.                                    *)
(***************************************************************************)
EXTENDS OneTimePassword

\* Two numbers that share their last six digits, one that does not, and one that
\* selects an error.
MCOtpCode == [p \in Phone |-> IF p = "line-b" THEN "222222" ELSE "111111"]

=============================================================================
