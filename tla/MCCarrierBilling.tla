-------------------------- MODULE MCCarrierBilling --------------------------
(***************************************************************************)
(* A small instance of CarrierBilling: a merchant and a second client that *)
(* may do all but create, racing on the payments.                          *)
(***************************************************************************)
EXTENDS CarrierBilling

MCScope == [c \in Client |->
              IF c = "merchant" THEN ScopeName ELSE ScopeName \ {CREATE_SCOPE}]

=============================================================================
