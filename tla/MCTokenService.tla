--------------------------- MODULE MCTokenService ---------------------------
(***************************************************************************)
(* A small instance of TokenService: two connections, two clients, and a   *)
(* server that is reached by two names.                                    *)
(***************************************************************************)
EXTENDS TokenService

\* The empty request is one too; the last of them is refused.
MCScopeRequest == {{}, {"read"}, {"read", "write"}, {"read", "dpv:Fraud"}}

=============================================================================
