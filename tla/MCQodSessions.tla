--------------------------- MODULE MCQodSessions ---------------------------
(***************************************************************************)
(* A small instance of QodSessions: two connections that race on one       *)
(* session, whose identifier is of any of the four kinds.                  *)
(***************************************************************************)
EXTENDS QodSessions

MCPlane == [dev \in Device |-> CASE dev = "line-042" -> "available"
                                 [] dev = "line-001" -> "terminated"
                                 [] dev = "client-id" -> "requested"
                                 [] OTHER -> "reserved"]

\* A two-legged token's subject is not a phone number, so it is not echoed.
MCEchoed == Device \ {"client-id"}

\* The second client's token may do everything but create.
MCScope == [c \in Client |->
              IF c = "owner" THEN ScopeName ELSE ScopeName \ {CREATE_SCOPE}]

=============================================================================
