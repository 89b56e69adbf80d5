------------------------- MODULE MCNetworkSessions -------------------------
(***************************************************************************)
(* A small instance of NetworkSessions: one resource of any of the three   *)
(* services, and three connections that race its timers for it.            *)
(***************************************************************************)
EXTENDS NetworkSessions

\* The tails 000, 001, 002, 004 and a reserved one, and an opaque subject.
MCSubject == <<7>>
MCDevice == {<<0, 0, 0>>, <<0, 0, 1>>, <<0, 0, 2>>, <<0, 0, 4>>, <<4, 0, 4>>, MCSubject}
MCEchoed == MCDevice \ {MCSubject}

\* Only the owner's token may create; the others' allow everything else.
MCScope == [c \in Client |->
              IF c = "owner" THEN Operation ELSE Operation \ {"create"}]

=============================================================================
