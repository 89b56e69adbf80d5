----------------------------- MODULE MCServices -----------------------------
(***************************************************************************)
(* Small instances of four services in one run.  They share no state, so a *)
(* behaviour here exercises one of them and leaves the others as they      *)
(* start: every interleaving within a service is explored, and none of     *)
(* those between services, which could not tell us more.                   *)
(***************************************************************************)
EXTENDS GeofencingSubscriptions, ClickToDial, EdgeCatalogue, TrustDomains

\* The tails 000, 001, 002, 004, a reserved one, and none at all.
MCGeoDevice == {<<0, 0, 0>>, <<0, 0, 1>>, <<0, 0, 2>>, <<0, 0, 4>>, <<4, 0, 4>>, <<7>>}
MCLimit == {Unlimited, 0, 1, 2}

\* A callee whose call runs the longest script and one that reports nothing and
\* cannot be recorded; the other pairs are refused.
MCPair ==
    {[caller |-> <<1, 2, 3>>, callee |-> <<0, 0, 3>>],
     [caller |-> <<1, 2, 3>>, callee |-> <<7, 7, 7>>],
     [caller |-> <<1, 2, 3>>, callee |-> <<1, 2, 3>>],
     [caller |-> <<1, 2, 3>>, callee |-> <<0, 0, 0>>],
     [caller |-> <<0, 0, 0>>, callee |-> <<0, 0, 3>>],
     [caller |-> <<1, 2, 3>>, callee |-> <<4, 0, 9>>]}

MCSubject == [c \in TrustConnection |->
                IF c = "barred" THEN <<4, 0, 3>> ELSE <<0, 0, 1>>]

ServicesInit == GeoInit /\ DialInit /\ EdgeInit /\ TrustInit

ServicesNext ==
    \/ /\ DialInit /\ EdgeInit /\ TrustInit
       /\ GeoNext /\ UNCHANGED <<dialVars, edgeVars, trustVars>>
    \/ /\ GeoInit /\ EdgeInit /\ TrustInit
       /\ DialNext /\ UNCHANGED <<geoVars, edgeVars, trustVars>>
    \/ /\ GeoInit /\ DialInit /\ TrustInit
       /\ EdgeNext /\ UNCHANGED <<geoVars, dialVars, trustVars>>
    \/ /\ GeoInit /\ DialInit /\ EdgeInit
       /\ TrustNext /\ UNCHANGED <<geoVars, dialVars, edgeVars>>

ServicesSpec ==
    ServicesInit /\ [][ServicesNext]_<<geoVars, dialVars, edgeVars, trustVars>>

=============================================================================
