--------------------------- MODULE EdgeCatalogue ---------------------------
(***************************************************************************)
(* Edge application management: three maps, each behind its own mutex, of  *)
(* the applications onboarded, of their instances and of their             *)
(* deployments.  The key of an entry is a hash of what identifies it, so a *)
(* second creation of the same thing is refused by its key; the patch of a *)
(* deployment changes what the hash was taken of and keeps the key.        *)
(*                                                                         *)
(* Creations look their application up under one lock and insert under     *)
(* another, and a patch reads the deployment under one lock and writes the *)
(* merged one under another: each is two actions.  The remaining           *)
(* operations are one.                                                     *)
(***************************************************************************)
CONSTANTS
    EdgeConnection,   \* HTTP connections, each with one request in service
    App,              \* applications: name, version and provider
    Zone,             \* the fixed catalogue of edge cloud zones
    ForeignZone,      \* well-formed zone ids that are not in the catalogue
    DeploymentName,
    Absent            \* a field a merge patch does not have

ASSUME EdgeAssumption ==
    /\ Zone \cap ForeignZone = {}
    /\ Absent \notin DeploymentName
    /\ \A zones \in SUBSET (Zone \cup ForeignZone) : Absent # zones

VARIABLES
    apps,          \* the keys of the application map
    onboarded,     \* applications ever in it
    instances,     \* the keys of the instance map: application and zone
    deployed,      \* the keys of the deployment map
    deployment,    \* the value under each key; kept once the key is gone
    patched,       \* stored deployments that a patch wrote last
    edgeTask       \* what each connection has yet to write

edgeVars == <<apps, onboarded, instances, deployed, deployment, patched, edgeTask>>

-----------------------------------------------------------------------------
(* Data *)

ZoneList == SUBSET (Zone \cup ForeignZone) \ {{}}

\* What appDeploymentId is a hash of; `zones` is sorted before it is hashed.
Identity == [app : App, name : DeploymentName, zones : ZoneList]

\* The pending half of a request: nothing, an instance to insert, a deployment
\* to insert, or the merged deployment `to` to write under `key`.
EdgeTask == {<<>>} \cup {<<"instance", a, z>> : a \in App, z \in Zone}
                   \cup {<<"deployment", d>> : d \in Identity}
                   \cup {<<"patch", d, e>> : d, e \in Identity}

EdgeIdle == <<>>
Serve(c, t) == edgeTask' = [edgeTask EXCEPT ![c] = t]

\* RFC 7396: a field that is present replaces the stored one.
Merged(d, name, zones) ==
    [app   |-> d.app,
     name  |-> IF name = Absent THEN d.name ELSE name,
     zones |-> IF zones = Absent THEN d.zones ELSE zones]

-----------------------------------------------------------------------------
(* Applications *)

SubmitApp(a) ==
    /\ a \notin apps
    /\ apps' = apps \cup {a}
    /\ onboarded' = onboarded \cup {a}
    /\ UNCHANGED <<instances, deployed, deployment, patched, edgeTask>>

\* Its instances and deployments stay.
DeleteApp(a) ==
    /\ a \in apps
    /\ apps' = apps \ {a}
    /\ UNCHANGED <<onboarded, instances, deployed, deployment, patched, edgeTask>>

-----------------------------------------------------------------------------
(* Instances *)

CreateAppInstance(c, a, z) ==
    /\ edgeTask[c] = EdgeIdle
    /\ a \in apps /\ z \in Zone
    /\ Serve(c, <<"instance", a, z>>)
    /\ UNCHANGED <<apps, onboarded, instances, deployed, deployment, patched>>

\* instance_store::insert: 202, or 409 if the key is there.
InsertInstance(c) ==
    /\ \E a \in App, z \in Zone :
          /\ edgeTask[c] = <<"instance", a, z>>
          /\ instances' = instances \cup {<<a, z>>}
    /\ Serve(c, EdgeIdle)
    /\ UNCHANGED <<apps, onboarded, deployed, deployment, patched>>

DeleteAppInstance(a, z) ==
    /\ <<a, z>> \in instances
    /\ instances' = instances \ {<<a, z>>}
    /\ UNCHANGED <<apps, onboarded, deployed, deployment, patched, edgeTask>>

-----------------------------------------------------------------------------
(* Deployments *)

CreateAppDeployment(c, d) ==
    /\ edgeTask[c] = EdgeIdle
    /\ d.app \in apps /\ d.zones \subseteq Zone
    /\ Serve(c, <<"deployment", d>>)
    /\ UNCHANGED <<apps, onboarded, instances, deployed, deployment, patched>>

\* deployment_store::insert: 202, or 409 if the key is there.
InsertDeployment(c) ==
    /\ \E d \in Identity :
          /\ edgeTask[c] = <<"deployment", d>>
          /\ IF d \in deployed THEN UNCHANGED <<deployed, deployment>>
             ELSE /\ deployed' = deployed \cup {d}
                  /\ deployment' = [deployment EXCEPT ![d] = d]
    /\ Serve(c, EdgeIdle)
    /\ UNCHANGED <<apps, onboarded, instances, patched>>

DeleteAppDeployment(d) ==
    /\ d \in deployed
    /\ deployed' = deployed \ {d}
    /\ patched' = patched \ {d}
    /\ UNCHANGED <<apps, onboarded, instances, deployment, edgeTask>>

\* deployment_store::get, the merge, and the check of the merged zones.
UpdateAppDeployment(c, d, name, zones) ==
    /\ edgeTask[c] = EdgeIdle
    /\ d \in deployed
    /\ LET merged == Merged(deployment[d], name, zones) IN
          /\ merged.zones \subseteq Zone
          /\ Serve(c, <<"patch", d, merged>>)
    /\ UNCHANGED <<apps, onboarded, instances, deployed, deployment, patched>>

\* Mutant: the write does not ask whether the deployment is still there.
StoreUpdateInserts(c) ==
    /\ \E d, merged \in Identity :
          /\ edgeTask[c] = <<"patch", d, merged>>
          /\ deployed' = deployed \cup {d}
          /\ deployment' = [deployment EXCEPT ![d] = merged]
          /\ patched' = patched \cup {d}
    /\ Serve(c, EdgeIdle)
    /\ UNCHANGED <<apps, onboarded, instances>>

\* deployment_store::update: 404 if the deployment is gone, 409 if the merged
\* identity is another stored key, else the merged deployment is written.
StoreUpdate(c) ==
    /\ \E d, merged \in Identity :
          /\ edgeTask[c] = <<"patch", d, merged>>
          /\ IF d \in deployed /\ (merged # d => merged \notin deployed)
             THEN /\ deployment' = [deployment EXCEPT ![d] = merged]
                  /\ patched' = patched \cup {d}
             ELSE UNCHANGED <<deployment, patched>>
    /\ Serve(c, EdgeIdle)
    /\ UNCHANGED <<apps, onboarded, instances, deployed>>

-----------------------------------------------------------------------------
EdgeInit ==
    /\ apps = {} /\ onboarded = {}
    /\ instances = {}
    /\ deployed = {} /\ patched = {}
    /\ deployment = [d \in Identity |-> d]
    /\ edgeTask = [c \in EdgeConnection |-> EdgeIdle]

EdgeNext ==
    \/ \E a \in App : SubmitApp(a) \/ DeleteApp(a)
    \/ \E a \in App, z \in Zone : DeleteAppInstance(a, z)
    \/ \E d \in Identity : DeleteAppDeployment(d)
    \/ \E c \in EdgeConnection :
          \/ \E a \in App, z \in Zone \cup ForeignZone : CreateAppInstance(c, a, z)
          \/ InsertInstance(c)
          \/ \E d \in Identity : CreateAppDeployment(c, d)
          \/ InsertDeployment(c)
          \/ \E d \in Identity, name \in DeploymentName \cup {Absent},
                zones \in ZoneList \cup {Absent} :
                UpdateAppDeployment(c, d, name, zones)
          \/ StoreUpdate(c)

EdgeSpec == EdgeInit /\ [][EdgeNext]_edgeVars

-----------------------------------------------------------------------------
(* Properties *)

\* Every variable has its type.
EdgeTypeOK ==
    /\ apps \subseteq onboarded /\ onboarded \subseteq App
    /\ instances \subseteq App \X Zone
    /\ deployed \subseteq Identity /\ patched \subseteq deployed
    /\ deployment \in [Identity -> Identity]
    /\ edgeTask \in [EdgeConnection -> EdgeTask]

\* Whatever is stored belongs to an application that was onboarded and runs in
\* zones of the catalogue, and a deployment never changes its application,
\* although a patch may write what it merged from an earlier incarnation of it;
\* two deployments no patch has written are never the same.
CatalogueCoherent ==
    /\ EdgeTypeOK
    /\ \A i \in instances : i[1] \in onboarded
    /\ \A d \in deployed :
          /\ deployment[d].app = d.app /\ d.app \in onboarded
          /\ deployment[d].zones \subseteq Zone
    /\ \A d, e \in deployed \ patched : deployment[d] = deployment[e] => d = e

\* A deployment that was deleted comes back only as a new one, by a creation
\* that was in service: a patch that read it before the delete is answered 404.
OnlyCreationsStore ==
    \A d \in deployed' \ deployed :
       \E c \in EdgeConnection :
          edgeTask[c] = <<"deployment", d>> /\ edgeTask'[c] = EdgeIdle

\* A creation for application a passed its look-up and has yet to insert.
Creating(a) ==
    \E c \in EdgeConnection :
       \/ \E z \in Zone : edgeTask[c] = <<"instance", a, z>>
       \/ \E d \in Identity : d.app = a /\ edgeTask[c] = <<"deployment", d>>

\* The look-up and the insert of a creation take different locks, so something may
\* be stored for an application just deleted; but only by a creation that was in
\* service by then.  Once those have ended the application stays quiet until it is
\* onboarded again: nothing is created for it and nothing more is stored.
GoneStaysQuiet ==
    \A a \in App \ apps :
       ~Creating(a) =>
          /\ ~Creating(a)'
          /\ \A z \in Zone : <<a, z>> \in instances' => <<a, z>> \in instances
          /\ \A d \in deployed' : d.app = a => d \in deployed

\* All three hold of every behaviour of createAppInstance, createAppDeployment,
\* updateAppDeployment and the deletes.
CatalogueSound ==
    []CatalogueCoherent /\ [][OnlyCreationsStore]_edgeVars /\ [][GoneStaysQuiet]_edgeVars

\* vwip.rs says of a patch that would make two deployments identical that "it
\* is refused with 409 ALREADY_EXISTS".
PatchesDiffer ==
    \A d, e \in patched : deployment[d] = deployment[e] => d = e

=============================================================================
