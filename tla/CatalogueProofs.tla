-------------------------- MODULE CatalogueProofs --------------------------
(***************************************************************************)
(* Proofs about EdgeCatalogue, TrustDomains and InHomeDevices, for any     *)
(* catalogue, any names, households and any number of connections.         *)
(***************************************************************************)
EXTENDS EdgeCatalogue, TrustDomains, InHomeDevices, TLAPS

-----------------------------------------------------------------------------
(* Trust domains *)

\* A domain no patch has named is what its key says, and a device still to be
\* inserted is of a domain that was created.
KeyedInv ==
    \A k \in domains \ renamed :
       domain[k] = [service |-> k.service, name |-> k.name, password |-> FALSE]
JoiningInv ==
    \A c \in TrustConnection :
       joining[c] # <<>> => joining[c] \in DeviceKey /\ joining[c][1] \in founded
PasswordInv == \A k \in domains : ~domain[k].password /\ domain[k].service = k.service
MemberInv == \A e \in devices : e[1] \in founded

TrustInv == TrustTypeOK /\ KeyedInv /\ JoiningInv /\ PasswordInv /\ MemberInv

LEMMA TrustInitInv == TrustInit => TrustInv
  <1> SUFFICES ASSUME TrustInit PROVE TrustInv
    OBVIOUS
  <1>1. \A k \in DomainKey :
           [service |-> k.service, name |-> k.name, password |-> FALSE] \in TrustDomain
    BY DEF DomainKey, TrustDomain
  <1>2. \A e \in DeviceKey : e[2] \in Label
    BY DEF DeviceKey
  <1> QED BY <1>1, <1>2 DEF TrustInit, TrustInv, TrustTypeOK, KeyedInv,
                           JoiningInv, PasswordInv, MemberInv

LEMMA CreateDomainStep ==
  ASSUME TrustInv, NEW c \in TrustConnection, NEW k \in DomainKey,
         NEW password \in BOOLEAN, CreateTrustDomain(c, k, password)
  PROVE  TrustInv'
  <1> DEFINE fresh == [service |-> k.service, name |-> k.name, password |-> FALSE]
  <1>1. fresh \in TrustDomain /\ ~fresh.password /\ fresh.service = k.service
    BY DEF DomainKey, TrustDomain
  <1>2. /\ domains' = domains \cup {k} /\ founded' = founded \cup {k}
        /\ renamed' = renamed \ {k}
        /\ domain' = [domain EXCEPT ![k] = fresh]
        /\ UNCHANGED <<devices, label, joining>>
    BY DEF CreateTrustDomain, Sanitised
  <1> HIDE DEF fresh
  <1>3. /\ domain' \in [DomainKey -> TrustDomain] /\ domain'[k] = fresh
        /\ \A h \in DomainKey \ {k} : domain'[h] = domain[h]
    BY <1>1, <1>2 DEF TrustInv, TrustTypeOK
  <1>4. TrustTypeOK'
    BY <1>2, <1>3 DEF TrustInv, TrustTypeOK
  <1>5. KeyedInv'
    BY <1>2, <1>3 DEF TrustInv, TrustTypeOK, KeyedInv, fresh
  <1>6. PasswordInv'
    BY <1>1, <1>2, <1>3 DEF TrustInv, TrustTypeOK, PasswordInv
  <1>7. JoiningInv' /\ MemberInv'
    BY <1>2 DEF TrustInv, JoiningInv, MemberInv
  <1> QED BY <1>4, <1>5, <1>6, <1>7 DEF TrustInv

LEMMA UpdateDomainStep ==
  ASSUME TrustInv, NEW k \in DomainKey, NEW name \in Name \cup {Same},
         NEW password \in BOOLEAN \cup {Same}, UpdateTrustDomain(k, name, password)
  PROVE  TrustInv'
  <1> DEFINE new == Patched(domain[k], name, password)
  <1>1. k \in domains /\ domain[k] \in TrustDomain /\ ~domain[k].password
        /\ domain[k].service = k.service
    BY DEF TrustInv, TrustTypeOK, UpdateTrustDomain, PasswordInv
  <1>2. new \in TrustDomain /\ new.service = k.service /\ ~new.password
    BY <1>1 DEF TrustDomain, Patched, Sanitised
  <1>3. name = Same => new = domain[k]
    BY <1>1 DEF TrustDomain, Patched, Sanitised
  <1>4. /\ domain' = [domain EXCEPT ![k] = new]
        /\ renamed' = IF name = Same THEN renamed ELSE renamed \cup {k}
        /\ UNCHANGED <<domains, founded, devices, label, joining>>
    BY DEF UpdateTrustDomain
  <1> HIDE DEF new
  <1>5. /\ domain' \in [DomainKey -> TrustDomain] /\ domain'[k] = new
        /\ \A h \in DomainKey \ {k} : domain'[h] = domain[h]
    BY <1>2, <1>4 DEF TrustInv, TrustTypeOK
  <1>6. TrustTypeOK'
    BY <1>4, <1>5 DEF TrustInv, TrustTypeOK
  <1>7. KeyedInv'
    BY <1>3, <1>4, <1>5 DEF TrustInv, TrustTypeOK, KeyedInv
  <1>8. PasswordInv'
    BY <1>2, <1>4, <1>5 DEF TrustInv, TrustTypeOK, PasswordInv
  <1>9. JoiningInv' /\ MemberInv'
    BY <1>4 DEF TrustInv, JoiningInv, MemberInv
  <1> QED BY <1>6, <1>7, <1>8, <1>9 DEF TrustInv

LEMMA DeleteDomainStep ==
  ASSUME TrustInv, NEW k \in DomainKey, DeleteTrustDomain(k)
  PROVE  TrustInv'
  BY DEF TrustInv, TrustTypeOK, KeyedInv, JoiningInv, PasswordInv, MemberInv,
         DeleteTrustDomain

LEMMA CreateDeviceStep ==
  ASSUME TrustInv, NEW c \in TrustConnection, NEW k \in DomainKey, NEW l \in Label,
         CreateTrustDomainDevice(c, k, l)
  PROVE  TrustInv'
  <1>1. /\ <<k, l>> \in DeviceKey /\ <<k, l>>[1] \in founded
        /\ joining' = [joining EXCEPT ![c] = <<k, l>>]
        /\ UNCHANGED <<domains, domain, founded, renamed, devices, label>>
    BY DEF TrustInv, TrustTypeOK, CreateTrustDomainDevice, DeviceKey
  <1> DEFINE key == <<k, l>>
  <1> HIDE DEF key
  <1>2. key \in DeviceKey /\ key[1] \in founded /\ joining' = [joining EXCEPT ![c] = key]
    BY <1>1 DEF key
  <1>3. TrustTypeOK' /\ JoiningInv'
    BY <1>1, <1>2 DEF TrustInv, TrustTypeOK, JoiningInv
  <1> QED BY <1>1, <1>3 DEF TrustInv, KeyedInv, PasswordInv, MemberInv

LEMMA InsertDeviceStep ==
  ASSUME TrustInv, NEW c \in TrustConnection, InsertDevice(c)
  PROVE  TrustInv'
  <1>1. joining[c] \in DeviceKey /\ joining[c][1] \in founded
    BY DEF TrustInv, JoiningInv, InsertDevice
  <1>2. joining[c][2] \in Label
    BY <1>1 DEF DeviceKey
  <1>3. /\ devices' \subseteq devices \cup {joining[c]}
        /\ label' \in [DeviceKey -> Label]
        /\ joining' = [joining EXCEPT ![c] = <<>>]
        /\ UNCHANGED <<domains, domain, founded, renamed>>
    BY <1>1, <1>2 DEF TrustInv, TrustTypeOK, InsertDevice
  <1>4. TrustTypeOK' /\ JoiningInv'
    BY <1>1, <1>3 DEF TrustInv, TrustTypeOK, JoiningInv
  <1>5. MemberInv'
    BY <1>1, <1>3 DEF TrustInv, MemberInv
  <1> QED BY <1>3, <1>4, <1>5 DEF TrustInv, KeyedInv, PasswordInv

LEMMA DeviceStep ==
  ASSUME TrustInv, NEW e \in DeviceKey,
         \/ \E l \in Label \cup {Same} : UpdateTrustDomainDevice(e, l)
         \/ DeleteTrustDomainDevice(e)
  PROVE  TrustInv'
  <1>1. label' \in [DeviceKey -> Label]
    BY DEF TrustInv, TrustTypeOK, UpdateTrustDomainDevice, DeleteTrustDomainDevice
  <1>2. /\ devices' \subseteq devices
        /\ UNCHANGED <<domains, domain, founded, renamed, joining>>
    BY DEF UpdateTrustDomainDevice, DeleteTrustDomainDevice
  <1> QED BY <1>1, <1>2 DEF TrustInv, TrustTypeOK, KeyedInv, JoiningInv, PasswordInv, MemberInv

LEMMA TrustNextInv == TrustInv /\ [TrustNext]_trustVars => TrustInv'
  <1> SUFFICES ASSUME TrustInv, [TrustNext]_trustVars PROVE TrustInv'
    OBVIOUS
  <1>1. CASE UNCHANGED trustVars
    BY <1>1 DEF TrustInv, TrustTypeOK, KeyedInv, JoiningInv, PasswordInv, MemberInv, trustVars
  <1>2. CASE TrustNext
    BY <1>2, CreateDomainStep, UpdateDomainStep, DeleteDomainStep, CreateDeviceStep,
       InsertDeviceStep, DeviceStep DEF TrustNext
  <1> QED BY <1>1, <1>2

LEMMA TrustInvCoherent == TrustInv => TrustDomainsCoherent
  <1> SUFFICES ASSUME TrustInv PROVE TrustDomainsCoherent
    OBVIOUS
  <1>1. ASSUME NEW k \in domains \ renamed, NEW h \in domains \ renamed,
               domain[k] = domain[h]
        PROVE  k = h
    <2>1. k \in DomainKey /\ h \in DomainKey
      BY DEF TrustInv, TrustTypeOK
    <2>2. [service |-> k.service, name |-> k.name, password |-> FALSE]
             = [service |-> h.service, name |-> h.name, password |-> FALSE]
      BY <1>1 DEF TrustInv, KeyedInv
    <2>3. k.service = h.service /\ k.name = h.name
      BY <2>2
    <2> QED BY <2>1, <2>3 DEF DomainKey
  <1> QED BY <1>1 DEF TrustInv, TrustDomainsCoherent, PasswordInv, MemberInv

\* Only a registration that finds its domain leaves a device to insert, and only
\* what was left is inserted.
LEMMA QuietDomainStep ==
  TrustInv /\ [TrustNext]_trustVars => [DeletedStaysQuiet]_trustVars
  <1> SUFFICES ASSUME TrustInv, [TrustNext]_trustVars,
                      NEW k \in DomainKey \ domains, ~Joining(k)
               PROVE  ~Joining(k)' /\ \A e \in devices' : e[1] = k => e \in devices
    BY DEF DeletedStaysQuiet
  <1>1. CASE UNCHANGED <<joining, devices>>
    BY <1>1 DEF Joining
  <1>2. CASE \E c \in TrustConnection, h \in DomainKey, l \in Label :
                CreateTrustDomainDevice(c, h, l)
    <2>1. PICK c \in TrustConnection, h \in DomainKey, l \in Label :
             /\ h \in domains /\ joining' = [joining EXCEPT ![c] = <<h, l>>]
             /\ devices' = devices
      BY <1>2 DEF CreateTrustDomainDevice
    <2>2. \A o \in TrustConnection :
             joining'[o] = joining[o] \/ (joining'[o] = <<h, l>> /\ <<h, l>>[1] # k)
      BY <2>1 DEF TrustInv, TrustTypeOK
    <2> QED BY <2>1, <2>2 DEF Joining
  <1>3. CASE \E c \in TrustConnection : InsertDevice(c)
    <2>1. PICK c \in TrustConnection :
             /\ joining[c] # <<>> /\ devices' \subseteq devices \cup {joining[c]}
             /\ joining' = [joining EXCEPT ![c] = <<>>]
      BY <1>3 DEF InsertDevice
    <2>2. joining[c][1] # k
      BY <2>1 DEF Joining
    <2>3. \A o \in TrustConnection : joining'[o] = joining[o] \/ joining'[o] = <<>>
      BY <2>1 DEF TrustInv, TrustTypeOK
    <2>4. ~Joining(k)'
      BY <2>3 DEF Joining
    <2> QED BY <2>1, <2>2, <2>4
  <1>4. CASE joining' = joining /\ devices' \subseteq devices
    BY <1>4 DEF Joining
  <1> QED
    BY <1>1, <1>2, <1>3, <1>4 DEF TrustNext, trustVars, CreateTrustDomain, UpdateTrustDomain,
       DeleteTrustDomain, UpdateTrustDomainDevice, DeleteTrustDomainDevice

\* What the trust domain endpoints store and answer is sound: no password, no
\* domain moved, no device of a domain that never was, and none added to a deleted
\* one but by a registration that was in service.
THEOREM TrustDomainsAreSound == TrustSpec => TrustDomainsSound
  BY TrustInitInv, TrustNextInv, TrustInvCoherent, QuietDomainStep, PTL
     DEF TrustSpec, TrustDomainsSound

-----------------------------------------------------------------------------
(* Edge applications *)

\* What a connection has yet to write is fit to be stored; a deployment no
\* patch has written is its own key.
ServedInv ==
    \A c \in EdgeConnection :
       /\ \A a \in App, z \in Zone : edgeTask[c] = <<"instance", a, z>> => a \in onboarded
       /\ \A d \in Identity :
             edgeTask[c] = <<"deployment", d>> => d.app \in onboarded /\ d.zones \subseteq Zone
       /\ \A d, e \in Identity :
             edgeTask[c] = <<"patch", d, e>> => e.app = d.app /\ e.zones \subseteq Zone
InstanceInv == \A i \in instances : i[1] \in onboarded
DeployedInv ==
    \A d \in deployed : /\ deployment[d].app = d.app /\ d.app \in onboarded
                        /\ deployment[d].zones \subseteq Zone
UnpatchedInv == \A d \in deployed \ patched : deployment[d] = d

EdgeInv == EdgeTypeOK /\ ServedInv /\ InstanceInv /\ DeployedInv /\ UnpatchedInv

\* Only createAppInstance, createAppDeployment and updateAppDeployment leave
\* something to write.
LEMMA ServeStep ==
  ASSUME EdgeInv, NEW c \in EdgeConnection, NEW t \in EdgeTask, Serve(c, t),
         onboarded' = onboarded,
         \A a \in App, z \in Zone : t = <<"instance", a, z>> => a \in onboarded,
         \A d \in Identity :
            t = <<"deployment", d>> => d.app \in onboarded /\ d.zones \subseteq Zone,
         \A d, e \in Identity :
            t = <<"patch", d, e>> => e.app = d.app /\ e.zones \subseteq Zone
  PROVE  edgeTask' \in [EdgeConnection -> EdgeTask] /\ ServedInv'
  <1>1. /\ edgeTask' \in [EdgeConnection -> EdgeTask]
        /\ \A o \in EdgeConnection : edgeTask'[o] = t \/ edgeTask'[o] = edgeTask[o]
    BY DEF EdgeInv, EdgeTypeOK, Serve
  <1>2. ASSUME NEW o \in EdgeConnection, NEW a \in App, NEW z \in Zone,
               edgeTask'[o] = <<"instance", a, z>>
        PROVE  a \in onboarded
    <2>1. CASE edgeTask'[o] = t
      BY <1>2, <2>1, Zenon
    <2>2. CASE edgeTask'[o] = edgeTask[o]
      BY <1>2, <2>2, Zenon DEF EdgeInv, ServedInv
    <2> QED BY <1>1, <2>1, <2>2
  <1>3. ASSUME NEW o \in EdgeConnection, NEW d \in Identity,
               edgeTask'[o] = <<"deployment", d>>
        PROVE  d.app \in onboarded /\ d.zones \subseteq Zone
    <2>1. CASE edgeTask'[o] = t
      BY <1>3, <2>1, Zenon
    <2>2. CASE edgeTask'[o] = edgeTask[o]
      BY <1>3, <2>2, Zenon DEF EdgeInv, ServedInv
    <2> QED BY <1>1, <2>1, <2>2
  <1>4. ASSUME NEW o \in EdgeConnection, NEW d \in Identity, NEW e \in Identity,
               edgeTask'[o] = <<"patch", d, e>>
        PROVE  e.app = d.app /\ e.zones \subseteq Zone
    <2>1. CASE edgeTask'[o] = t
      BY <1>4, <2>1, Zenon
    <2>2. CASE edgeTask'[o] = edgeTask[o]
      BY <1>4, <2>2, Zenon DEF EdgeInv, ServedInv
    <2> QED BY <1>1, <2>1, <2>2
  <1> QED BY <1>1, <1>2, <1>3, <1>4, Zenon DEF ServedInv

LEMMA IdleStep ==
  ASSUME EdgeInv, NEW c \in EdgeConnection, Serve(c, EdgeIdle), onboarded' = onboarded
  PROVE  edgeTask' \in [EdgeConnection -> EdgeTask] /\ ServedInv'
  <1>1. EdgeIdle \in EdgeTask
    BY DEF EdgeIdle, EdgeTask
  <1>2. /\ \A a \in App, z \in Zone : EdgeIdle # <<"instance", a, z>>
        /\ \A d \in Identity : EdgeIdle # <<"deployment", d>>
        /\ \A d, e \in Identity : EdgeIdle # <<"patch", d, e>>
    BY DEF EdgeIdle
  <1> QED BY <1>1, <1>2, ServeStep, Zenon

LEMMA EdgeInitInv == EdgeInit => EdgeInv
  <1> SUFFICES ASSUME EdgeInit PROVE EdgeInv
    OBVIOUS
  <1>1. EdgeIdle \in EdgeTask
    BY DEF EdgeIdle, EdgeTask
  <1>2. EdgeTypeOK
    BY <1>1 DEF EdgeInit, EdgeTypeOK
  <1>3. ServedInv
    BY DEF EdgeInit, ServedInv, EdgeIdle
  <1> QED BY <1>2, <1>3 DEF EdgeInit, EdgeInv, InstanceInv, DeployedInv, UnpatchedInv

LEMMA AppStep ==
  ASSUME EdgeInv, NEW a \in App, SubmitApp(a) \/ DeleteApp(a)
  PROVE  EdgeInv'
  <1>1. /\ onboarded \subseteq onboarded' /\ onboarded' \subseteq App
        /\ apps' \subseteq onboarded'
        /\ UNCHANGED <<instances, deployed, deployment, patched, edgeTask>>
    BY DEF EdgeInv, EdgeTypeOK, SubmitApp, DeleteApp
  <1>2. EdgeTypeOK'
    BY <1>1 DEF EdgeInv, EdgeTypeOK
  <1>3. ServedInv'
    BY <1>1, Zenon DEF EdgeInv, ServedInv
  <1>4. InstanceInv' /\ DeployedInv' /\ UnpatchedInv'
    BY <1>1 DEF EdgeInv, InstanceInv, DeployedInv, UnpatchedInv
  <1> QED BY <1>2, <1>3, <1>4 DEF EdgeInv

LEMMA CreateInstanceStep ==
  ASSUME EdgeInv, NEW c \in EdgeConnection, NEW a \in App, NEW z \in Zone \cup ForeignZone,
         CreateAppInstance(c, a, z)
  PROVE  EdgeInv'
  <1> DEFINE t == <<"instance", a, z>>
  <1>1. /\ a \in onboarded /\ z \in Zone /\ Serve(c, t)
        /\ UNCHANGED <<apps, onboarded, instances, deployed, deployment, patched>>
    BY DEF EdgeInv, EdgeTypeOK, CreateAppInstance
  <1>2. t \in EdgeTask
    BY <1>1 DEF EdgeTask
  <1>3. /\ \A b \in App, y \in Zone : t = <<"instance", b, y>> => b \in onboarded
        /\ \A d \in Identity :
              t = <<"deployment", d>> => d.app \in onboarded /\ d.zones \subseteq Zone
        /\ \A d, e \in Identity :
              t = <<"patch", d, e>> => e.app = d.app /\ e.zones \subseteq Zone
    BY <1>1
  <1> HIDE DEF t
  <1>4. edgeTask' \in [EdgeConnection -> EdgeTask] /\ ServedInv'
    BY <1>1, <1>2, <1>3, ServeStep, Zenon
  <1> QED BY <1>1, <1>4 DEF EdgeInv, EdgeTypeOK, InstanceInv, DeployedInv, UnpatchedInv

LEMMA InsertInstanceStep ==
  ASSUME EdgeInv, NEW c \in EdgeConnection, InsertInstance(c)
  PROVE  EdgeInv'
  <1>1. PICK a \in App, z \in Zone : /\ edgeTask[c] = <<"instance", a, z>>
                                     /\ instances' = instances \cup {<<a, z>>}
    BY DEF InsertInstance
  <1>2. a \in onboarded
    BY <1>1 DEF EdgeInv, ServedInv
  <1>3. /\ Serve(c, EdgeIdle)
        /\ UNCHANGED <<apps, onboarded, deployed, deployment, patched>>
    BY DEF InsertInstance
  <1>4. edgeTask' \in [EdgeConnection -> EdgeTask] /\ ServedInv'
    BY <1>3, IdleStep
  <1>5. InstanceInv'
    BY <1>1, <1>2, <1>3 DEF EdgeInv, InstanceInv
  <1> QED BY <1>1, <1>3, <1>4, <1>5 DEF EdgeInv, EdgeTypeOK, DeployedInv, UnpatchedInv

LEMMA DeleteStep ==
  ASSUME EdgeInv,
         \/ \E a \in App, z \in Zone : DeleteAppInstance(a, z)
         \/ \E d \in Identity : DeleteAppDeployment(d)
  PROVE  EdgeInv'
  <1>1. /\ instances' \subseteq instances /\ deployed' \subseteq deployed
        /\ patched' \subseteq deployed'
        /\ deployed' \ patched' \subseteq deployed \ patched
        /\ UNCHANGED <<apps, onboarded, deployment, edgeTask>>
    BY DEF EdgeInv, EdgeTypeOK, DeleteAppInstance, DeleteAppDeployment
  <1>2. EdgeTypeOK'
    BY <1>1 DEF EdgeInv, EdgeTypeOK
  <1>3. ServedInv'
    BY <1>1, Zenon DEF EdgeInv, ServedInv
  <1>4. InstanceInv' /\ DeployedInv' /\ UnpatchedInv'
    BY <1>1 DEF EdgeInv, InstanceInv, DeployedInv, UnpatchedInv
  <1> QED BY <1>2, <1>3, <1>4 DEF EdgeInv

LEMMA CreateDeploymentStep ==
  ASSUME EdgeInv, NEW c \in EdgeConnection, NEW d \in Identity, CreateAppDeployment(c, d)
  PROVE  EdgeInv'
  <1> DEFINE t == <<"deployment", d>>
  <1>1. /\ d.app \in onboarded /\ d.zones \subseteq Zone /\ Serve(c, t)
        /\ UNCHANGED <<apps, onboarded, instances, deployed, deployment, patched>>
    BY DEF EdgeInv, EdgeTypeOK, CreateAppDeployment
  <1>2. t \in EdgeTask
    BY DEF EdgeTask
  <1>3. /\ \A b \in App, y \in Zone : t = <<"instance", b, y>> => b \in onboarded
        /\ \A x \in Identity :
              t = <<"deployment", x>> => x.app \in onboarded /\ x.zones \subseteq Zone
        /\ \A x, e \in Identity :
              t = <<"patch", x, e>> => e.app = x.app /\ e.zones \subseteq Zone
    BY <1>1
  <1> HIDE DEF t
  <1>4. edgeTask' \in [EdgeConnection -> EdgeTask] /\ ServedInv'
    BY <1>1, <1>2, <1>3, ServeStep, Zenon
  <1> QED BY <1>1, <1>4 DEF EdgeInv, EdgeTypeOK, InstanceInv, DeployedInv, UnpatchedInv

LEMMA InsertDeploymentStep ==
  ASSUME EdgeInv, NEW c \in EdgeConnection, InsertDeployment(c)
  PROVE  EdgeInv'
  <1>1. PICK d \in Identity :
           /\ edgeTask[c] = <<"deployment", d>>
           /\ IF d \in deployed THEN UNCHANGED <<deployed, deployment>>
              ELSE /\ deployed' = deployed \cup {d}
                   /\ deployment' = [deployment EXCEPT ![d] = d]
    BY DEF InsertDeployment
  <1>2. d.app \in onboarded /\ d.zones \subseteq Zone
    BY <1>1 DEF EdgeInv, ServedInv
  <1>3. Serve(c, EdgeIdle) /\ UNCHANGED <<apps, onboarded, instances, patched>>
    BY DEF InsertDeployment
  <1>4. edgeTask' \in [EdgeConnection -> EdgeTask] /\ ServedInv'
    BY <1>3, IdleStep
  <1>5. /\ deployed \subseteq deployed' /\ deployed' \subseteq deployed \cup {d}
        /\ deployment' \in [Identity -> Identity]
        /\ \A e \in deployed : deployment'[e] = deployment[e]
        /\ d \notin deployed => deployment'[d] = d
    BY <1>1 DEF EdgeInv, EdgeTypeOK
  <1>6. EdgeTypeOK'
    BY <1>3, <1>4, <1>5 DEF EdgeInv, EdgeTypeOK
  <1>7. InstanceInv' /\ DeployedInv' /\ UnpatchedInv'
    BY <1>2, <1>3, <1>5 DEF EdgeInv, InstanceInv, DeployedInv, UnpatchedInv
  <1> QED BY <1>4, <1>6, <1>7 DEF EdgeInv

LEMMA UpdateStep ==
  ASSUME EdgeInv, NEW c \in EdgeConnection, NEW d \in Identity,
         NEW name \in DeploymentName \cup {Absent}, NEW zones \in ZoneList \cup {Absent},
         UpdateAppDeployment(c, d, name, zones)
  PROVE  EdgeInv'
  <1> DEFINE merged == Merged(deployment[d], name, zones)
             t == <<"patch", d, merged>>
  <1>1. d \in deployed /\ deployment[d] \in Identity /\ deployment[d].app = d.app
    BY DEF EdgeInv, EdgeTypeOK, DeployedInv, UpdateAppDeployment
  <1>2. merged \in Identity /\ merged.app = d.app
    BY <1>1 DEF Merged, Identity
  <1>3. /\ merged.zones \subseteq Zone /\ Serve(c, t)
        /\ UNCHANGED <<apps, onboarded, instances, deployed, deployment, patched>>
    BY DEF UpdateAppDeployment
  <1> HIDE DEF merged
  <1>4. t \in EdgeTask
    BY <1>2 DEF EdgeTask
  <1>5. /\ \A b \in App, y \in Zone : t = <<"instance", b, y>> => b \in onboarded
        /\ \A x \in Identity :
              t = <<"deployment", x>> => x.app \in onboarded /\ x.zones \subseteq Zone
        /\ \A x, e \in Identity :
              t = <<"patch", x, e>> => e.app = x.app /\ e.zones \subseteq Zone
    BY <1>2, <1>3
  <1> HIDE DEF t
  <1>6. edgeTask' \in [EdgeConnection -> EdgeTask] /\ ServedInv'
    BY <1>3, <1>4, <1>5, ServeStep, Zenon
  <1> QED BY <1>3, <1>6 DEF EdgeInv, EdgeTypeOK, InstanceInv, DeployedInv, UnpatchedInv

LEMMA StoreUpdateStep ==
  ASSUME EdgeInv, NEW c \in EdgeConnection, StoreUpdate(c)
  PROVE  EdgeInv'
  <1>1. PICK d \in Identity, e \in Identity :
           /\ edgeTask[c] = <<"patch", d, e>>
           /\ IF d \in deployed /\ (e # d => e \notin deployed)
              THEN /\ deployment' = [deployment EXCEPT ![d] = e]
                   /\ patched' = patched \cup {d}
              ELSE UNCHANGED <<deployment, patched>>
    BY DEF StoreUpdate
  <1>2. e.app = d.app /\ e.zones \subseteq Zone
    BY <1>1 DEF EdgeInv, ServedInv
  <1>3. Serve(c, EdgeIdle) /\ UNCHANGED <<apps, onboarded, instances, deployed>>
    BY DEF StoreUpdate
  <1>4. edgeTask' \in [EdgeConnection -> EdgeTask] /\ ServedInv'
    BY <1>3, IdleStep
  <1>5. /\ deployment' \in [Identity -> Identity]
        /\ patched \subseteq patched' /\ patched' \subseteq deployed
        /\ \A x \in Identity : \/ deployment'[x] = deployment[x]
                               \/ x = d /\ deployment'[x] = e /\ x \in patched'
    BY <1>1 DEF EdgeInv, EdgeTypeOK
  <1>6. EdgeTypeOK'
    BY <1>3, <1>4, <1>5 DEF EdgeInv, EdgeTypeOK
  <1>7. InstanceInv' /\ DeployedInv' /\ UnpatchedInv'
    BY <1>2, <1>3, <1>5 DEF EdgeInv, EdgeTypeOK, InstanceInv, DeployedInv, UnpatchedInv
  <1> QED BY <1>4, <1>6, <1>7 DEF EdgeInv

LEMMA EdgeNextInv == EdgeInv /\ [EdgeNext]_edgeVars => EdgeInv'
  <1> SUFFICES ASSUME EdgeInv, [EdgeNext]_edgeVars PROVE EdgeInv'
    OBVIOUS
  <1>1. CASE UNCHANGED edgeVars
    <2>1. ServedInv'
      BY <1>1, Zenon DEF EdgeInv, ServedInv, edgeVars
    <2> QED BY <1>1, <2>1 DEF EdgeInv, EdgeTypeOK, InstanceInv, DeployedInv,
                              UnpatchedInv, edgeVars
  <1>2. CASE EdgeNext
    BY <1>2, AppStep, CreateInstanceStep, InsertInstanceStep, DeleteStep,
       CreateDeploymentStep, InsertDeploymentStep, UpdateStep, StoreUpdateStep, Zenon
       DEF EdgeNext
  <1> QED BY <1>1, <1>2

LEMMA EdgeInvCoherent == EdgeInv => CatalogueCoherent
  BY DEF EdgeInv, CatalogueCoherent, InstanceInv, DeployedInv, UnpatchedInv

\* Only InsertDeployment adds to the map.
LEMMA EdgeStepStores ==
  EdgeInv /\ [EdgeNext]_edgeVars => [OnlyCreationsStore]_edgeVars
  <1> SUFFICES ASSUME EdgeInv, [EdgeNext]_edgeVars,
                      NEW d \in deployed' \ deployed
               PROVE  \E c \in EdgeConnection :
                         edgeTask[c] = <<"deployment", d>> /\ edgeTask'[c] = EdgeIdle
    BY DEF OnlyCreationsStore
  <1>1. ~UNCHANGED deployed
    OBVIOUS
  <1>2. PICK c \in EdgeConnection : InsertDeployment(c)
    BY <1>1 DEF EdgeNext, edgeVars, SubmitApp, DeleteApp, DeleteAppInstance,
       DeleteAppDeployment, CreateAppInstance, InsertInstance, CreateAppDeployment,
       UpdateAppDeployment, StoreUpdate
  <1>3. PICK e \in Identity :
           /\ edgeTask[c] = <<"deployment", e>>
           /\ deployed' \subseteq deployed \cup {e}
    BY <1>2, SMT DEF InsertDeployment
  <1>4. edgeTask'[c] = EdgeIdle
    BY <1>2, SMT DEF InsertDeployment, Serve, EdgeInv, EdgeTypeOK
  <1>5. d = e
    BY <1>3
  <1> QED BY <1>3, <1>4, <1>5

\* A step that serves a connection leaves every other as it is.
LEMMA ServedOnly ==
  ASSUME EdgeInv, NEW c \in EdgeConnection, NEW t, Serve(c, t)
  PROVE  \A o \in EdgeConnection : edgeTask'[o] = edgeTask[o] \/ edgeTask'[o] = t
  BY DEF EdgeInv, EdgeTypeOK, Serve

\* Creations begin for applications that are there, and store what they began.
LEMMA QuietAppStep ==
  ASSUME EdgeInv, EdgeNext, NEW a \in App \ apps, ~Creating(a)
  PROVE  /\ ~Creating(a)'
         /\ \A z \in Zone : <<a, z>> \in instances' => <<a, z>> \in instances
         /\ \A d \in deployed' : d.app = a => d \in deployed
  <1> DEFINE Quiet(t) == /\ \A z \in Zone : t # <<"instance", a, z>>
                         /\ \A d \in Identity : d.app = a => t # <<"deployment", d>>
  <1>1. \A c \in EdgeConnection : Quiet(edgeTask[c])
    BY Zenon DEF Creating
  <1>2. ASSUME NEW c \in EdgeConnection, NEW t, Serve(c, t), Quiet(t) PROVE ~Creating(a)'
    <2>1. \A o \in EdgeConnection : Quiet(edgeTask'[o])
      <3>1. TAKE o \in EdgeConnection
      <3>2. CASE edgeTask'[o] = t
        BY <1>2, <3>2, Zenon
      <3>3. CASE edgeTask'[o] = edgeTask[o]
        BY <1>1, <3>3, Zenon
      <3> QED BY <1>2, <3>2, <3>3, ServedOnly
    <2> QED BY <2>1, Zenon DEF Creating
  <1>3. Quiet(EdgeIdle)
    BY DEF EdgeIdle
  <1>4. CASE edgeTask' = edgeTask /\ instances' \subseteq instances
               /\ deployed' \subseteq deployed
    <2>1. ~Creating(a)'
      BY <1>1, <1>4, Zenon DEF Creating
    <2> QED BY <1>4, <2>1
  <1>5. ASSUME NEW c \in EdgeConnection, NEW b \in App, NEW z \in Zone \cup ForeignZone,
               CreateAppInstance(c, b, z)
        PROVE  ~Creating(a)' /\ UNCHANGED <<instances, deployed>>
    <2>1. b # a /\ Serve(c, <<"instance", b, z>>) /\ UNCHANGED <<instances, deployed>>
      BY <1>5 DEF CreateAppInstance
    <2>2. Quiet(<<"instance", b, z>>)
      BY <2>1
    <2> QED BY <1>2, <2>1, <2>2
  <1>6. ASSUME NEW c \in EdgeConnection, InsertInstance(c)
        PROVE  /\ ~Creating(a)' /\ UNCHANGED deployed
               /\ \A z \in Zone : <<a, z>> \in instances' => <<a, z>> \in instances
    <2>1. PICK b \in App, y \in Zone : /\ edgeTask[c] = <<"instance", b, y>>
                                       /\ instances' = instances \cup {<<b, y>>}
      BY <1>6 DEF InsertInstance
    <2>2. b # a
      BY <1>1, <2>1, Zenon
    <2>3. Serve(c, EdgeIdle) /\ UNCHANGED deployed
      BY <1>6 DEF InsertInstance
    <2> QED BY <1>2, <1>3, <2>1, <2>2, <2>3
  <1>7. ASSUME NEW c \in EdgeConnection, NEW e \in Identity, CreateAppDeployment(c, e)
        PROVE  ~Creating(a)' /\ UNCHANGED <<instances, deployed>>
    <2>1. e.app # a /\ Serve(c, <<"deployment", e>>) /\ UNCHANGED <<instances, deployed>>
      BY <1>7 DEF CreateAppDeployment
    <2>2. Quiet(<<"deployment", e>>)
      BY <2>1
    <2> QED BY <1>2, <2>1, <2>2
  <1>8. ASSUME NEW c \in EdgeConnection, InsertDeployment(c)
        PROVE  /\ ~Creating(a)' /\ UNCHANGED instances
               /\ \A d \in deployed' : d.app = a => d \in deployed
    <2>1. PICK e \in Identity : /\ edgeTask[c] = <<"deployment", e>>
                                /\ deployed' \subseteq deployed \cup {e}
      BY <1>8, SMT DEF InsertDeployment
    <2>2. e.app # a
      BY <1>1, <2>1, Zenon
    <2>3. Serve(c, EdgeIdle) /\ UNCHANGED instances
      BY <1>8 DEF InsertDeployment
    <2> QED BY <1>2, <1>3, <2>1, <2>2, <2>3
  <1>9. ASSUME NEW c \in EdgeConnection, NEW e \in Identity,
               NEW name \in DeploymentName \cup {Absent}, NEW zones \in ZoneList \cup {Absent},
               UpdateAppDeployment(c, e, name, zones)
        PROVE  ~Creating(a)' /\ UNCHANGED <<instances, deployed>>
    <2> DEFINE merged == Merged(deployment[e], name, zones)
    <2>1. Serve(c, <<"patch", e, merged>>) /\ UNCHANGED <<instances, deployed>>
      BY <1>9 DEF UpdateAppDeployment
    <2> HIDE DEF merged
    <2>2. Quiet(<<"patch", e, merged>>)
      OBVIOUS
    <2> QED BY <1>2, <2>1, <2>2
  <1>10. ASSUME NEW c \in EdgeConnection, StoreUpdate(c)
         PROVE  ~Creating(a)' /\ UNCHANGED <<instances, deployed>>
    <2>1. Serve(c, EdgeIdle) /\ UNCHANGED <<instances, deployed>>
      BY <1>10 DEF StoreUpdate
    <2> QED BY <1>2, <1>3, <2>1
  <1>11. ASSUME \/ \E b \in App : SubmitApp(b) \/ DeleteApp(b)
                \/ \E b \in App, z \in Zone : DeleteAppInstance(b, z)
                \/ \E d \in Identity : DeleteAppDeployment(d)
         PROVE  edgeTask' = edgeTask /\ instances' \subseteq instances
                  /\ deployed' \subseteq deployed
    BY <1>11 DEF SubmitApp, DeleteApp, DeleteAppInstance, DeleteAppDeployment
  <1> HIDE DEF Quiet
  <1> QED BY <1>4, <1>5, <1>6, <1>7, <1>8, <1>9, <1>10, <1>11 DEF EdgeNext

LEMMA QuietStep == EdgeInv /\ [EdgeNext]_edgeVars => [GoneStaysQuiet]_edgeVars
  BY QuietAppStep DEF GoneStaysQuiet

\* The catalogue is coherent, no patch brings a deleted deployment back, and a
\* deleted application stays quiet once the creations in service have ended.
THEOREM CatalogueIsSound == EdgeSpec => CatalogueSound
  BY EdgeInitInv, EdgeNextInv, EdgeInvCoherent, EdgeStepStores, QuietStep, PTL
     DEF EdgeSpec, CatalogueSound

-----------------------------------------------------------------------------
\* Two stored deployments are the same.
Twins(d, e) ==
    {d, e} \subseteq deployed /\ d # e /\ deployment[d] = deployment[e]

\* Two deployments become the same only if a patch had already written one of
\* them: the identity check of deployment_store compares keys, so it misses
\* only an identity that an earlier patch moved away from its key.
TwinsHaveBeenPatched ==
    \A d, e \in Identity : Twins(d, e)' /\ ~Twins(d, e) => {d, e} \cap patched # {}

\* One key at most gets a new value, and that value is no other stored key.
LEMMA OneEntryStep ==
  ASSUME EdgeInv, [EdgeNext]_edgeVars
  PROVE  \/ /\ deployed' \subseteq deployed /\ deployment' = deployment
         \/ \E d \in Identity :
               /\ deployed' \subseteq deployed \cup {d} /\ deployment'[d] \in Identity
               /\ \A e \in Identity \ {d} : deployment'[e] = deployment[e]
               /\ deployment'[d] \notin deployed \ {d}
  <1>1. CASE UNCHANGED edgeVars
    BY <1>1 DEF edgeVars
  <1>2. ASSUME NEW c \in EdgeConnection, InsertDeployment(c)
        PROVE  \/ /\ deployed' \subseteq deployed /\ deployment' = deployment
               \/ \E d \in Identity :
                     /\ deployed' \subseteq deployed \cup {d} /\ deployment'[d] \in Identity
                     /\ \A e \in Identity \ {d} : deployment'[e] = deployment[e]
                     /\ deployment'[d] \notin deployed \ {d}
    <2>1. PICK d \in Identity :
             IF d \in deployed THEN UNCHANGED <<deployed, deployment>>
             ELSE /\ deployed' = deployed \cup {d}
                  /\ deployment' = [deployment EXCEPT ![d] = d]
      BY <1>2 DEF InsertDeployment
    <2> QED BY <2>1 DEF EdgeInv, EdgeTypeOK
  <1>3. ASSUME NEW c \in EdgeConnection, StoreUpdate(c)
        PROVE  \/ /\ deployed' \subseteq deployed /\ deployment' = deployment
               \/ \E d \in Identity :
                     /\ deployed' \subseteq deployed \cup {d} /\ deployment'[d] \in Identity
                     /\ \A e \in Identity \ {d} : deployment'[e] = deployment[e]
                     /\ deployment'[d] \notin deployed \ {d}
    <2>1. PICK d \in Identity, e \in Identity :
             IF d \in deployed /\ (e # d => e \notin deployed)
             THEN deployment' = [deployment EXCEPT ![d] = e]
             ELSE UNCHANGED deployment
      BY <1>3 DEF StoreUpdate
    <2>2. deployed' = deployed
      BY <1>3 DEF StoreUpdate
    <2> QED BY <2>1, <2>2 DEF EdgeInv, EdgeTypeOK
  <1>4. CASE /\ EdgeNext
             /\ \A c \in EdgeConnection : ~InsertDeployment(c) /\ ~StoreUpdate(c)
    <2>1. deployed' \subseteq deployed /\ deployment' = deployment
      BY <1>4 DEF EdgeNext, SubmitApp, DeleteApp, DeleteAppInstance, DeleteAppDeployment,
         CreateAppInstance, InsertInstance, CreateAppDeployment, UpdateAppDeployment
    <2> QED BY <2>1
  <1> QED BY <1>1, <1>2, <1>3, <1>4, Zenon

LEMMA TwinsStep == EdgeInv /\ [EdgeNext]_edgeVars => [TwinsHaveBeenPatched]_edgeVars
  <1> SUFFICES ASSUME EdgeInv, [EdgeNext]_edgeVars, NEW d \in Identity, NEW e \in Identity,
                      {d, e} \subseteq deployed', d # e, deployment'[d] = deployment'[e],
                      ~({d, e} \subseteq deployed /\ deployment[d] = deployment[e]),
                      d \notin patched, e \notin patched
               PROVE  FALSE
    BY DEF TwinsHaveBeenPatched, Twins
  <1>1. \A x \in deployed \ patched : deployment[x] = x
    BY DEF EdgeInv, UnpatchedInv
  <1>2. PICK x \in Identity :
           /\ deployed' \subseteq deployed \cup {x}
           /\ \A y \in Identity \ {x} : deployment'[y] = deployment[y]
           /\ deployment'[x] \notin deployed \ {x}
    BY OneEntryStep
  <1> QED BY <1>1, <1>2

\* Two deployments become the same only through one that a patch had moved:
\* what the 409 of the patch and of the creation does guarantee.
THEOREM TwinsNeedEarlierPatch == EdgeSpec => [][TwinsHaveBeenPatched]_edgeVars
  BY EdgeInitInv, EdgeNextInv, TwinsStep, PTL DEF EdgeSpec

-----------------------------------------------------------------------------
(* In-home devices *)

Pair(c) == <<patching[c].ssid, patching[c].device>>
Field == DOMAIN NoOverlay

\* A pair the maps may have an entry of.
Member(k) == ~IsReservedError(k[1]) /\ k[2] \in Household(k[1])

\* The patch of `c` is between its check and its answer, or panicked there.
Confirmed(c) == patching[c].pc \in {"confirmed", "merged"}
Written(c) == patching[c].pc \in {"merged", "panicked"}

\* A delete of the very device whose patch is in service.
DeleteUnderPatch ==
    \E c \in HomeConnection : Confirmed(c) /\ Pair(c) \in tombstones' \ tombstones

\* Only members of a household are ever deleted or overridden.
MembersOnly ==
    \A k \in Ssid \X DeviceId : k \in tombstones \/ overlays[k] # NoOverlay => Member(k)

\* A patch that panics did not fail: the device was deleted under it, and what
\* it was to write is written, although the client gets no answer.
PanicsExplained ==
    \A c \in HomeConnection : patching[c].pc = "panicked" =>
       /\ Pair(c) \in tombstones
       /\ \A f \in Field : patching[c].patch[f] # Unset => overlays[Pair(c)][f] # Unset

\* No patch takes an override of another back to what the roster computes.
OverridesStay ==
    \A k \in Ssid \X DeviceId, f \in Field :
       overlays[k][f] # Unset => overlays'[k][f] # Unset

HomeTypeOK ==
    /\ tombstones \subseteq Ssid \X DeviceId
    /\ overlays \in [Ssid \X DeviceId -> Overlay]
    /\ patching \in [HomeConnection ->
          [pc : {"idle", "confirmed", "merged", "panicked"},
           ssid : Ssid \cup {<<>>}, device : DeviceId, patch : Overlay]]
PatchInv ==
    \A c \in HomeConnection : Confirmed(c) \/ Written(c) =>
       patching[c].ssid \in Ssid /\ Member(Pair(c))
WrittenInv ==
    \A c \in HomeConnection : Written(c) =>
       \A f \in Field : patching[c].patch[f] # Unset => overlays[Pair(c)][f] # Unset
PanicInv ==
    \A c \in HomeConnection : patching[c].pc = "panicked" => Pair(c) \in tombstones

HomeInv == HomeTypeOK /\ MembersOnly /\ PatchInv /\ WrittenInv /\ PanicInv

LEMMA HomeData ==
  /\ NoOverlay \in Overlay /\ Gateway \in DeviceId
  /\ \A o \in Overlay : o \in [Field -> Setting \cup {Unset}]
  /\ \A o, p \in Overlay :
        /\ Overlaid(o, p) \in Overlay
        /\ \A f \in Field : /\ o[f] # Unset => Overlaid(o, p)[f] # Unset
                            /\ p[f] # Unset => Overlaid(o, p)[f] # Unset
  BY DEF Overlay, NoOverlay, Overlaid, Field, DeviceId, Gateway, MaxClients

LEMMA HomeInitInv == HomeInit => HomeInv
  BY HomeData DEF HomeInit, HomeInv, HomeTypeOK, MembersOnly, PatchInv, WrittenInv,
                  PanicInv, Confirmed, Written, NotPatching

LEMMA DeleteDeviceStep ==
  ASSUME HomeInv, NEW ssid \in Ssid, NEW d \in DeviceId, DeleteDevice(ssid, d)
  PROVE  HomeInv' /\ OverridesStay
  <1>1. /\ Member(<<ssid, d>>) /\ <<ssid, d>> \in Ssid \X DeviceId
        /\ tombstones' = tombstones \cup {<<ssid, d>>}
        /\ UNCHANGED <<overlays, patching>>
    BY DEF DeleteDevice, Member
  <1>2. HomeTypeOK' /\ MembersOnly'
    BY <1>1 DEF HomeInv, HomeTypeOK, MembersOnly, Member
  <1>3. PatchInv' /\ WrittenInv' /\ PanicInv'
    BY <1>1 DEF HomeInv, PatchInv, WrittenInv, PanicInv, Confirmed, Written, Pair, Member
  <1> QED BY <1>1, <1>2, <1>3 DEF HomeInv, OverridesStay

LEMMA UpdateDeviceStep ==
  ASSUME HomeInv, NEW c \in HomeConnection, NEW ssid \in Ssid, NEW d \in DeviceId,
         NEW patch \in Overlay, UpdateDevice(c, ssid, d, patch)
  PROVE  HomeInv' /\ OverridesStay
  <1> DEFINE new == [pc |-> "confirmed", ssid |-> ssid, device |-> d, patch |-> patch]
  <1>1. /\ Member(<<ssid, d>>)
        /\ patching' = [patching EXCEPT ![c] = new]
        /\ UNCHANGED <<tombstones, overlays>>
    BY DEF UpdateDevice, IsLive, Member
  <1>2. /\ new.pc = "confirmed" /\ new.ssid = ssid /\ new.device = d
        /\ new \in [pc : {"idle", "confirmed", "merged", "panicked"},
                    ssid : Ssid \cup {<<>>}, device : DeviceId, patch : Overlay]
    OBVIOUS
  <1> HIDE DEF new
  <1>3. /\ patching'[c] = new
        /\ \A o \in HomeConnection \ {c} : patching'[o] = patching[o]
    BY <1>1 DEF HomeInv, HomeTypeOK
  <1>4. HomeTypeOK' /\ MembersOnly'
    BY <1>1, <1>2 DEF HomeInv, HomeTypeOK, MembersOnly, Member
  <1>5. PatchInv'
    BY <1>1, <1>2, <1>3 DEF HomeInv, PatchInv, Confirmed, Written, Pair, Member
  <1>6. WrittenInv' /\ PanicInv'
    BY <1>1, <1>2, <1>3 DEF HomeInv, WrittenInv, PanicInv, Written, Pair
  <1> QED BY <1>1, <1>4, <1>5, <1>6 DEF HomeInv, OverridesStay

LEMMA MergeOverlayStep ==
  ASSUME HomeInv, NEW c \in HomeConnection, MergeOverlay(c)
  PROVE  HomeInv' /\ OverridesStay
  <1> DEFINE k == Pair(c)
             new == Overlaid(overlays[k], patching[c].patch)
  <1>1. /\ patching[c].pc = "confirmed" /\ patching[c].patch \in Overlay
        /\ k \in Ssid \X DeviceId /\ Member(k) /\ overlays[k] \in Overlay
    BY DEF HomeInv, HomeTypeOK, PatchInv, MergeOverlay, Confirmed, Pair
  <1>2. /\ new \in Overlay
        /\ \A f \in Field : /\ overlays[k][f] # Unset => new[f] # Unset
                            /\ patching[c].patch[f] # Unset => new[f] # Unset
    BY <1>1, HomeData
  <1>3. /\ overlays' = [overlays EXCEPT ![k] = new]
        /\ patching' = [patching EXCEPT ![c].pc = "merged"]
        /\ UNCHANGED tombstones
    BY DEF MergeOverlay, Continue, Pair
  <1> HIDE DEF new
  <1>4. /\ overlays' \in [Ssid \X DeviceId -> Overlay] /\ overlays'[k] = new
        /\ \A h \in (Ssid \X DeviceId) \ {k} : overlays'[h] = overlays[h]
    BY <1>1, <1>2, <1>3 DEF HomeInv, HomeTypeOK
  <1>5. /\ \A o \in HomeConnection : Pair(o)' = Pair(o)
                                     /\ patching'[o].patch = patching[o].patch
                                     /\ patching'[o].ssid = patching[o].ssid
        /\ \A o \in HomeConnection \ {c} : patching'[o] = patching[o]
        /\ patching'[c].pc = "merged"
        /\ patching' \in [HomeConnection ->
             [pc : {"idle", "confirmed", "merged", "panicked"},
              ssid : Ssid \cup {<<>>}, device : DeviceId, patch : Overlay]]
    BY <1>3 DEF HomeInv, HomeTypeOK, Pair
  <1>6. OverridesStay
    BY <1>1, <1>2, <1>4 DEF OverridesStay
  <1>7. HomeTypeOK'
    BY <1>3, <1>4, <1>5 DEF HomeInv, HomeTypeOK
  <1>8. MembersOnly'
    BY <1>1, <1>3, <1>4 DEF HomeInv, MembersOnly, Member
  <1>9. PatchInv' /\ PanicInv'
    BY <1>1, <1>3, <1>5 DEF HomeInv, PatchInv, PanicInv, Confirmed, Written, Member, Pair
  <1>10. WrittenInv'
    <2> SUFFICES ASSUME NEW o \in HomeConnection, Written(o)', NEW f \in Field,
                        patching'[o].patch[f] # Unset
                 PROVE  overlays'[Pair(o)'][f] # Unset
      BY DEF WrittenInv
    <2>1. CASE o = c
      BY <2>1, <1>2, <1>4, <1>5
    <2>2. CASE o # c
      <3>1. Written(o) /\ Pair(o) \in Ssid \X DeviceId
        BY <2>2, <1>5 DEF Written, Pair, HomeInv, HomeTypeOK, PatchInv
      <3>2. overlays[Pair(o)][f] # Unset
        BY <3>1, <1>5 DEF HomeInv, WrittenInv
      <3> QED BY <3>1, <3>2, <1>5, <1>6 DEF OverridesStay
    <2> QED BY <2>1, <2>2
  <1> QED BY <1>6, <1>7, <1>8, <1>9, <1>10 DEF HomeInv

LEMMA RenderStep ==
  ASSUME HomeInv, NEW c \in HomeConnection, RenderUpdate(c) \/ RenderPanics(c)
  PROVE  HomeInv' /\ OverridesStay
  <1>1. UNCHANGED <<tombstones, overlays>>
    BY DEF RenderUpdate, RenderPanics
  <1>2. /\ patching' \in [HomeConnection ->
             [pc : {"idle", "confirmed", "merged", "panicked"},
              ssid : Ssid \cup {<<>>}, device : DeviceId, patch : Overlay]]
        /\ \A o \in HomeConnection :
              \/ patching'[o] = patching[o]
              \/ patching'[o].pc = "idle"
              \/ /\ patching[o].pc = "merged" /\ patching'[o].pc = "panicked"
                 /\ ~IsLive(patching[o].ssid, patching[o].device)
                 /\ patching'[o].ssid = patching[o].ssid
                 /\ patching'[o].device = patching[o].device
                 /\ patching'[o].patch = patching[o].patch
    BY HomeData DEF HomeInv, HomeTypeOK, RenderUpdate, RenderPanics, Answer, Continue,
                    NotPatching
  <1>3. HomeTypeOK' /\ MembersOnly'
    BY <1>1, <1>2 DEF HomeInv, HomeTypeOK, MembersOnly
  <1>4. PatchInv' /\ WrittenInv'
    BY <1>1, <1>2 DEF HomeInv, PatchInv, WrittenInv, Confirmed, Written, Pair
  <1>5. PanicInv'
    BY <1>1, <1>2 DEF HomeInv, PatchInv, PanicInv, Confirmed, Pair, IsLive, Member
  <1> QED BY <1>1, <1>3, <1>4, <1>5 DEF HomeInv, OverridesStay

LEMMA HomeNextInv == HomeInv /\ [HomeNext]_homeVars => HomeInv' /\ [OverridesStay]_homeVars
  <1> SUFFICES ASSUME HomeInv, [HomeNext]_homeVars PROVE HomeInv' /\ [OverridesStay]_homeVars
    OBVIOUS
  <1>1. CASE UNCHANGED homeVars
    BY <1>1 DEF homeVars, HomeInv, HomeTypeOK, MembersOnly, PatchInv, WrittenInv, PanicInv,
                Confirmed, Written, Pair
  <1>2. CASE HomeNext
    BY <1>2, DeleteDeviceStep, UpdateDeviceStep, MergeOverlayStep, RenderStep DEF HomeNext
  <1> QED BY <1>1, <1>2

\* Deletes and patches of in-home devices keep to the households' members.
THEOREM OnlyMembersChange == HomeSpec => []MembersOnly
  <1>1. HomeInv => MembersOnly
    BY DEF HomeInv
  <1> QED BY <1>1, HomeInitInv, HomeNextInv, PTL DEF HomeSpec

\* An override, once written, is never undone, whatever patches overlap it.
THEOREM OverridesAreKept == HomeSpec => [][OverridesStay]_homeVars
  BY HomeInitInv, HomeNextInv, PTL DEF HomeSpec

\* A panic of update_device loses the answer and nothing else.
THEOREM PanicsLoseOnlyTheAnswer == HomeSpec => []PanicsExplained
  <1>1. HomeInv => PanicsExplained
    BY DEF HomeInv, PanicsExplained, WrittenInv, PanicInv, Written
  <1> QED BY <1>1, HomeInitInv, HomeNextInv, PTL DEF HomeSpec

-----------------------------------------------------------------------------
\* The device of every patch in service is live.
LiveInv == \A c \in HomeConnection : Confirmed(c) => Pair(c) \notin tombstones

LEMMA LiveStep ==
  ASSUME HomeInv, LiveInv, ConfirmedStaysLive, [HomeNext]_homeVars,
         [~DeleteUnderPatch]_homeVars
  PROVE  LiveInv' /\ ConfirmedStaysLive'
  <1>1. CASE UNCHANGED homeVars
    BY <1>1 DEF homeVars, LiveInv, ConfirmedStaysLive, Confirmed, Pair
  <1>2. ASSUME NEW ssid \in Ssid, NEW d \in DeviceId, DeleteDevice(ssid, d)
        PROVE  LiveInv' /\ ConfirmedStaysLive'
    <2>1. patching' = patching
      BY <1>2 DEF DeleteDevice
    <2>2. CASE UNCHANGED homeVars
      BY <1>1, <2>2
    <2>3. CASE ~DeleteUnderPatch
      BY <2>1, <2>3 DEF DeleteUnderPatch, LiveInv, ConfirmedStaysLive, Confirmed, Pair
    <2> QED BY <2>2, <2>3
  <1>3. ASSUME NEW c \in HomeConnection, NEW ssid \in Ssid, NEW d \in DeviceId,
               NEW patch \in Overlay, UpdateDevice(c, ssid, d, patch)
        PROVE  LiveInv' /\ ConfirmedStaysLive'
    BY <1>3 DEF UpdateDevice, IsLive, HomeInv, HomeTypeOK, LiveInv, ConfirmedStaysLive,
                Confirmed, Pair
  <1>4. ASSUME NEW c \in HomeConnection, MergeOverlay(c) \/ RenderUpdate(c)
        PROVE  LiveInv' /\ ConfirmedStaysLive'
    BY <1>4 DEF MergeOverlay, RenderUpdate, Continue, Answer, NotPatching, HomeInv,
                HomeTypeOK, LiveInv, ConfirmedStaysLive, Confirmed, Pair
  <1>5. ASSUME NEW c \in HomeConnection PROVE ~RenderPanics(c)
    BY DEF RenderPanics, IsLive, HomeInv, PatchInv, LiveInv, Confirmed, Pair, Member
  <1> QED BY <1>1, <1>2, <1>3, <1>4, <1>5 DEF HomeNext

\* The `expect` of update_device fails only if the device is deleted between
\* its check and its answer: the exact scope of what v1.rs expects.
THEOREM LiveUnlessDeleted ==
  HomeSpec /\ [][~DeleteUnderPatch]_homeVars => []ConfirmedStaysLive
  <1>1. HomeInit => LiveInv /\ ConfirmedStaysLive
    BY DEF HomeInit, LiveInv, ConfirmedStaysLive, Confirmed, NotPatching
  <1>2. HomeInv /\ LiveInv /\ ConfirmedStaysLive /\ [HomeNext]_homeVars
           /\ [~DeleteUnderPatch]_homeVars => LiveInv' /\ ConfirmedStaysLive'
    BY LiveStep
  <1> QED BY <1>1, <1>2, HomeInitInv, HomeNextInv, PTL DEF HomeSpec

=============================================================================
