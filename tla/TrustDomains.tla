---------------------------- MODULE TrustDomains ----------------------------
(***************************************************************************)
(* Network access domains: a map of trust domains and a map of the devices *)
(* registered in them, each behind its own mutex.  A domain's key is a     *)
(* hash of its service and the name it was created under, a device's of    *)
(* its domain's key and the name it was created under; both keep the key   *)
(* when they are renamed.  Deleting a domain leaves its devices.           *)
(*                                                                         *)
(* Registering a device looks its domain up under one lock and inserts     *)
(* under the other: two actions.  Every other operation is one.            *)
(***************************************************************************)
EXTENDS Scenarios

CONSTANTS
    TrustConnection,  \* HTTP connections, each with one request in service
    Subject,          \* digits of the token subject of each connection
    Service,          \* service ids
    Name,             \* names of trust domains
    Label,            \* names of devices
    Same              \* a field a patch does not have

ASSUME TrustAssumption ==
    /\ Subject \in [TrustConnection -> Seq(Digit)]
    /\ Same \notin Name /\ Same \notin Label /\ Same \notin BOOLEAN

VARIABLES
    domains,      \* the keys of the trust domain map
    domain,       \* the value under each key; kept once the key is gone
    founded,      \* keys ever in the map
    renamed,      \* domains a patch has given a name
    devices,      \* the keys of the device map: domain key and device name
    label,        \* the name in each stored device
    joining       \* the device a connection has yet to insert

trustVars == <<domains, domain, founded, renamed, devices, label, joining>>

-----------------------------------------------------------------------------
(* Data *)

DomainKey == [service : Service, name : Name]
DeviceKey == DomainKey \X Label

\* Of accessDetails, whether one carries the write-only WPA password.
TrustDomain == [service : Service, name : Name, password : BOOLEAN]

\* sanitised_access_details: no password is ever stored.
Sanitised(password) == FALSE

\* apply_trust_domain_update: what the body has replaces what is stored.
Patched(d, name, password) ==
    [d EXCEPT !.name = IF name = Same THEN @ ELSE name,
              !.password = IF password = Same THEN @ ELSE Sanitised(password)]

-----------------------------------------------------------------------------
(* Trust domains *)

\* The subject's digits select an error before anything else; then
\* store::insert: 201, or 409 if the key is there.
CreateTrustDomain(c, k, password) ==
    /\ ~IsReservedError(Subject[c])
    /\ k \notin domains
    /\ domains' = domains \cup {k}
    /\ domain' = [domain EXCEPT ![k] = [service |-> k.service, name |-> k.name,
                                        password |-> Sanitised(password)]]
    /\ founded' = founded \cup {k}
    /\ renamed' = renamed \ {k}
    /\ UNCHANGED <<devices, label, joining>>

UpdateTrustDomain(k, name, password) ==
    /\ k \in domains
    /\ domain' = [domain EXCEPT ![k] = Patched(@, name, password)]
    /\ renamed' = IF name = Same THEN renamed ELSE renamed \cup {k}
    /\ UNCHANGED <<domains, founded, devices, label, joining>>

DeleteTrustDomain(k) ==
    /\ k \in domains
    /\ domains' = domains \ {k}
    /\ UNCHANGED <<domain, founded, renamed, devices, label, joining>>

-----------------------------------------------------------------------------
(* Devices *)

\* Mutant: a domain that was there once will do.
CreateTrustDomainDeviceStale(c, k, l) ==
    /\ joining[c] = <<>>
    /\ ~IsReservedError(Subject[c])
    /\ k \in founded
    /\ joining' = [joining EXCEPT ![c] = <<k, l>>]
    /\ UNCHANGED <<domains, domain, founded, renamed, devices, label>>

\* store::get finds the domain.
CreateTrustDomainDevice(c, k, l) ==
    /\ joining[c] = <<>>
    /\ ~IsReservedError(Subject[c])
    /\ k \in domains
    /\ joining' = [joining EXCEPT ![c] = <<k, l>>]
    /\ UNCHANGED <<domains, domain, founded, renamed, devices, label>>

\* store::insert_device, whatever has become of the domain: 201, or 409.
InsertDevice(c) ==
    /\ joining[c] # <<>>
    /\ IF joining[c] \in devices THEN UNCHANGED <<devices, label>>
       ELSE /\ devices' = devices \cup {joining[c]}
            /\ label' = [label EXCEPT ![joining[c]] = joining[c][2]]
    /\ joining' = [joining EXCEPT ![c] = <<>>]
    /\ UNCHANGED <<domains, domain, founded, renamed>>

UpdateTrustDomainDevice(e, l) ==
    /\ e \in devices
    /\ label' = [label EXCEPT ![e] = IF l = Same THEN @ ELSE l]
    /\ UNCHANGED <<domains, domain, founded, renamed, devices, joining>>

\* The key need not name a domain that is still there.
DeleteTrustDomainDevice(e) ==
    /\ e \in devices
    /\ devices' = devices \ {e}
    /\ UNCHANGED <<domains, domain, founded, renamed, label, joining>>

-----------------------------------------------------------------------------
TrustInit ==
    /\ domains = {} /\ founded = {} /\ renamed = {}
    /\ domain = [k \in DomainKey |-> [service |-> k.service, name |-> k.name,
                                      password |-> FALSE]]
    /\ devices = {}
    /\ label = [e \in DeviceKey |-> e[2]]
    /\ joining = [c \in TrustConnection |-> <<>>]

TrustNext ==
    \/ \E c \in TrustConnection, k \in DomainKey :
          \/ \E password \in BOOLEAN : CreateTrustDomain(c, k, password)
          \/ \E l \in Label : CreateTrustDomainDevice(c, k, l)
    \/ \E c \in TrustConnection : InsertDevice(c)
    \/ \E k \in DomainKey :
          \/ \E name \in Name \cup {Same}, password \in BOOLEAN \cup {Same} :
                UpdateTrustDomain(k, name, password)
          \/ DeleteTrustDomain(k)
    \/ \E e \in DeviceKey :
          \/ \E l \in Label \cup {Same} : UpdateTrustDomainDevice(e, l)
          \/ DeleteTrustDomainDevice(e)

TrustSpec == TrustInit /\ [][TrustNext]_trustVars

-----------------------------------------------------------------------------
(* Properties *)

\* Every variable has its type.
TrustTypeOK ==
    /\ domains \subseteq founded /\ founded \subseteq DomainKey
    /\ renamed \subseteq DomainKey
    /\ domain \in [DomainKey -> TrustDomain]
    /\ devices \subseteq DeviceKey
    /\ label \in [DeviceKey -> Label]
    /\ joining \in [TrustConnection -> DeviceKey \cup {<<>>}]

\* No response of any operation can carry a WPA password, whichever of create
\* and patch wrote the domain last; a patch moves no domain to another service;
\* two domains of one service have one name only if a patch named one of them;
\* and a device belongs to a domain that was created, if perhaps deleted since.
TrustDomainsCoherent ==
    /\ TrustTypeOK
    /\ \A k \in domains : ~domain[k].password /\ domain[k].service = k.service
    /\ \A k, h \in domains \ renamed : domain[k] = domain[h] => k = h
    /\ \A e \in devices : e[1] \in founded

\* A registration in domain k passed its look-up and has yet to insert.
Joining(k) == \E c \in TrustConnection : joining[c] # <<>> /\ joining[c][1] = k

\* A device may be stored in a domain just deleted, but only by a registration that
\* was in service by then: once those have ended no device is added to the domain
\* until it is created again.
DeletedStaysQuiet ==
    \A k \in DomainKey \ domains :
       ~Joining(k) =>
          /\ ~Joining(k)'
          /\ \A e \in devices' : e[1] = k => e \in devices

\* Both hold of every behaviour of the trust domain endpoints.
TrustDomainsSound == []TrustDomainsCoherent /\ [][DeletedStaysQuiet]_trustVars

=============================================================================
