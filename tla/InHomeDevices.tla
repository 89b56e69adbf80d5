--------------------------- MODULE InHomeDevices ---------------------------
(***************************************************************************)
(* In-home device management: the roster of a household is computed from   *)
(* its ssid, and two maps, each behind its own mutex, hold what was        *)
(* changed since: the devices that were deleted and the fields that were   *)
(* overridden.                                                             *)
(*                                                                         *)
(* A delete is one critical section.  A patch is three: it looks the       *)
(* device up among the live ones, merges its fields, and looks the device  *)
(* up again to render the answer.                                          *)
(***************************************************************************)
EXTENDS Scenarios

CONSTANTS
    HomeConnection,   \* HTTP connections, each with one request in service
    Ssid,             \* the ssids clients name, as their digits
    Setting,          \* values of an overridden field
    Unset             \* None

VARIABLES
    tombstones,       \* the (ssid, device) pairs that were deleted
    overlays,         \* the overridden fields of each pair
    patching          \* where each connection's PATCH is

homeVars == <<tombstones, overlays, patching>>

-----------------------------------------------------------------------------
(* Data *)

Gateway == 0
MaxClients == 5

\* The gateway and the clients of a household, by their index.
Household(ssid) ==
    Gateway .. (IF TripleZero(ssid) THEN 0
                ELSE TrailingThreeDigits(ssid) % (MaxClients + 1))

\* The last index is no household's: an unknown or malformed id.
DeviceId == Gateway .. (MaxClients + 1)

IsLive(ssid, d) == d \in Household(ssid) /\ <<ssid, d>> \notin tombstones

Overlay == [{"device_name", "blocked", "paused"} -> Setting \cup {Unset}]
NoOverlay == [f \in {"device_name", "blocked", "paused"} |-> Unset]

Overlaid(overlay, patch) ==
    [f \in DOMAIN overlay |-> IF patch[f] = Unset THEN overlay[f] ELSE patch[f]]

NotPatching == [pc |-> "idle", ssid |-> <<>>, device |-> Gateway, patch |-> NoOverlay]

Continue(c, pc) == patching' = [patching EXCEPT ![c].pc = pc]
Answer(c) == patching' = [patching EXCEPT ![c] = NotPatching]

-----------------------------------------------------------------------------
(* store::delete: 200 the first time, then 404. *)
DeleteDevice(ssid, d) ==
    /\ ~IsReservedError(ssid)
    /\ d \in Household(ssid)
    /\ tombstones' = tombstones \cup {<<ssid, d>>}
    /\ UNCHANGED <<overlays, patching>>

\* update_device up to the check that the device is a live member.
UpdateDevice(c, ssid, d, patch) ==
    /\ patching[c].pc = "idle"
    /\ ~IsReservedError(ssid)
    /\ IsLive(ssid, d)
    /\ patching' = [patching EXCEPT ![c] = [pc |-> "confirmed", ssid |-> ssid,
                                            device |-> d, patch |-> patch]]
    /\ UNCHANGED <<tombstones, overlays>>

\* store::merge_overlay, which an empty patch skips.
MergeOverlay(c) ==
    /\ patching[c].pc = "confirmed"
    /\ overlays' = [overlays EXCEPT ![<<patching[c].ssid, patching[c].device>>] =
                      Overlaid(@, patching[c].patch)]
    /\ Continue(c, "merged")
    /\ UNCHANGED tombstones

\* The device is looked up once more and expected to be there: 200.
RenderUpdate(c) ==
    /\ patching[c].pc = "merged"
    /\ IsLive(patching[c].ssid, patching[c].device)
    /\ Answer(c)
    /\ UNCHANGED <<tombstones, overlays>>

\* The lookup finds nothing and `expect` panics: no answer is ever sent.
RenderPanics(c) ==
    /\ patching[c].pc = "merged"
    /\ ~IsLive(patching[c].ssid, patching[c].device)
    /\ Continue(c, "panicked")
    /\ UNCHANGED <<tombstones, overlays>>

-----------------------------------------------------------------------------
HomeInit ==
    /\ tombstones = {}
    /\ overlays = [k \in Ssid \X DeviceId |-> NoOverlay]
    /\ patching = [c \in HomeConnection |-> NotPatching]

HomeNext ==
    \/ \E ssid \in Ssid, d \in DeviceId :
          \/ DeleteDevice(ssid, d)
          \/ \E c \in HomeConnection, patch \in Overlay : UpdateDevice(c, ssid, d, patch)
    \/ \E c \in HomeConnection : MergeOverlay(c) \/ RenderUpdate(c) \/ RenderPanics(c)

HomeSpec == HomeInit /\ [][HomeNext]_homeVars

-----------------------------------------------------------------------------
\* v1.rs expects of the device it has just patched that "the device was just
\* confirmed a live member": a PATCH that passed the check is answered.
ConfirmedStaysLive == \A c \in HomeConnection : patching[c].pc # "panicked"

=============================================================================
