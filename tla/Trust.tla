------------------------------- MODULE Trust --------------------------------
(***************************************************************************)
(* Which devices the daemon trusts: the one-time pairing secret and the    *)
(* registry of paired devices, in memory and on disk                       *)
(* (infrastructure/pairing.ts), the messages that pair and authenticate    *)
(* (interface/clientConnection.ts), and revocation with everything it must *)
(* take along (application/commands.ts, interface/clientHub.ts,            *)
(* application/pushService.ts, domain/deviceSessions.ts); and the clients  *)
(* that pair: `cc pair', `cc pair-code' and `cc pair-qr' (cli/src/cc.ts)   *)
(* and the phone (mobile/src/core/protocol/pairing.ts).                    *)
(*                                                                         *)
(* A device is the random id one completed pairing mints.  A proof is      *)
(* right exactly when it was made with the secret the daemon is waiting    *)
(* for.  A machine keeps one device record and runs one pairing at a time. *)
(* A handler runs to its end undisturbed, unless the daemon is killed in   *)
(* the middle: writeFileSync truncates the store and then writes it.       *)
(* Messages other than complete_pair that the daemon refuses change        *)
(* nothing and are no action.                                              *)
(***************************************************************************)
EXTENDS Naturals, FiniteSets

CONSTANTS
  Devices,      \* ids that pairings mint, each at most once
  Machines,     \* computers with a device.json, and phones
  MaxPaired,    \* CC_MAX_PAIRED_DEVICES
  Faults,       \* which of FaultKinds may happen
  MaxSecrets,   \* bound: calls of begin_pair
  MaxRestarts   \* bound: how often the daemon dies

\* "store": writing the identity store throws, before or after it was truncated or at the
\* chmod; "push": the DELETE of a push registration throws.
FaultKinds == {"store", "push"}

ASSUME TrustAssumption ==
  /\ IsFiniteSet(Devices)
  /\ MaxPaired \in Nat
  /\ Faults \subseteq FaultKinds
  /\ MaxSecrets \in Nat /\ MaxRestarts \in Nat

VARIABLES
  alive,     \* the daemon is running
  issued,    \* history: secrets handed out so far, numbered from 1
  pending,   \* Identity.pendingPairing: its secret, 0 when there is none
  fresh,     \* the pending secret has not expired
  devices,   \* Identity.devices
  file,      \* the identity store on disk: "none", "whole", or "torn" when it was cut short
  stored,    \* the devices in it
  push,      \* devices with a row in push_registrations
  authed,    \* devices with a connection the hub knows
  registry,  \* devices with an entry in DeviceSessionRegistry
  minted,    \* history: device ids used so far
  pair,      \* the pairing each machine is in: a secret it sent the proof of, and the
             \* device it was told it is
  holds,     \* the device in each machine's record, as a set of at most one
  admitted,  \* history: the devices each secret admitted
  revoked,   \* history: confirmed revocations, <<who asked, whom>>
  threw,     \* history: a write failed
  halved,    \* history: devices whose revocation a kill cut short once it was on disk
  lost,      \* history: devices that were in a store a kill cut short
  restarts   \* history: how often the daemon died

pairing == <<issued, pending, fresh>>
disk    == <<file, stored>>
trusted == <<devices, disk>>
cutoff  == <<halved, lost>>
history == <<minted, admitted, revoked, threw, cutoff>>
clients == <<pair, holds>>
vars == <<alive, pairing, trusted, push, authed, registry, clients, history, restarts>>

Secrets == 1..MaxSecrets

NoPairing == [k |-> 0, told |-> {}]

\* Before the first run.
Init ==
  /\ alive = FALSE
  /\ issued = 0 /\ pending = 0 /\ fresh = FALSE
  /\ devices = {} /\ file = "none" /\ stored = {}
  /\ push = {} /\ authed = {} /\ registry = {}
  /\ pair = [m \in Machines |-> NoPairing] /\ holds = [m \in Machines |-> {}]
  /\ minted = {}
  /\ admitted = [k \in Secrets |-> {}]
  /\ revoked = {} /\ threw = FALSE /\ halved = {} /\ lost = {}
  /\ restarts = 0

----------------------------------------------------------------------------
(* Pairing.                                                                *)

\* begin_pair on the local socket: a new secret replaces the one before.
BeginPairing ==
  /\ alive
  /\ issued < MaxSecrets
  /\ issued' = issued + 1
  /\ pending' = issued'
  /\ fresh' = TRUE

\* pair-code and pair-qr: the secret is shown, for some machine to use.
BeginPairLocal ==
  /\ BeginPairing
  /\ UNCHANGED <<alive, trusted, push, authed, registry, clients, history, restarts>>

\* The machine sends the proof of secret k, with a new key pair.
SendCompletePair(m, k) == pair[m] = NoPairing /\ pair' = [pair EXCEPT ![m].k = k]

\* cc pair on the daemon's machine: begin_pair, and the proof of what it answers.
RunPair(m) ==
  /\ BeginPairing
  /\ SendCompletePair(m, issued')
  /\ UNCHANGED <<alive, trusted, push, authed, registry, holds, history, restarts>>

\* A machine is given a code, old or new: CC_PAIR_CODE, or what the phone scanned.
RunPairFromCode(m, k) ==
  /\ alive
  /\ k <= issued
  /\ SendCompletePair(m, k)
  /\ UNCHANGED <<alive, pairing, trusted, push, authed, registry, holds, history, restarts>>

\* PAIRING_TTL_MS passes.
Expire ==
  /\ pending # 0 /\ fresh
  /\ fresh' = FALSE
  /\ UNCHANGED <<alive, issued, pending, trusted, push, authed, registry, clients, history,
                 restarts>>

\* Mutant: an expired secret still has its slot, a used one keeps it too.
Burn_Keeps == UNCHANGED <<issued, pending, fresh>>

\* The secret is used up.
Burn ==
  /\ pending' = 0
  /\ fresh' = FALSE
  /\ UNCHANGED issued

\* Mutant: the store is written at the next shutdown.
Persist_Deferred == UNCHANGED disk

\* persist: the store on disk becomes the registry in memory.
Persist == file' = "whole" /\ stored' = devices'

\* persist stops in writeFileSync, after the truncation.
Cut == file' = "torn" /\ stored' = {}

\* persist throws: before, in or after writeFileSync.
PersistFails ==
  /\ "store" \in Faults
  /\ threw' = TRUE
  /\ UNCHANGED disk \/ Cut \/ Persist

\* The cap, then the secret: outstanding, not expired, and the one proved.
Admissible(k) == Cardinality(devices) < MaxPaired /\ k = pending /\ fresh

\* complete_pair from m is admitted: it is the new device d.
Admit(m, d) ==
  /\ alive
  /\ pair[m].k # 0 /\ Admissible(pair[m].k)
  /\ d \notin minted
  /\ minted' = minted \cup {d}
  /\ admitted' = [admitted EXCEPT ![pair[m].k] = @ \cup {d}]

\* completePairing.  When the store cannot be written there is no answer.
CompletePairing(m, d) ==
  /\ Admit(m, d)
  /\ Burn
  /\ devices' = devices \cup {d}
  /\ \/ Persist /\ pair' = [pair EXCEPT ![m] = [k |-> 0, told |-> {d}]] /\ UNCHANGED threw
     \/ PersistFails /\ UNCHANGED pair
  /\ UNCHANGED <<alive, push, authed, registry, holds, revoked, cutoff, restarts>>

\* `paired' reaches the machine: the record it had is overwritten.
SavePairedDevice(m) ==
  /\ pair[m].told # {}
  /\ holds' = [holds EXCEPT ![m] = pair[m].told]
  /\ pair' = [pair EXCEPT ![m] = NoPairing]
  /\ UNCHANGED <<alive, pairing, trusted, push, authed, registry, history, restarts>>

\* `pair_failed', a broken connection or a killed process: the machine keeps what it had.
PairFailed(m) ==
  /\ pair[m] # NoPairing
  /\ pair' = [pair EXCEPT ![m] = NoPairing]
  /\ UNCHANGED <<alive, pairing, trusted, push, authed, registry, holds, history, restarts>>

----------------------------------------------------------------------------
(* Connections.                                                            *)

\* hello of a device find() knows.
Hello(d) ==
  /\ alive
  /\ \E m \in Machines : d \in holds[m]
  /\ d \in devices
  /\ authed' = authed \cup {d}
  /\ registry' = registry \cup {d}
  /\ UNCHANGED <<alive, pairing, trusted, push, clients, history, restarts>>

\* The last connection of the device closes.
Disconnect(d) ==
  /\ d \in authed
  /\ authed' = authed \ {d}
  /\ UNCHANGED <<alive, pairing, trusted, push, registry, clients, history, restarts>>

\* register_push, for the device the frame authenticates.
RegisterPush(d) ==
  /\ d \in authed
  /\ push' = push \cup {d}
  /\ UNCHANGED <<alive, pairing, trusted, authed, registry, clients, history, restarts>>

----------------------------------------------------------------------------
(* Revocation.                                                             *)

\* disconnectDevice: the device's entries are dropped and its sockets closed.  Back
\* in the read loop, markProcessed makes an entry for the device that asked.
DisconnectDevice(by, d) ==
  /\ authed' = authed \ {d}
  /\ registry' = (registry \ {d}) \cup {by}

\* What revoke does first, if the device is known.
Untrust(by, d) ==
  /\ by \in authed
  /\ d \in devices
  /\ devices' = devices \ {d}

\* Mutant: the registry in memory is changed and not written.
Revoke_Unsaved(by, d) ==
  /\ Untrust(by, d)
  /\ UNCHANGED disk
  /\ push' = push \ {d}
  /\ revoked' = revoked \cup {<<by, d>>}
  /\ DisconnectDevice(by, d)
  /\ UNCHANGED <<alive, pairing, clients, minted, admitted, threw, cutoff, restarts>>

\* revoke: trust, the push token, the confirmation, then the connections.
Revoke(by, d) ==
  /\ Untrust(by, d)
  /\ Persist
  /\ push' = push \ {d}
  /\ revoked' = revoked \cup {<<by, d>>}
  /\ DisconnectDevice(by, d)
  /\ UNCHANGED <<alive, pairing, clients, minted, admitted, threw, cutoff, restarts>>

\* The store, or the push table, cannot be written: the guard around the handler
\* drops the rest of it.
RevokeFails(by, d) ==
  /\ Untrust(by, d)
  /\ \/ PersistFails
     \/ "push" \in Faults /\ threw' = TRUE /\ Persist
  /\ UNCHANGED <<alive, pairing, push, authed, registry, clients, minted, admitted, revoked,
                 cutoff, restarts>>

----------------------------------------------------------------------------
(* Death and restart.                                                      *)

\* The daemon dies: the store and the tables remain.
Die ==
  /\ alive
  /\ restarts < MaxRestarts
  /\ restarts' = restarts + 1
  /\ alive' = FALSE
  /\ pending' = 0 /\ fresh' = FALSE
  /\ devices' = {} /\ authed' = {} /\ registry' = {}
  /\ pair' = [m \in Machines |-> [pair[m] EXCEPT !.k = 0]]
  /\ UNCHANGED <<issued, holds, revoked, threw>>

\* Between two handlers, or at the end of one.
Crash == Die /\ UNCHANGED <<disk, push, minted, admitted, cutoff>>

\* In writeFileSync: the devices of the store are lost with it.
CutShort == Die /\ Cut /\ lost' = lost \cup stored /\ UNCHANGED <<push, halved>>

\* Killed while the store is written, for a pairing.
PairingKilled(m, d) == Admit(m, d) /\ CutShort

\* Killed while the store is written, or after that, before the confirmation.
RevokeKilled(by, d) ==
  /\ by \in authed /\ d \in devices
  /\ \/ CutShort
     \/ /\ Die
        /\ file' = "whole" /\ stored' = devices \ {d}
        /\ push' \in {push, push \ {d}}
        /\ halved' = halved \cup {d}
        /\ UNCHANGED lost
  /\ UNCHANGED <<minted, admitted>>

\* Identity.load: the first run writes a store; one that cannot be read is an error.
Boot ==
  /\ ~alive /\ file # "torn"
  /\ alive' = TRUE
  /\ devices' = stored
  /\ file' = "whole"
  /\ UNCHANGED <<pairing, stored, push, authed, registry, clients, history, restarts>>

\* The first run is killed in persist, or fails there.
FirstRunCut ==
  /\ ~alive /\ file = "none"
  /\ Cut
  /\ UNCHANGED <<alive, pairing, devices, push, authed, registry, clients, history, restarts>>

\* The operator heeds "Fix or explicitly delete the file".
DeleteStore ==
  /\ ~alive /\ file = "torn"
  /\ file' = "none"
  /\ UNCHANGED <<alive, pairing, devices, stored, push, authed, registry, clients, history,
                 restarts>>

Next ==
  \/ BeginPairLocal \/ Expire \/ Crash \/ Boot \/ FirstRunCut \/ DeleteStore
  \/ \E m \in Machines :
       \/ RunPair(m) \/ SavePairedDevice(m) \/ PairFailed(m)
       \/ \E k \in Secrets : RunPairFromCode(m, k)
       \/ \E d \in Devices : CompletePairing(m, d) \/ PairingKilled(m, d)
  \/ \E d \in Devices :
       \/ Hello(d) \/ Disconnect(d) \/ RegisterPush(d)
       \/ \E by \in Devices : Revoke(by, d) \/ RevokeFails(by, d) \/ RevokeKilled(by, d)

Spec == Init /\ [][Next]_vars

----------------------------------------------------------------------------
(* Properties.                                                             *)

\* No order of begin_pair, expiry, retries, failed writes and restarts lets a pairing
\* secret admit a second device, or more devices than the cap into memory or onto disk,
\* also when a write failed and the two differ.
AdmissionsBounded ==
  /\ \A k \in Secrets : Cardinality(admitted[k]) <= 1
  /\ Cardinality(devices) <= MaxPaired /\ Cardinality(stored) <= MaxPaired

\* A revocation that was confirmed is final: whatever fails later and however often
\* the daemon restarts, the device is trusted nowhere, is no push target and has no
\* connection.
RevokeStands ==
  \A by, d \in Devices :
    <<by, d>> \in revoked => d \notin devices \cup stored \cup push \cup authed

\* While writes succeed, all parts agree on whom to trust, whenever the daemon is killed:
\* memory and disk, the push table and the connections ("the live connection must not
\* outlive" the trust).  Revocation "clears all per-device state", unless the device asked
\* for it itself: its own frame is marked as processed once its state is gone.  And what a
\* machine was told it is, is on disk before it is told, until it is revoked.  A kill in
\* the middle of a revocation, or of writing the store, leaves out exactly the devices it
\* was about: such a device may keep its push token and its record without being trusted.
TrustAgrees ==
  ~threw =>
    /\ \A m \in Machines : \A d \in holds[m] \cup pair[m].told :
         d \in stored \cup halved \cup lost \/ \E by \in Devices : <<by, d>> \in revoked
    /\ alive => file = "whole" /\ devices = stored /\ push \ devices \subseteq halved \cup lost
    /\ authed \subseteq devices
    /\ \A d \in registry \ devices : <<d, d>> \in revoked

=============================================================================
