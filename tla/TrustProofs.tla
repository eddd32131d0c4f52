---------------------------- MODULE TrustProofs -----------------------------
(***************************************************************************)
(* Proofs about pairing and revocation, for any finite set of device ids,  *)
(* any set of machines, any cap, any combination of failing writes and     *)
(* kills inside the handlers, and any number of secrets and restarts.      *)
(***************************************************************************)
EXTENDS Trust, FiniteSetTheorems, TLAPS

Pairing == [k : 0..MaxSecrets, told : SUBSET Devices]

TypeOK ==
  /\ alive \in BOOLEAN /\ fresh \in BOOLEAN /\ threw \in BOOLEAN
  /\ issued \in 0..MaxSecrets /\ pending \in 0..MaxSecrets
  /\ devices \subseteq Devices /\ stored \subseteq Devices
  /\ file \in {"none", "whole", "torn"}
  /\ halved \subseteq Devices /\ lost \subseteq Devices
  /\ push \subseteq Devices /\ authed \subseteq Devices /\ registry \subseteq Devices
  /\ minted \subseteq Devices
  /\ pair \in [Machines -> Pairing]
  /\ holds \in [Machines -> SUBSET Devices]
  /\ admitted \in [Secrets -> SUBSET Devices]
  /\ revoked \subseteq Devices \X Devices
  /\ restarts \in 0..MaxRestarts

\* A secret that is still to be handed out, or the one that is waited for, has admitted
\* nobody; any other has admitted one device at most.
SecretsUnspent ==
  /\ pending <= issued
  /\ \A k \in Secrets : issued < k \/ k = pending => admitted[k] = {}
  /\ \A k \in Secrets : admitted[k] = {} \/ \E d \in Devices : admitted[k] = {d}

\* Memory and disk each keep the cap, whichever of the two is ahead.
Capped == Cardinality(devices) <= MaxPaired /\ Cardinality(stored) <= MaxPaired

\* Every id that is known anywhere was minted, so that no pairing can mint it again.
AllMinted ==
  /\ devices \subseteq minted /\ stored \subseteq minted
  /\ push \subseteq minted /\ authed \subseteq minted
  /\ \A by, d \in Devices : <<by, d>> \in revoked => d \in minted

\* A daemon that is down has nothing in memory, a store that is missing or torn no devices.
GoneIsEmpty ==
  /\ ~alive => devices = {} /\ authed = {} /\ registry = {}
  /\ file # "whole" => stored = {}

\* While no write failed, push tokens belong to devices on disk, also with the daemon down,
\* but for those a kill left behind.
PushOnDisk == ~threw => push \subseteq stored \cup halved \cup lost

Safe ==
  /\ SecretsUnspent
  /\ Capped
  /\ AllMinted
  /\ RevokeStands
  /\ GoneIsEmpty
  /\ PushOnDisk
  /\ TrustAgrees

IInv == TypeOK /\ Safe

----------------------------------------------------------------------------
\* The initial state satisfies the invariant.
LEMMA InitIInv == Init => IInv
  <1> SUFFICES ASSUME Init PROVE IInv
    OBVIOUS
  <1> USE TrustAssumption DEF Init, Secrets
  <1>1. TypeOK
    <2>1. NoPairing \in Pairing
      BY DEF NoPairing, Pairing
    <2>2. alive \in BOOLEAN /\ fresh \in BOOLEAN /\ threw \in BOOLEAN
      OBVIOUS
    <2>3. issued \in 0..MaxSecrets /\ pending \in 0..MaxSecrets /\ restarts \in 0..MaxRestarts
      OBVIOUS
    <2> QED
      BY <2>1, <2>2, <2>3 DEF TypeOK
  <1>2. SecretsUnspent
    BY DEF SecretsUnspent
  <1>3. Capped
    BY FS_EmptySet DEF Capped
  <1>4. AllMinted /\ RevokeStands /\ GoneIsEmpty /\ PushOnDisk
    BY DEF AllMinted, RevokeStands, GoneIsEmpty, PushOnDisk
  <1>5. TrustAgrees
    BY DEF TrustAgrees, NoPairing
  <1> QED
    BY <1>1, <1>2, <1>3, <1>4, <1>5 DEF IInv, Safe

\* Every step keeps the types.
LEMMA NextType == TypeOK /\ [Next]_vars => TypeOK'
  <1> SUFFICES ASSUME TypeOK, [Next]_vars PROVE TypeOK'
    OBVIOUS
  <1> USE TrustAssumption DEF TypeOK, Secrets, pairing, trusted, disk, cutoff, history, clients
  <1>a. NoPairing \in Pairing
    BY DEF NoPairing, Pairing
  <1>b. \A m \in Machines, k \in 0..MaxSecrets : [pair[m] EXCEPT !.k = k] \in Pairing
    BY DEF Pairing
  <1>c. 0 \in 0..MaxSecrets
    OBVIOUS
  <1>1. CASE BeginPairLocal
    BY <1>1 DEF BeginPairLocal, BeginPairing
  <1>2. CASE Expire
    BY <1>2 DEF Expire
  <1>d. ASSUME Die
        PROVE  /\ alive' \in BOOLEAN /\ fresh' \in BOOLEAN /\ threw' \in BOOLEAN
               /\ issued' \in 0..MaxSecrets /\ pending' \in 0..MaxSecrets
               /\ restarts' \in 0..MaxRestarts
               /\ devices' = {} /\ authed' = {} /\ registry' = {}
               /\ pair' \in [Machines -> Pairing] /\ UNCHANGED <<holds, revoked>>
    <2>1. pair' \in [Machines -> Pairing]
      <3>1. pair' = [m \in Machines |-> [pair[m] EXCEPT !.k = 0]]
        BY <1>d DEF Die
      <3>2. \A m \in Machines : [pair[m] EXCEPT !.k = 0] \in Pairing
        BY <1>b, <1>c
      <3> QED
        BY <3>1, <3>2
    <2>2. alive' \in BOOLEAN /\ fresh' \in BOOLEAN
      BY <1>d DEF Die
    <2>3. pending' \in 0..MaxSecrets /\ restarts' \in 0..MaxRestarts
      BY <1>d DEF Die
    <2> QED
      BY <1>d, <2>1, <2>2, <2>3 DEF Die
  <1>3. CASE Crash
    BY <1>3, <1>d DEF Crash
  <1>4. CASE Boot
    BY <1>4 DEF Boot
  <1>5. ASSUME NEW m \in Machines, RunPair(m) PROVE TypeOK'
    <2>1. issued' \in 0..MaxSecrets
      BY <1>5 DEF RunPair, BeginPairing
    <2>2. pair' = [pair EXCEPT ![m] = [pair[m] EXCEPT !.k = issued']]
      BY <1>5 DEF RunPair, SendCompletePair
    <2>3. pair' \in [Machines -> Pairing]
      BY <1>b, <2>1, <2>2
    <2> QED
      BY <1>5, <2>1, <2>3 DEF RunPair, BeginPairing
  <1>6. ASSUME NEW m \in Machines, SavePairedDevice(m) PROVE TypeOK'
    <2>1. pair' \in [Machines -> Pairing] /\ holds' \in [Machines -> SUBSET Devices]
      BY <1>6, <1>a DEF SavePairedDevice, Pairing
    <2> QED
      BY <1>6, <2>1 DEF SavePairedDevice
  <1>7. ASSUME NEW m \in Machines, PairFailed(m) PROVE TypeOK'
    BY <1>7, <1>a DEF PairFailed
  <1>8. ASSUME NEW m \in Machines, NEW k \in Secrets, RunPairFromCode(m, k) PROVE TypeOK'
    <2>1. pair' = [pair EXCEPT ![m] = [pair[m] EXCEPT !.k = k]] /\ k \in 0..MaxSecrets
      BY <1>8 DEF RunPairFromCode, SendCompletePair
    <2>2. pair' \in [Machines -> Pairing]
      BY <1>b, <2>1
    <2> QED
      BY <1>8, <2>2 DEF RunPairFromCode
  <1>9. ASSUME NEW m \in Machines, NEW d \in Devices, CompletePairing(m, d) PROVE TypeOK'
    <2>1. pair[m].k \in Secrets
      BY <1>9 DEF CompletePairing, Admit, Pairing
    <2>2. admitted' \in [Secrets -> SUBSET Devices]
      BY <1>9, <2>1 DEF CompletePairing, Admit
    <2>3. pair' \in [Machines -> Pairing]
      <3>1. [k |-> 0, told |-> {d}] \in Pairing
        BY <1>9 DEF Pairing
      <3>2. pair' = pair \/ pair' = [pair EXCEPT ![m] = [k |-> 0, told |-> {d}]]
        BY <1>9 DEF CompletePairing, Admit
      <3> QED
        BY <3>1, <3>2
    <2>4. devices' \subseteq Devices /\ stored' \subseteq Devices
      BY <1>9 DEF CompletePairing, Admit, PersistFails, Cut, Persist
    <2>5. threw' \in BOOLEAN /\ fresh' \in BOOLEAN
      BY <1>9 DEF CompletePairing, Burn, PersistFails
    <2>6. issued' \in 0..MaxSecrets /\ pending' \in 0..MaxSecrets
      BY <1>9 DEF CompletePairing, Admit, Burn
    <2>7. file' \in {"none", "whole", "torn"}
      BY <1>9 DEF CompletePairing, PersistFails, Cut, Persist
    <2> QED
      BY <1>9, <2>2, <2>3, <2>4, <2>5, <2>6, <2>7 DEF CompletePairing, Admit
  <1>10. ASSUME NEW d \in Devices, Hello(d) PROVE TypeOK'
    BY <1>10 DEF Hello
  <1>11. ASSUME NEW d \in Devices, Disconnect(d) PROVE TypeOK'
    BY <1>11 DEF Disconnect
  <1>12. ASSUME NEW d \in Devices, RegisterPush(d) PROVE TypeOK'
    BY <1>12 DEF RegisterPush
  <1>13. ASSUME NEW by \in Devices, NEW d \in Devices, Revoke(by, d) PROVE TypeOK'
    BY <1>13 DEF Revoke, Untrust, Persist, DisconnectDevice
  <1>14. ASSUME NEW by \in Devices, NEW d \in Devices, RevokeFails(by, d) PROVE TypeOK'
    BY <1>14 DEF RevokeFails, Untrust, PersistFails, Cut, Persist
  <1>15. CASE UNCHANGED vars
    BY <1>15 DEF vars
  <1>16. CASE FirstRunCut
    BY <1>16 DEF FirstRunCut, Cut
  <1>17. CASE DeleteStore
    BY <1>17 DEF DeleteStore
  <1>18. ASSUME NEW m \in Machines, NEW d \in Devices, PairingKilled(m, d) PROVE TypeOK'
    <2>1. pair[m].k \in Secrets
      BY <1>18 DEF PairingKilled, Admit, Pairing
    <2>2. admitted' \in [Secrets -> SUBSET Devices] /\ minted' \subseteq Devices
      BY <1>18, <2>1 DEF PairingKilled, Admit
    <2>3. Die /\ Cut /\ lost' \subseteq Devices /\ UNCHANGED <<push, halved>>
      BY <1>18 DEF PairingKilled, CutShort
    <2> QED
      BY <1>d, <2>2, <2>3 DEF Cut
  <1>19. ASSUME NEW by \in Devices, NEW d \in Devices, RevokeKilled(by, d) PROVE TypeOK'
    <2>1. Die /\ UNCHANGED <<minted, admitted>>
      BY <1>19 DEF RevokeKilled, CutShort
    <2>2. file' \in {"none", "whole", "torn"} /\ stored' \subseteq Devices
      BY <1>19 DEF RevokeKilled, CutShort, Cut
    <2>3. push' \subseteq Devices /\ halved' \subseteq Devices /\ lost' \subseteq Devices
      BY <1>19 DEF RevokeKilled, CutShort
    <2> QED
      BY <1>d, <2>1, <2>2, <2>3
  <1> QED
    BY <1>1, <1>2, <1>3, <1>4, <1>5, <1>6, <1>7, <1>8, <1>9, <1>10, <1>11, <1>12, <1>13, <1>14,
       <1>15, <1>16, <1>17, <1>18, <1>19 DEF Next

\* Every step keeps the safety part of the invariant.
LEMMA NextSafe == IInv /\ [Next]_vars => Safe'
  <1> SUFFICES ASSUME IInv, [Next]_vars PROVE Safe'
    OBVIOUS
  <1> USE TrustAssumption
      DEF IInv, Safe, TypeOK, Secrets, pairing, trusted, disk, cutoff, history, clients
  <1>f. \A S \in SUBSET Devices : IsFiniteSet(S) /\ Cardinality(S) \in Nat
    BY FS_Subset, FS_CardinalityType
  <1>1. CASE BeginPairLocal
    <2>1. SecretsUnspent'
      BY <1>1 DEF BeginPairLocal, BeginPairing, SecretsUnspent
    <2> QED
      BY <1>1, <2>1 DEF BeginPairLocal, Capped, AllMinted, RevokeStands, GoneIsEmpty,
         PushOnDisk, TrustAgrees
  <1>2. CASE Expire
    BY <1>2 DEF Expire, SecretsUnspent, Capped, AllMinted, RevokeStands, GoneIsEmpty,
       PushOnDisk, TrustAgrees
  <1>d. ASSUME Die
        PROVE  /\ Cardinality(devices') <= MaxPaired
               /\ devices' = {} /\ authed' = {} /\ registry' = {}
               /\ \A n \in Machines : pair'[n].told = pair[n].told
    <2>1. \A n \in Machines : pair'[n].told = pair[n].told
      BY <1>d DEF Die, Pairing
    <2> QED
      BY <1>d, <2>1, FS_EmptySet DEF Die
  <1>3. CASE Crash
    <2>1. SecretsUnspent'
      BY <1>3 DEF Crash, Die, SecretsUnspent
    <2>2. Capped'
      BY <1>3, <1>d DEF Crash, Capped
    <2>3. AllMinted'
      BY <1>3 DEF Crash, Die, AllMinted
    <2>4. RevokeStands'
      BY <1>3 DEF Crash, Die, RevokeStands
    <2>5. TrustAgrees'
      BY <1>3, <1>d DEF Crash, Die, TrustAgrees
    <2> QED
      BY <1>3, <1>d, <2>1, <2>2, <2>3, <2>4, <2>5 DEF Crash, Die, PushOnDisk, GoneIsEmpty
  <1>4. CASE Boot
    <2>1. Capped'
      BY <1>4 DEF Boot, Capped
    <2>2. AllMinted'
      BY <1>4 DEF Boot, AllMinted
    <2>3. RevokeStands'
      BY <1>4 DEF Boot, RevokeStands
    <2>4. GoneIsEmpty'
      BY <1>4 DEF Boot, GoneIsEmpty
    <2>5. TrustAgrees'
      BY <1>4 DEF Boot, TrustAgrees, GoneIsEmpty, PushOnDisk
    <2> QED
      BY <1>4, <2>1, <2>2, <2>3, <2>4, <2>5 DEF Boot, SecretsUnspent, PushOnDisk
  <1>5. ASSUME NEW m \in Machines, RunPair(m) PROVE Safe'
    <2>1. SecretsUnspent'
      BY <1>5 DEF RunPair, BeginPairing, SendCompletePair, SecretsUnspent
    <2>2. TrustAgrees'
      <3>1. \A n \in Machines : pair'[n].told = pair[n].told
        BY <1>5 DEF RunPair, SendCompletePair, Pairing
      <3> QED
        BY <1>5, <3>1 DEF RunPair, TrustAgrees
    <2> QED
      BY <1>5, <2>1, <2>2 DEF RunPair, Capped, AllMinted, RevokeStands, GoneIsEmpty, PushOnDisk
  <1>6. ASSUME NEW m \in Machines, SavePairedDevice(m) PROVE Safe'
    <2>1. TrustAgrees'
      BY <1>6 DEF SavePairedDevice, NoPairing, TrustAgrees
    <2> QED
      BY <1>6, <2>1 DEF SavePairedDevice, SecretsUnspent, Capped, AllMinted, RevokeStands,
         GoneIsEmpty, PushOnDisk
  <1>7. ASSUME NEW m \in Machines, PairFailed(m) PROVE Safe'
    <2>1. TrustAgrees'
      BY <1>7 DEF PairFailed, NoPairing, TrustAgrees
    <2> QED
      BY <1>7, <2>1 DEF PairFailed, SecretsUnspent, Capped, AllMinted, RevokeStands,
         GoneIsEmpty, PushOnDisk
  <1>8. ASSUME NEW m \in Machines, NEW k \in Secrets, RunPairFromCode(m, k) PROVE Safe'
    <2>1. TrustAgrees'
      <3>1. \A n \in Machines : pair'[n].told = pair[n].told
        BY <1>8 DEF RunPairFromCode, SendCompletePair, Pairing
      <3> QED
        BY <1>8, <3>1 DEF RunPairFromCode, TrustAgrees
    <2> QED
      BY <1>8, <2>1 DEF RunPairFromCode, SecretsUnspent, Capped, AllMinted, RevokeStands,
         GoneIsEmpty, PushOnDisk
  <1>9. ASSUME NEW m \in Machines, NEW d \in Devices, CompletePairing(m, d) PROVE Safe'
    <2>1. SecretsUnspent'
      BY <1>9 DEF CompletePairing, Admit, Burn, PersistFails, Cut, Persist, Admissible,
         SecretsUnspent
    <2>2. Capped'
      <3>1. d \notin devices /\ Cardinality(devices) < MaxPaired
        BY <1>9 DEF CompletePairing, Admit, Admissible, AllMinted
      <3>2. Cardinality(devices') <= MaxPaired
        BY <1>9, <1>f, <3>1, FS_AddElement DEF CompletePairing, Admit
      <3>3. Cardinality({}) <= MaxPaired
        BY FS_EmptySet
      <3>4. stored' = stored \/ stored' = {} \/ stored' = devices'
        BY <1>9 DEF CompletePairing, PersistFails, Cut, Persist
      <3> QED
        BY <3>2, <3>3, <3>4 DEF Capped
    <2>3. AllMinted'
      BY <1>9 DEF CompletePairing, Admit, Burn, PersistFails, Cut, Persist, Admissible, AllMinted
    <2>4. RevokeStands'
      <3>1. devices' \subseteq devices \cup {d} /\ stored' \subseteq devices \cup stored \cup {d}
        BY <1>9 DEF CompletePairing, Admit, PersistFails, Cut, Persist
      <3>2. \A by, e \in Devices : <<by, e>> \in revoked => e # d
        BY <1>9 DEF CompletePairing, Admit, AllMinted
      <3>3. UNCHANGED <<push, authed, revoked>> /\ d \notin push \cup authed
        BY <1>9 DEF CompletePairing, Admit, AllMinted
      <3> QED
        BY <3>1, <3>2, <3>3 DEF RevokeStands
    <2>5. GoneIsEmpty'
      BY <1>9 DEF CompletePairing, Admit, Burn, PersistFails, Cut, Persist, Admissible, GoneIsEmpty
    <2>6. PushOnDisk'
      BY <1>9 DEF CompletePairing, Admit, PersistFails, Cut, Persist, PushOnDisk, TrustAgrees
    <2>7. TrustAgrees'
      <3> SUFFICES ASSUME ~threw' PROVE TrustAgrees'
        BY DEF TrustAgrees
      <3>1. /\ ~threw /\ alive /\ alive' = alive /\ file' = "whole" /\ stored' = devices'
            /\ devices' = devices \cup {d} /\ devices = stored
            /\ pair' = [pair EXCEPT ![m] = [k |-> 0, told |-> {d}]]
            /\ UNCHANGED <<push, authed, registry, holds, revoked, halved, lost>>
        BY <1>9 DEF CompletePairing, Admit, PersistFails, Persist, TrustAgrees
      <3>2. \A n \in Machines : pair'[n].told = IF n = m THEN {d} ELSE pair[n].told
        BY <3>1
      <3> QED
        BY <3>1, <3>2 DEF TrustAgrees
    <2> QED
      BY <1>9, <2>1, <2>2, <2>3, <2>4, <2>5, <2>6, <2>7
  <1>10. ASSUME NEW d \in Devices, Hello(d) PROVE Safe'
    <2>1. AllMinted'
      BY <1>10 DEF Hello, AllMinted
    <2>2. RevokeStands'
      BY <1>10 DEF Hello, RevokeStands
    <2>3. GoneIsEmpty'
      BY <1>10 DEF Hello, GoneIsEmpty
    <2>4. TrustAgrees'
      BY <1>10 DEF Hello, TrustAgrees
    <2> QED
      BY <1>10, <2>1, <2>2, <2>3, <2>4 DEF Hello, SecretsUnspent, Capped, PushOnDisk
  <1>11. ASSUME NEW d \in Devices, Disconnect(d) PROVE Safe'
    <2>1. AllMinted'
      BY <1>11 DEF Disconnect, AllMinted
    <2>2. RevokeStands'
      BY <1>11 DEF Disconnect, RevokeStands
    <2>3. GoneIsEmpty'
      BY <1>11 DEF Disconnect, GoneIsEmpty
    <2>4. TrustAgrees'
      BY <1>11 DEF Disconnect, TrustAgrees
    <2> QED
      BY <1>11, <2>1, <2>2, <2>3, <2>4 DEF Disconnect, SecretsUnspent, Capped, PushOnDisk
  <1>12. ASSUME NEW d \in Devices, RegisterPush(d) PROVE Safe'
    <2>1. AllMinted'
      BY <1>12 DEF RegisterPush, AllMinted
    <2>2. RevokeStands'
      BY <1>12 DEF RegisterPush, RevokeStands
    <2>3. PushOnDisk'
      BY <1>12 DEF RegisterPush, PushOnDisk, TrustAgrees, GoneIsEmpty
    <2>4. TrustAgrees'
      BY <1>12 DEF RegisterPush, TrustAgrees
    <2> QED
      BY <1>12, <2>1, <2>2, <2>3, <2>4 DEF RegisterPush, SecretsUnspent, Capped, GoneIsEmpty
  <1>13. ASSUME NEW by \in Devices, NEW d \in Devices, Revoke(by, d) PROVE Safe'
    <2>1. Capped'
      <3>1. Cardinality(devices \ {d}) = Cardinality(devices) - 1
        BY <1>13, <1>f, FS_RemoveElement DEF Revoke, Untrust
      <3>2. Cardinality(devices \ {d}) <= MaxPaired
        BY <1>f, <3>1 DEF Capped
      <3> QED
        BY <1>13, <3>2 DEF Revoke, Untrust, Persist, Capped
    <2>2. AllMinted'
      BY <1>13 DEF Revoke, Untrust, Persist, DisconnectDevice, AllMinted
    <2>3. RevokeStands'
      BY <1>13 DEF Revoke, Untrust, Persist, DisconnectDevice, RevokeStands
    <2>4. GoneIsEmpty'
      BY <1>13 DEF Revoke, Untrust, Persist, DisconnectDevice, GoneIsEmpty
    <2>5. PushOnDisk'
      BY <1>13 DEF Revoke, Untrust, Persist, PushOnDisk, TrustAgrees, GoneIsEmpty
    <2>6. TrustAgrees'
      <3> SUFFICES ASSUME ~threw PROVE TrustAgrees'
        BY <1>13 DEF Revoke, Untrust, TrustAgrees
      <3>1. alive /\ devices = stored /\ by \in devices
        BY <1>13 DEF Revoke, Untrust, GoneIsEmpty, TrustAgrees
      <3>2. \A m \in Machines : \A e \in holds[m] \cup pair[m].told :
              \/ e \in stored' \cup halved \cup lost
              \/ \E x \in Devices : <<x, e>> \in revoked'
        <4>1. stored' = stored \ {d} /\ revoked' = revoked \cup {<<by, d>>}
          BY <1>13, <3>1 DEF Revoke, Untrust, Persist
        <4> QED
          BY <4>1 DEF TrustAgrees
      <3>3. /\ push' \ devices' \subseteq halved \cup lost /\ authed' \subseteq devices'
            /\ file' = "whole" /\ devices' = stored'
        BY <1>13, <3>1 DEF Revoke, Untrust, Persist, DisconnectDevice, TrustAgrees
      <3>4. \A e \in registry' \ devices' : <<e, e>> \in revoked'
        BY <1>13, <3>1 DEF Revoke, Untrust, DisconnectDevice, TrustAgrees
      <3> QED
        BY <1>13, <3>2, <3>3, <3>4 DEF Revoke, TrustAgrees
    <2> QED
      BY <1>13, <2>1, <2>2, <2>3, <2>4, <2>5, <2>6 DEF Revoke, Untrust, SecretsUnspent
  <1>14. ASSUME NEW by \in Devices, NEW d \in Devices, RevokeFails(by, d) PROVE Safe'
    <2>1. Capped'
      <3>1. Cardinality(devices \ {d}) = Cardinality(devices) - 1
        BY <1>14, <1>f, FS_RemoveElement DEF RevokeFails, Untrust
      <3>2. Cardinality(devices \ {d}) <= MaxPaired
        BY <1>f, <3>1 DEF Capped
      <3>3. Cardinality({}) <= MaxPaired
        BY FS_EmptySet
      <3>4. /\ devices' = devices \ {d}
            /\ stored' = stored \/ stored' = {} \/ stored' = devices'
        BY <1>14 DEF RevokeFails, Untrust, PersistFails, Cut, Persist
      <3> QED
        BY <3>2, <3>3, <3>4 DEF Capped
    <2>2. AllMinted'
      BY <1>14 DEF RevokeFails, Untrust, PersistFails, Cut, Persist, AllMinted
    <2>3. RevokeStands'
      BY <1>14 DEF RevokeFails, Untrust, PersistFails, Cut, Persist, RevokeStands
    <2>4. GoneIsEmpty'
      BY <1>14 DEF RevokeFails, Untrust, PersistFails, Cut, Persist, GoneIsEmpty
    <2>5. PushOnDisk'
      BY <1>14 DEF RevokeFails, Untrust, PersistFails, Cut, Persist, PushOnDisk
    <2>6. TrustAgrees'
      BY <1>14 DEF RevokeFails, Untrust, PersistFails, Cut, Persist, TrustAgrees
    <2> QED
      BY <1>14, <2>1, <2>2, <2>3, <2>4, <2>5, <2>6 DEF RevokeFails, Untrust, SecretsUnspent
  <1>15. CASE UNCHANGED vars
    BY <1>15 DEF vars, SecretsUnspent, Capped, AllMinted, RevokeStands, GoneIsEmpty, PushOnDisk,
       TrustAgrees
  <1>16. CASE FirstRunCut
    BY <1>16, FS_EmptySet DEF FirstRunCut, Cut, SecretsUnspent, Capped, AllMinted, RevokeStands,
       GoneIsEmpty, PushOnDisk, TrustAgrees
  <1>17. CASE DeleteStore
    BY <1>17 DEF DeleteStore, SecretsUnspent, Capped, AllMinted, RevokeStands, GoneIsEmpty,
       PushOnDisk, TrustAgrees
  <1>18. ASSUME NEW m \in Machines, NEW d \in Devices, PairingKilled(m, d) PROVE Safe'
    <2>0. /\ Die /\ Admit(m, d) /\ stored' = {} /\ file' = "torn" /\ lost' = lost \cup stored
          /\ UNCHANGED <<push, halved>>
      BY <1>18 DEF PairingKilled, CutShort, Cut
    <2>1. SecretsUnspent'
      <3>1. /\ pending \in Secrets /\ pair[m].k = pending /\ pending' = 0 /\ issued' = issued
            /\ admitted' = [admitted EXCEPT ![pending] = @ \cup {d}]
        BY <2>0 DEF Die, Admit, Admissible
      <3> QED
        BY <3>1 DEF SecretsUnspent
    <2>2. Capped'
      BY <2>0, <1>d, FS_EmptySet DEF Capped
    <2>3. AllMinted'
      BY <2>0 DEF Die, Admit, AllMinted
    <2>4. RevokeStands'
      BY <2>0 DEF Die, RevokeStands
    <2>5. PushOnDisk'
      BY <2>0 DEF Die, PushOnDisk
    <2>6. TrustAgrees'
      BY <2>0, <1>d DEF Die, TrustAgrees
    <2> QED
      BY <2>0, <1>d, <2>1, <2>2, <2>3, <2>4, <2>5, <2>6 DEF GoneIsEmpty
  <1>19. ASSUME NEW by \in Devices, NEW d \in Devices, RevokeKilled(by, d) PROVE Safe'
    <2>0. /\ Die /\ d \in devices /\ UNCHANGED <<minted, admitted>>
          /\ push' \subseteq push
          /\ \/ stored' = {} /\ lost' = lost \cup stored /\ halved' = halved
             \/ /\ stored' = devices \ {d} /\ file' = "whole"
                /\ lost' = lost /\ halved' = halved \cup {d}
      BY <1>19 DEF RevokeKilled, CutShort, Cut
    <2>1. SecretsUnspent'
      BY <2>0 DEF Die, SecretsUnspent
    <2>2. Capped'
      <3>1. Cardinality(devices \ {d}) = Cardinality(devices) - 1
        BY <2>0, <1>f, FS_RemoveElement
      <3>2. Cardinality(devices \ {d}) <= MaxPaired
        BY <1>f, <3>1 DEF Capped
      <3> QED
        BY <2>0, <1>d, <3>2, FS_EmptySet DEF Capped
    <2>3. AllMinted'
      BY <2>0 DEF Die, AllMinted
    <2>4. RevokeStands'
      BY <2>0 DEF Die, RevokeStands
    <2>5. ~threw => devices = stored
      BY <2>0 DEF Die, TrustAgrees
    <2>6. PushOnDisk'
      BY <2>0, <2>5 DEF Die, PushOnDisk
    <2>7. TrustAgrees'
      BY <2>0, <2>5, <1>d DEF Die, TrustAgrees
    <2> QED
      BY <2>0, <1>d, <2>1, <2>2, <2>3, <2>4, <2>6, <2>7 DEF GoneIsEmpty
  <1> QED
    BY <1>1, <1>2, <1>3, <1>4, <1>5, <1>6, <1>7, <1>8, <1>9, <1>10, <1>11, <1>12, <1>13, <1>14,
       <1>15, <1>16, <1>17, <1>18, <1>19 DEF Next

----------------------------------------------------------------------------
\* The invariant holds in every reachable state.
THEOREM Invariance == Spec => []IInv
  <1>1. IInv /\ [Next]_vars => IInv'
    BY NextType, NextSafe DEF IInv
  <1> QED
    BY InitIInv, <1>1, PTL DEF Spec

\* Whatever the order of begin_pair, expiry, retries, failed writes and restarts
\* (pairing.ts), a secret admits at most one device, and neither memory nor the store on
\* disk ever holds more devices than CC_MAX_PAIRED_DEVICES.
THEOREM SecretAdmitsOnce == Spec => []AdmissionsBounded
  <1>1. \A d : Cardinality({d}) = 1
    BY FS_Singleton
  <1>2. IInv => AdmissionsBounded
    <2> SUFFICES ASSUME IInv PROVE AdmissionsBounded
      OBVIOUS
    <2>1. SecretsUnspent /\ Capped
      BY DEF IInv, Safe
    <2>2. ASSUME NEW k \in Secrets PROVE Cardinality(admitted[k]) <= 1
      <3>1. CASE admitted[k] = {}
        BY <3>1, FS_EmptySet
      <3>2. ASSUME NEW d \in Devices, admitted[k] = {d} PROVE Cardinality(admitted[k]) <= 1
        BY <1>1, <3>2
      <3> QED
        BY <2>1, <3>1, <3>2 DEF SecretsUnspent
    <2> QED
      BY <2>1, <2>2 DEF Capped, AdmissionsBounded
  <1> QED
    BY Invariance, <1>2, PTL

\* A confirmed revoke_device (commands.ts) is final: the device is in neither copy of the
\* registry, has no push token and no connection, whatever fails or restarts afterwards.
THEOREM RevocationIsFinal == Spec => []RevokeStands
  <1>1. IInv => RevokeStands
    BY DEF IInv, Safe
  <1> QED
    BY Invariance, <1>1, PTL

\* As long as no write failed, the registry, the store, the push table, the connections
\* and the machines' own records agree on who is trusted, whenever the daemon is killed:
\* between handlers, inside writeFileSync (pairing.ts) or in the middle of a revocation
\* (commands.ts), but for the devices that kill was about.
THEOREM TrustIsOne == Spec => []TrustAgrees
  <1>1. IInv => TrustAgrees
    BY DEF IInv, Safe
  <1> QED
    BY Invariance, <1>1, PTL

=============================================================================
