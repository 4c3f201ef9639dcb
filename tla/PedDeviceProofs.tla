-------------------------- MODULE PedDeviceProofs --------------------------
(* The invariants of PedDevice for any number of devices, structures and   *)
(* users.  Together they are inductive: ArchOpen needs RefCount to know    *)
(* that a count of 0 means no user, and CacheSound needs only itself.      *)
EXTENDS PedDevice, FiniteSetTheorems, TLAPS

Inv == TypeOK /\ RefCount /\ ArchOpen /\ CacheSound

(* The number of holders of a device is a natural number, 0 for no holder. *)
LEMMA HolderCount ==
    ASSUME NEW S \in SUBSET Users
    PROVE  /\ IsFiniteSet(S)
           /\ Cardinality(S) \in Nat
           /\ Cardinality(S) = 0 <=> S = {}
<1>1. IsFiniteSet(S)
  BY FS_Subset, DeviceAssumption
<1>2. QED
  BY <1>1, FS_CardinalityType, FS_EmptySet

(* What a user that opens or closes a device does to that number. *)
LEMMA HolderStep ==
    ASSUME NEW S \in SUBSET Users, NEW u \in Users
    PROVE  /\ u \notin S => Cardinality(S \cup {u}) = Cardinality(S) + 1
           /\ u \in S => Cardinality(S \ {u}) = Cardinality(S) - 1
  BY HolderCount, FS_AddElement, FS_RemoveElement

(* A device that nobody holds has count 0. *)
LEMMA NoHolders == Cardinality({}) = 0
  BY FS_EmptySet

(* By RefCount a device is counted open exactly when somebody holds it. *)
LEMMA CountedHeld ==
    ASSUME TypeOK, RefCount, NEW o \in Objs
    PROVE  /\ open_count[o] \in Nat
           /\ open_count[o] = 0 <=> held[o] = {}
           /\ open_count[o] > 0 <=> held[o] # {}
<1>1. held[o] \in SUBSET Users /\ open_count[o] = Cardinality(held[o])
  BY DEF TypeOK, RefCount
<1>2. open_count[o] \in Nat /\ (open_count[o] = 0 <=> held[o] = {})
  BY <1>1, HolderCount
<1>3. QED
  BY <1>2

(* Unlinking a device leaves a list without it, whose devices are other    *)
(* devices of the old list, in the old order.                              *)
LEMMA UnlinkList ==
    ASSUME TypeOK, CacheSound, NEW o \in Objs
    PROVE  /\ Unlink(o) \in Seq(Objs)
           /\ \A i \in 1 .. Len(Unlink(o)) :
                \E k \in 1 .. Len(devices) : Unlink(o)[i] = devices[k]
           /\ \A i \in 1 .. Len(Unlink(o)) : Unlink(o)[i] # o
           /\ \A i, j \in 1 .. Len(Unlink(o)) :
                path[Unlink(o)[i]] = path[Unlink(o)[j]] => i = j
<1>1. CASE ~ Listed(o)
  BY <1>1 DEF Unlink, Listed, TypeOK, CacheSound
<1>2. CASE Listed(o)
  <2> DEFINE i == CHOOSE k \in 1 .. Len(devices) : devices[k] = o
             s == [j \in 1 .. Len(devices) - 1 |->
                      IF j < i THEN devices[j] ELSE devices[j + 1]]
  <2>1. i \in 1 .. Len(devices) /\ devices[i] = o
    BY <1>2 DEF Listed
  <2>2. Unlink(o) = s
    BY <1>2 DEF Unlink
  <2>3. Len(devices) \in Nat /\ Len(devices) - 1 \in Nat
    BY <2>1 DEF TypeOK
  <2> HIDE DEF i
  <2>4. s \in Seq(Objs) /\ Len(s) = Len(devices) - 1
    BY <2>1, <2>3 DEF TypeOK
  <2>5. \A j \in 1 .. Len(s) :
           s[j] = devices[IF j < i THEN j ELSE j + 1]
    BY <2>4, <2>3, <2>1, SMTT(30)
  <2>6. \A j, k \in 1 .. Len(devices) : devices[j] = devices[k] => j = k
    BY DEF CacheSound
  <2>7. \A j \in 1 .. Len(s) : \E k \in 1 .. Len(devices) : s[j] = devices[k]
    BY <2>4, <2>5, <2>3, <2>1
  <2>8. \A j \in 1 .. Len(s) : s[j] # o
    BY <2>4, <2>5, <2>6, <2>3, <2>1
  <2>9. \A j, k \in 1 .. Len(s) : path[s[j]] = path[s[k]] => j = k
    BY <2>4, <2>5, <2>3, <2>1 DEF CacheSound
  <2> HIDE DEF s
  <2>10. QED
    BY <2>2, <2>4, <2>7, <2>8, <2>9
<1>3. QED
  BY <1>1, <1>2

(* Hence a list that loses o, whatever becomes of o itself, stays sound. *)
LEMMA UnlinkSound ==
    ASSUME TypeOK, CacheSound, NEW o \in Objs,
           devices' = Unlink(o), path' = path,
           \A q \in Objs : q # o => state'[q] = state[q]
    PROVE  CacheSound'
<1> DEFINE s == Unlink(o)
<1>1. /\ s \in Seq(Objs)
      /\ \A i \in 1 .. Len(s) : \E k \in 1 .. Len(devices) : s[i] = devices[k]
      /\ \A i \in 1 .. Len(s) : s[i] # o
      /\ \A i, j \in 1 .. Len(s) : path[s[i]] = path[s[j]] => i = j
  BY UnlinkList
<1>2. devices' = s
  OBVIOUS
<1> HIDE DEF s
<1>3. \A i \in 1 .. Len(s) : s[i] \in Objs
  BY <1>1
<1>4. \A i \in 1 .. Len(s) : state[s[i]] = "live"
  BY <1>1 DEF CacheSound
<1>5. \A i \in 1 .. Len(s) : state'[s[i]] = "live"
  BY <1>1, <1>3, <1>4
<1>6. QED
  BY <1>1, <1>2, <1>5 DEF CacheSound

(* The initial states satisfy the inductive invariant: no device is known, *)
(* open or held.                                                           *)
THEOREM InitInv == Init => Inv
  BY NoHolders DEF Init, Inv, TypeOK, RefCount, ArchOpen, CacheSound

(* Every call of device.c, and every write, keeps the inductive invariant. *)
THEOREM NextInv == Inv /\ [Next]_vars => Inv'
<1> SUFFICES ASSUME Inv, [Next]_vars PROVE Inv'
  OBVIOUS
<1> USE DEF Inv
<1>1. ASSUME NEW p \in Paths, NEW o \in Objs, Get(p, o) PROVE Inv'
  <2>1. TypeOK'
    BY <1>1 DEF Get, TypeOK, counts, media
  <2>2. RefCount' /\ ArchOpen'
    BY <1>1 DEF Get, RefCount, ArchOpen, counts
  <2>3. Len(devices') = Len(devices) + 1 /\ Len(devices) \in Nat
    BY <1>1 DEF Get, TypeOK
  <2>4. \A i \in 1 .. Len(devices) : devices'[i] = devices[i] /\ devices[i] # o
    BY <1>1 DEF Get, TypeOK, CacheSound
  <2>5. devices'[Len(devices) + 1] = o
    BY <1>1 DEF Get, TypeOK
  <2>6. \A i \in 1 .. Len(devices) : devices[i] \in Objs
    BY DEF TypeOK
  <2>7. /\ \A i \in 1 .. Len(devices) : /\ path'[devices'[i]] = path[devices[i]]
                                       /\ path'[devices'[i]] # p
                                       /\ state'[devices'[i]] = "live"
        /\ path'[devices'[Len(devices) + 1]] = p
        /\ state'[devices'[Len(devices) + 1]] = "live"
    BY <1>1, <2>4, <2>5, <2>6 DEF Get, TypeOK, CacheSound
  <2>8. \A i \in 1 .. Len(devices') : i \in 1 .. Len(devices) \/ i = Len(devices) + 1
    BY <2>3
  <2>9. \A i \in 1 .. Len(devices') : state'[devices'[i]] = "live"
    BY <2>7, <2>8
  <2>10. \A i, j \in 1 .. Len(devices) : path[devices[i]] = path[devices[j]] => i = j
    BY DEF CacheSound
  <2>11. \A i, j \in 1 .. Len(devices') : path'[devices'[i]] = path'[devices'[j]] => i = j
    BY <2>7, <2>8, <2>10
  <2>12. QED
    BY <2>1, <2>2, <2>9, <2>11 DEF CacheSound
<1>2. ASSUME NEW o \in Objs, CacheRemove(o) PROVE Inv'
  <2>1. TypeOK'
    BY <1>2, UnlinkList DEF CacheRemove, TypeOK, counts, media
  <2>2. RefCount' /\ ArchOpen'
    BY <1>2 DEF CacheRemove, RefCount, ArchOpen, counts
  <2>3. devices' = Unlink(o) /\ path' = path /\ state' = state
    BY <1>2 DEF CacheRemove
  <2>4. CacheSound'
    BY <2>3, UnlinkSound
  <2>5. QED
    BY <2>1, <2>2, <2>4
<1>3. ASSUME NEW o \in Objs, Destroy(o) PROVE Inv'
  <2>1. TypeOK'
    BY <1>3, UnlinkList DEF Destroy, TypeOK, media
  <2>2. RefCount'
    BY <1>3, NoHolders DEF Destroy, RefCount, TypeOK
  <2>3. open_count[o] > 0 <=> held[o] # {}
    BY CountedHeld
  <2>4. ArchOpen'
    <3>1. /\ ~ external_mode[o] /\ external_mode' = external_mode
          /\ held'[o] = {}
      BY <1>3 DEF Destroy, TypeOK
    <3>2. arch'[o] = IF open_count[o] > 0 THEN arch[o] - 1 ELSE arch[o]
      BY <1>3 DEF Destroy, TypeOK
    <3>3. arch'[o] = 0
      BY <3>1, <3>2, <2>3 DEF ArchOpen
    <3>4. \A q \in Objs : q # o => arch'[q] = arch[q] /\ held'[q] = held[q]
      BY <1>3 DEF Destroy, TypeOK
    <3>5. QED
      BY <3>1, <3>3, <3>4 DEF ArchOpen
  <2>5. /\ devices' = Unlink(o) /\ path' = path
        /\ \A q \in Objs : q # o => state'[q] = state[q]
    BY <1>3 DEF Destroy, TypeOK
  <2>7. CacheSound'
    BY <2>5, UnlinkSound
  <2>8. QED
    BY <2>1, <2>2, <2>4, <2>7
<1>4. ASSUME NEW u \in Users, NEW o \in Objs, Open(u, o) PROVE Inv'
  <2>1. /\ Cardinality(held[o] \cup {u}) = Cardinality(held[o]) + 1
        /\ open_count[o] = 0 <=> held[o] = {}
    BY <1>4, HolderStep, CountedHeld DEF Open, TypeOK
  <2>2. TypeOK' /\ CacheSound'
    BY <1>4 DEF Open, TypeOK, CacheSound, cache, media
  <2>3. RefCount'
    BY <1>4, <2>1 DEF Open, RefCount, TypeOK
  <2>4. ArchOpen'
    BY <1>4, <2>1 DEF Open, Usable, ArchOpen, TypeOK
  <2>5. QED
    BY <2>2, <2>3, <2>4
<1>5. ASSUME NEW u \in Users, NEW o \in Objs, Close(u, o) PROVE Inv'
  <2>1. /\ Cardinality(held[o] \ {u}) = open_count[o] - 1
        /\ open_count[o] - 1 \in Nat
        /\ open_count[o] - 1 = 0 <=> held[o] \ {u} = {}
    <3>1. held[o] \in SUBSET Users /\ held[o] \ {u} \in SUBSET Users /\ u \in held[o]
      BY <1>5 DEF Close, TypeOK
    <3>2. Cardinality(held[o] \ {u}) = Cardinality(held[o]) - 1
      BY <3>1, HolderStep
    <3>3. /\ Cardinality(held[o] \ {u}) \in Nat
          /\ Cardinality(held[o] \ {u}) = 0 <=> held[o] \ {u} = {}
      BY <3>1, HolderCount
    <3>4. open_count[o] = Cardinality(held[o])
      BY DEF RefCount
    <3>5. QED
      BY <3>2, <3>3, <3>4
  <2>2. TypeOK' /\ CacheSound'
    BY <1>5, <2>1 DEF Close, TypeOK, CacheSound, cache, media
  <2>3. RefCount'
    BY <1>5, <2>1 DEF Close, RefCount, TypeOK
  <2>4. ArchOpen'
    <3>1. /\ ~ external_mode[o] /\ external_mode' = external_mode
          /\ held[o] # {} /\ held'[o] = held[o] \ {u}
      BY <1>5 DEF Close, Usable, TypeOK
    <3>2. arch'[o] = IF open_count[o] = 1 THEN arch[o] - 1 ELSE arch[o]
      BY <1>5 DEF Close, TypeOK
    <3>3. open_count[o] \in Nat /\ (open_count[o] = 1 <=> held'[o] = {})
      BY <3>1, <2>1 DEF TypeOK
    <3>4. arch'[o] = IF held'[o] # {} THEN 1 ELSE 0
      BY <3>1, <3>2, <3>3 DEF ArchOpen
    <3>5. \A q \in Objs : q # o => arch'[q] = arch[q] /\ held'[q] = held[q]
      BY <1>5 DEF Close, TypeOK
    <3>6. QED
      BY <3>1, <3>4, <3>5 DEF ArchOpen
  <2>5. QED
    BY <2>2, <2>3, <2>4
<1>6. ASSUME NEW o \in Objs, BeginExternal(o) PROVE Inv'
  <2>1. open_count[o] > 0 <=> held[o] # {}
    BY CountedHeld
  <2>2. /\ open_count' = open_count /\ held' = held
        /\ devices' = devices /\ path' = path /\ state' = state
        /\ stored' = stored /\ acked' = acked
    BY <1>6 DEF BeginExternal, cache, media
  <2>3. external_mode' \in [Objs -> BOOLEAN]
    BY <1>6, Zenon DEF BeginExternal, TypeOK
  <2>4. arch' \in [Objs -> Int]
    BY <1>6 DEF BeginExternal, TypeOK
  <2>5. TypeOK' /\ RefCount' /\ CacheSound'
    BY <2>2, <2>3, <2>4 DEF TypeOK, RefCount, CacheSound
  <2>6. \A q \in Objs : q # o => external_mode'[q] = external_mode[q] /\ arch'[q] = arch[q]
    BY <1>6 DEF BeginExternal, TypeOK
  <2>7. ~ external_mode[o] /\ external_mode'[o] = TRUE
    BY <1>6, Zenon DEF BeginExternal, Usable, TypeOK
  <2>8. arch'[o] = IF open_count[o] > 0 THEN arch[o] - 1 ELSE arch[o]
    BY <1>6 DEF BeginExternal, TypeOK
  <2>9. ArchOpen'
    <3>1. arch'[o] = IF held[o] # {} /\ ~ external_mode'[o] THEN 1 ELSE 0
      BY <2>1, <2>7, <2>8 DEF ArchOpen
    <3>2. QED
      BY <3>1, <2>2, <2>6 DEF ArchOpen
  <2>10. QED
    BY <2>5, <2>9
<1>7. ASSUME NEW o \in Objs, EndExternal(o) PROVE Inv'
  <2>1. open_count[o] > 0 <=> held[o] # {}
    BY CountedHeld
  <2>2. /\ open_count' = open_count /\ held' = held
        /\ devices' = devices /\ path' = path /\ state' = state
        /\ stored' = stored /\ acked' = acked
    BY <1>7 DEF EndExternal, cache, media
  <2>3. external_mode' \in [Objs -> BOOLEAN]
    BY <1>7, Zenon DEF EndExternal, TypeOK
  <2>4. arch' \in [Objs -> Int]
    BY <1>7 DEF EndExternal, TypeOK
  <2>5. TypeOK' /\ RefCount' /\ CacheSound'
    BY <2>2, <2>3, <2>4 DEF TypeOK, RefCount, CacheSound
  <2>6. \A q \in Objs : q # o => external_mode'[q] = external_mode[q] /\ arch'[q] = arch[q]
    BY <1>7 DEF EndExternal, TypeOK
  <2>7. external_mode[o] /\ external_mode'[o] = FALSE
    BY <1>7, Zenon DEF EndExternal, Usable, TypeOK
  <2>8. arch'[o] = IF open_count[o] > 0 THEN arch[o] + 1 ELSE arch[o]
    BY <1>7 DEF EndExternal, TypeOK
  <2>9. ArchOpen'
    <3>1. arch'[o] = IF held[o] # {} /\ ~ external_mode'[o] THEN 1 ELSE 0
      BY <2>1, <2>7, <2>8 DEF ArchOpen
    <3>2. QED
      BY <3>1, <2>2, <2>6 DEF ArchOpen
  <2>10. QED
    BY <2>5, <2>9
<1>8. ASSUME NEW u \in Users, NEW o \in Objs, NEW v \in Values,
             NEW found \in BOOLEAN, NEW efi_ok \in BOOLEAN,
             Write(u, o, v, found, efi_ok)
      PROVE  Inv'
  BY <1>8 DEF Write, TypeOK, RefCount, ArchOpen, CacheSound, cache, counts
<1>9. CASE UNCHANGED vars
  BY <1>9 DEF vars, TypeOK, RefCount, ArchOpen, CacheSound
<1>10. QED
  BY <1>1, <1>2, <1>3, <1>4, <1>5, <1>6, <1>7, <1>8, <1>9 DEF Next

(* In every behaviour the variables keep their types. *)
THEOREM TypeCorrect == Spec => []TypeOK
  BY InitInv, NextInv, PTL DEF Spec, Inv

(* The open count is the number of users that have the device open, for    *)
(* any number of users: what ped_device_open and ped_device_close promise. *)
THEOREM RefCountCorrect == Spec => []RefCount
  BY InitInv, NextInv, PTL DEF Spec, Inv

(* The architecture's open and close alternate and leave nothing open that *)
(* no user has open, through external access and destruction.              *)
THEOREM ArchOpenCorrect == Spec => []ArchOpen
  BY InitInv, NextInv, PTL DEF Spec, Inv

(* The list of ped_device_get never holds a destroyed device and never two *)
(* devices for one path.                                                   *)
THEOREM CacheCorrect == Spec => []CacheSound
  BY InitInv, NextInv, PTL DEF Spec, Inv
=============================================================================
