---------------------------- MODULE TableProofs ----------------------------
(***************************************************************************)
(* Theorems about the tables the server's requests share: the registry of  *)
(* devices with its file, and the device manager's devices, groups and     *)
(* controllers; the keepalive's map (no bulb is in it twice), and the      *)
(* lists of bulbs that discovery waits for (none is left behind).          *)
(***************************************************************************)
EXTENDS Registry, Devices, Keepalive, Discovery, FiniteSetTheorems, SequenceTheorems, TLAPS

-----------------------------------------------------------------------------
(* The registry.                                                           *)

\* One save() at a time, and unless an edit waits for its own save, what that
\* one holds is what the registry holds.
SaveInv ==
  /\ \A g, h \in Handlers : saving[g] = "write" /\ saving[h] = "write" => g = h
  /\ loaded /\ (\E h \in Handlers : saving[h] = "write")
       /\ (\A h \in Handlers : saving[h] # "save") => snapshot = Memory

RegistryInv == RegistryTypeOK /\ LabelsResolve /\ SavedIsCurrent /\ SaveInv

\* An edit leaves its thread with a save() to make, so nothing is said of the file.
LEMMA EditedSaves ==
  ASSUME RegistryInv, NEW h \in Handlers, Edited(h)
  PROVE  /\ (SavedIsCurrent /\ SaveInv)' /\ loaded /\ loaded'
         /\ file' \in Content /\ snapshot' \in Content
         /\ saving' \in [Handlers -> {"idle", "save", "write", "failed"}]
         /\ registryEdits' \in 0 .. MaxRegistryEdits
<1>1. /\ saving \in [Handlers -> {"idle", "save", "write", "failed"}] /\ saving'[h] = "save"
      /\ \A g \in Handlers \ {h} : saving'[g] = saving[g]
      /\ saving' \in [Handlers -> {"idle", "save", "write", "failed"}]
  BY DEF RegistryInv, RegistryTypeOK, Edited
<1>2. SavedIsCurrent'
  BY <1>1 DEF SavedIsCurrent
<1>3. SaveInv'
  BY <1>1 DEF SaveInv, RegistryInv
<1>4. registryEdits' \in 0 .. MaxRegistryEdits
  BY RegistryAssumption DEF RegistryAssumption, RegistryInv, RegistryTypeOK, Edited
<1> QED BY <1>1, <1>2, <1>3, <1>4 DEF Edited, RegistryInv, RegistryTypeOK

\* What the invariant says of the maps while the registry is loaded.
Maps ==
  /\ label \in [Macs -> Labels \union {NoLabel}]
  /\ sub \in [Macs -> [Components -> Labels \union {NoLabel}]]
  /\ labelToMac \in [Labels -> Macs \union {NoOwner}]
  /\ subAddress \in [Labels -> (Macs \X Components) \union {NoOwner}]
Parents == \A m \in Macs, l \in Labels : labelToMac[l] = m <=> label[m] = l
Subs ==
  \A m \in Macs, l \in Labels, c \in Components : sub[m][c] = l => subAddress[l] = <<m, c>>

LEMMA MapsOf ==
  ASSUME RegistryInv PROVE Maps /\ (loaded => Parents /\ Subs)
<1>1. /\ label \in [Macs -> Labels \union {NoLabel}]
      /\ sub \in [Macs -> [Components -> Labels \union {NoLabel}]]
  BY DEF RegistryInv, RegistryTypeOK, Memory, Content
<1> QED BY <1>1 DEF RegistryInv, RegistryTypeOK, LabelsResolve, Maps, Parents, Subs

LEMMA EditInvariant ==
  ASSUME RegistryInv, NEW h \in Handlers, Edited(h), Maps', Parents', Subs'
  PROVE  RegistryInv'
<1>1. Memory' \in Content
  BY DEF Maps, Memory, Content
<1>2. LabelsResolve'
  BY DEF LabelsResolve, Parents, Subs
<1> QED BY <1>1, <1>2, EditedSaves DEF RegistryInv, RegistryTypeOK, Maps

LEMMA AddDeviceKeeps ==
  ASSUME RegistryInv, NEW h \in Handlers, NEW m \in Macs, NEW l \in Labels,
         NEW force \in BOOLEAN, AddDevice(h, m, l, force)
  PROVE  RegistryInv'
<1>0. Maps /\ Parents /\ Subs /\ Edited(h) /\ NoLabel \notin Labels /\ NoOwner \notin Macs
  BY MapsOf, EditedSaves, RegistryAssumption DEF AddDevice, RegistryAssumption
<1> DEFINE other == labelToMac[l]
           new == [n \in Macs |-> IF n = m THEN l ELSE IF n = other THEN NoLabel ELSE label[n]]
           map == [k \in Labels |->
                     IF k = l THEN m
                     ELSE IF k = label[m] THEN NoOwner ELSE labelToMac[k]]
<1>1. /\ label' = new /\ subAddress' = subAddress
      /\ sub' = [n \in Macs |-> IF n \in {m, other} THEN NoSubs ELSE sub[n]]
  BY DEF AddDevice
<1>2. labelToMac' = map
  BY <1>0 DEF AddDevice, Relabelled, Without, Maps
<1>3. Maps'
  BY <1>0, <1>1, <1>2 DEF Maps, NoSubs
<1>4. Parents'
  <2> SUFFICES ASSUME NEW n \in Macs, NEW k \in Labels PROVE map[k] = n <=> new[n] = k
    BY <1>1, <1>2 DEF Parents
  <2>1. label[n] = k <=> labelToMac[k] = n
    BY <1>0 DEF Parents
  <2>2. label[m] = k <=> labelToMac[k] = m
    BY <1>0 DEF Parents
  <2>3. label[n] = l <=> other = n
    BY <1>0 DEF Parents
  <2> QED BY <1>0, <2>1, <2>2, <2>3 DEF Maps
<1>5. Subs'
  BY <1>0, <1>1 DEF Subs, NoSubs
<1> QED BY <1>0, <1>3, <1>4, <1>5, EditInvariant

LEMMA RemoveDeviceKeeps ==
  ASSUME RegistryInv, NEW h \in Handlers, NEW m \in Macs, RemoveDevice(h, m)
  PROVE  RegistryInv'
<1>0. Maps /\ Parents /\ Subs /\ Edited(h) /\ NoLabel \notin Labels /\ NoOwner \notin Macs
  BY MapsOf, EditedSaves, RegistryAssumption DEF RemoveDevice, RegistryAssumption
<1>1. /\ label' = [label EXCEPT ![m] = NoLabel] /\ sub' = [sub EXCEPT ![m] = NoSubs]
      /\ labelToMac' = [k \in Labels |-> IF k = label[m] THEN NoOwner ELSE labelToMac[k]]
      /\ subAddress' = [k \in Labels |-> IF k \in SubLabels(m) THEN NoOwner ELSE subAddress[k]]
  BY DEF RemoveDevice, Without
<1>2. Maps'
  BY <1>0, <1>1 DEF Maps, NoSubs
<1>3. Parents'
  BY <1>0, <1>1 DEF Parents, Maps
<1>4. Subs'
  <2> SUFFICES ASSUME NEW n \in Macs, NEW k \in Labels, NEW c \in Components, sub'[n][c] = k
               PROVE  subAddress'[k] = <<n, c>>
    BY DEF Subs
  <2>1. n # m /\ sub[n][c] = k
    BY <1>0, <1>1 DEF Maps, NoSubs
  <2>2. subAddress[k] = <<n, c>>
    BY <1>0, <2>1 DEF Subs
  <2>3. k \notin SubLabels(m)
    <3>1. ASSUME NEW d \in Components, sub[m][d] = k PROVE FALSE
      <4>1. subAddress[k] = <<m, d>>
        BY <1>0, <3>1 DEF Subs
      <4> QED BY <2>1, <2>2, <4>1
    <3> QED BY <3>1 DEF SubLabels
  <2> QED BY <1>1, <2>2, <2>3
<1> QED BY <1>0, <1>2, <1>3, <1>4, EditInvariant

LEMMA AddSubdeviceKeeps ==
  ASSUME RegistryInv, NEW h \in Handlers, NEW m \in Macs, NEW c \in Components,
         NEW l \in Labels, AddSubdevice(h, m, c, l)
  PROVE  RegistryInv'
<1>0. Maps /\ Parents /\ Subs /\ Edited(h) /\ NoLabel \notin Labels
      /\ NoOwner \notin Macs \X Components
  BY MapsOf, EditedSaves, RegistryAssumption DEF AddSubdevice, RegistryAssumption
<1> DEFINE former == sub[m][c]
           held == [sub[m] EXCEPT ![c] = l]
<1>1. /\ label' = label /\ labelToMac' = labelToMac /\ subAddress[l] \in {NoOwner, <<m, c>>}
      /\ sub' = [sub EXCEPT ![m] = held]
      /\ subAddress' = [k \in Labels |->
                          IF k = l THEN <<m, c>>
                          ELSE IF k = former THEN NoOwner ELSE subAddress[k]]
  BY <1>0 DEF AddSubdevice, Without, Maps
<1>2. held \in [Components -> Labels \union {NoLabel}]
  BY <1>0 DEF Maps
<1>3. Maps'
  BY <1>0, <1>1, <1>2 DEF Maps
<1>4. Parents'
  BY <1>0, <1>1 DEF Parents
<1>5. Subs'
  <2> SUFFICES ASSUME NEW n \in Macs, NEW k \in Labels, NEW d \in Components, sub'[n][d] = k
               PROVE  subAddress'[k] = <<n, d>>
    BY DEF Subs
  <2>1. CASE n = m /\ d = c
    BY <1>0, <1>1, <2>1 DEF Maps
  <2>2. CASE n # m \/ d # c
    <3>1. sub[n][d] = k
      BY <1>0, <1>1, <2>2 DEF Maps
    <3>2. subAddress[k] = <<n, d>> /\ <<n, d>> # <<m, c>> /\ <<n, d>> \in Macs \X Components
      BY <1>0, <2>2, <3>1 DEF Subs
    <3>3. k # l
      BY <1>0, <1>1, <3>2
    <3>4. k # former
      BY <1>0, <3>2 DEF Subs
    <3> QED BY <1>1, <3>2, <3>3, <3>4
  <2> QED BY <2>1, <2>2
<1> QED BY <1>0, <1>3, <1>4, <1>5, EditInvariant

LEMMA ForceSubdeviceKeeps ==
  ASSUME RegistryInv, NEW h \in Handlers, NEW m \in Macs, NEW c \in Components,
         NEW l \in Labels, ForceSubdevice(h, m, c, l)
  PROVE  RegistryInv'
<1>0. Maps /\ Parents /\ Subs /\ Edited(h) /\ NoLabel \notin Labels
      /\ NoOwner \notin Macs \union (Macs \X Components)
  BY MapsOf, EditedSaves, RegistryAssumption DEF ForceSubdevice, RegistryAssumption
<1> DEFINE evicted == {labelToMac[l]} \ {NoOwner}
           ListHeld(n) == IF n \in evicted THEN NoSubs
                      ELSE [d \in Components |->
                              IF subAddress[l] = <<n, d>> THEN NoLabel ELSE sub[n][d]]
           freed == {l, sub[m][c]} \union UNION {SubLabels(n) : n \in evicted}
<1>1. /\ label' = [n \in Macs |-> IF n \in evicted THEN NoLabel ELSE label[n]]
      /\ sub' = [n \in Macs |-> IF n = m /\ m \notin evicted
                                  THEN [ListHeld(n) EXCEPT ![c] = l] ELSE ListHeld(n)]
      /\ labelToMac' = [k \in Labels |-> IF k = l THEN NoOwner ELSE labelToMac[k]]
      /\ subAddress' = [k \in Labels |->
                          IF k = l THEN <<m, c>>
                          ELSE IF k \in freed THEN NoOwner ELSE subAddress[k]]
  BY DEF ForceSubdevice, Without
<1>2. \A n \in Macs : ListHeld(n) \in [Components -> Labels \union {NoLabel}]
  BY <1>0 DEF Maps, NoSubs
<1>3. Maps'
  <2>1. sub' \in [Macs -> [Components -> Labels \union {NoLabel}]]
    <3> HIDE DEF ListHeld, evicted
    <3> QED BY <1>1, <1>2
  <2> HIDE DEF ListHeld, evicted, freed
  <2> QED BY <1>0, <1>1, <2>1 DEF Maps
<1>4. Parents'
  <2> SUFFICES ASSUME NEW n \in Macs, NEW k \in Labels
               PROVE  labelToMac'[k] = n <=> label'[n] = k
    BY DEF Parents
  <2>1. (label[n] = k <=> labelToMac[k] = n) /\ (label[n] = l <=> labelToMac[l] = n)
    BY <1>0 DEF Parents
  <2>2. n \in evicted <=> labelToMac[l] = n
    BY <1>0
  <2> HIDE DEF evicted
  <2> QED BY <1>0, <1>1, <2>1, <2>2
<1>5. Subs'
  <2> SUFFICES ASSUME NEW n \in Macs, NEW k \in Labels, NEW d \in Components, sub'[n][d] = k
               PROVE  subAddress'[k] = <<n, d>>
    BY DEF Subs
  <2>1. CASE n = m /\ d = c /\ m \notin evicted
    <3>1. sub'[n][d] = l
      <4> HIDE DEF ListHeld, evicted
      <4> QED BY <1>1, <1>2, <2>1
    <3> QED BY <1>1, <2>1, <3>1
  <2>2. CASE ~(n = m /\ d = c /\ m \notin evicted)
    <3>1. ListHeld(n)[d] = k
      <4> HIDE DEF ListHeld, evicted
      <4> QED BY <1>1, <1>2, <2>2
    <3>2. n \notin evicted /\ subAddress[l] # <<n, d>> /\ sub[n][d] = k
      BY <1>0, <3>1 DEF NoSubs
    <3>3. subAddress[k] = <<n, d>> /\ <<n, d>> # <<m, c>>
      BY <1>0, <2>2, <3>2 DEF Subs
    <3>4. k # l /\ k # sub[m][c]
      BY <1>0, <3>2, <3>3 DEF Subs
    <3>5. ASSUME NEW e \in evicted, k \in SubLabels(e) PROVE FALSE
      <4>1. e \in Macs /\ e # n
        BY <1>0, <3>2 DEF Maps
      <4>2. PICK x \in Components : sub[e][x] = k
        BY <3>5 DEF SubLabels
      <4>3. subAddress[k] = <<e, x>>
        BY <1>0, <4>1, <4>2 DEF Subs
      <4> QED BY <3>3, <4>1, <4>3
    <3>6. k \notin freed
      BY <3>4, <3>5
    <3> QED BY <1>1, <3>3, <3>4, <3>6
  <2> QED BY <2>1, <2>2
<1> QED BY <1>0, <1>3, <1>4, <1>5, EditInvariant

LEMMA RemoveSubdeviceKeeps ==
  ASSUME RegistryInv, NEW h \in Handlers, NEW m \in Macs, NEW c \in Components,
         RemoveSubdevice(h, m, c)
  PROVE  RegistryInv'
<1>0. Maps /\ Parents /\ Subs /\ Edited(h) /\ NoLabel \notin Labels
  BY MapsOf, EditedSaves, RegistryAssumption DEF RemoveSubdevice, RegistryAssumption
<1> DEFINE held == [sub[m] EXCEPT ![c] = NoLabel]
<1>1. /\ label' = label /\ labelToMac' = labelToMac /\ sub' = [sub EXCEPT ![m] = held]
      /\ subAddress' = [k \in Labels |-> IF k = sub[m][c] THEN NoOwner ELSE subAddress[k]]
  BY <1>0 DEF RemoveSubdevice, Without, Maps
<1>2. Maps'
  BY <1>0, <1>1 DEF Maps
<1>3. Parents'
  BY <1>0, <1>1 DEF Parents
<1>4. Subs'
  <2> SUFFICES ASSUME NEW n \in Macs, NEW k \in Labels, NEW d \in Components, sub'[n][d] = k
               PROVE  subAddress'[k] = <<n, d>>
    BY DEF Subs
  <2>1. ~(n = m /\ d = c) /\ sub[n][d] = k
    BY <1>0, <1>1 DEF Maps
  <2>2. subAddress[k] = <<n, d>> /\ <<n, d>> # <<m, c>>
    BY <1>0, <2>1 DEF Subs
  <2>3. k # sub[m][c]
    BY <1>0, <2>2 DEF Subs
  <2> QED BY <1>1, <2>2, <2>3
<1> QED BY <1>0, <1>2, <1>3, <1>4, EditInvariant

\* A save() that begins holds the registry as it is.
LEMMA BeginSaveKeeps ==
  ASSUME RegistryInv, NEW h \in Handlers, BeginSave(h) PROVE RegistryInv'
<1>1. /\ saving \in [Handlers -> {"idle", "save", "write", "failed"}]
      /\ saving' = [saving EXCEPT ![h] = "write"] /\ snapshot' = Memory
      /\ \A g \in Handlers : saving[g] # "write"
      /\ UNCHANGED <<label, sub, labelToMac, subAddress, file, loaded, registryEdits>>
  BY DEF BeginSave, devices, RegistryInv, RegistryTypeOK
<1>2. Memory' = Memory /\ Memory \in Content
  BY <1>1 DEF Memory, RegistryInv, RegistryTypeOK
<1>3. RegistryTypeOK'
  BY <1>1, <1>2 DEF RegistryInv, RegistryTypeOK
<1>4. LabelsResolve'
  BY <1>1 DEF RegistryInv, LabelsResolve
<1>5. SavedIsCurrent' /\ SaveInv'
  BY <1>1, <1>2 DEF SavedIsCurrent, SaveInv
<1> QED BY <1>3, <1>4, <1>5 DEF RegistryInv

\* The file gets what the registry held, unless an edit has its save() to make.
LEMMA EndSaveKeeps ==
  ASSUME RegistryInv, NEW h \in Handlers, EndSave(h) PROVE RegistryInv'
<1>0. RegistryTypeOK /\ LabelsResolve /\ SaveInv
  BY DEF RegistryInv
<1>1. PICK merged \in SUBSET {m \in Macs : label[m] = snapshot.label[m]} :
        file' = [snapshot EXCEPT !.sub =
                   [m \in Macs |-> IF m \in merged THEN sub[m] ELSE @[m]]]
  BY DEF EndSave
<1>2. /\ saving[h] = "write"
      /\ saving' = [g \in Handlers |->
                      IF g = h \/ saving[g] = "failed" THEN "idle" ELSE saving[g]]
      /\ UNCHANGED <<label, sub, labelToMac, subAddress, snapshot, loaded, registryEdits>>
  BY DEF EndSave, devices
<1>3. Memory' = Memory
  BY <1>2 DEF Memory
<1> DEFINE subs == [m \in Macs |-> IF m \in merged THEN sub[m] ELSE snapshot.sub[m]]
<1>4. file' = [label |-> snapshot.label, sub |-> subs]
  BY <1>0, <1>1 DEF RegistryTypeOK, Content
<1>5. file' \in Content
  <2>1. subs \in [Macs -> [Components -> Labels \union {NoLabel}]]
    BY <1>0 DEF RegistryTypeOK, Content, Memory
  <2> HIDE DEF subs
  <2> QED BY <1>0, <1>4, <2>1 DEF RegistryTypeOK, Content
<1>6. RegistryTypeOK'
  BY <1>0, <1>2, <1>3, <1>5 DEF RegistryTypeOK
<1>7. LabelsResolve'
  BY <1>0, <1>2 DEF LabelsResolve
<1>8. SavedIsCurrent'
  <2> SUFFICES ASSUME loaded, \A g \in Handlers : saving'[g] = "idle" PROVE file' = Memory
    BY <1>2, <1>3 DEF SavedIsCurrent
  <2>1. \A g \in Handlers : saving[g] # "save"
    BY <1>0, <1>2 DEF RegistryTypeOK
  <2>2. snapshot = Memory
    BY <1>0, <1>2, <2>1 DEF SaveInv
  <2>3. subs = sub
    BY <1>0, <2>2 DEF Memory, RegistryTypeOK, Content
  <2> QED BY <1>4, <2>2, <2>3 DEF Memory
<1>9. SaveInv'
  BY <1>0, <1>2 DEF SaveInv, RegistryTypeOK
<1> QED BY <1>6, <1>7, <1>8, <1>9 DEF RegistryInv

\* A save() that fails leaves the file behind, and its thread says so.
LEMMA FailSaveKeeps ==
  ASSUME RegistryInv, NEW h \in Handlers, FailSave(h) PROVE RegistryInv'
<1>1. /\ saving \in [Handlers -> {"idle", "save", "write", "failed"}] /\ saving[h] = "write"
      /\ saving' = [saving EXCEPT ![h] = "failed"]
      /\ UNCHANGED <<label, sub, labelToMac, subAddress, file, snapshot, loaded, registryEdits>>
  BY DEF FailSave, devices, RegistryInv, RegistryTypeOK
<1>2. Memory' = Memory
  BY <1>1 DEF Memory
<1>3. RegistryTypeOK'
  BY <1>1, <1>2 DEF RegistryInv, RegistryTypeOK
<1>4. LabelsResolve'
  BY <1>1 DEF RegistryInv, LabelsResolve
<1>5. SavedIsCurrent' /\ SaveInv'
  BY <1>1 DEF SavedIsCurrent, SaveInv, RegistryInv
<1> QED BY <1>3, <1>4, <1>5 DEF RegistryInv

\* load(): of a file in which no label stands for two things, the maps are
\* inverses of the entries.
LEMMA RestartKeeps == ASSUME RegistryInv, RestartRegistry PROVE RegistryInv'
<1>0. /\ RegistryTypeOK /\ NoLabel \notin Labels /\ NoOwner \notin Macs \union (Macs \X Components)
      /\ Macs \intersect (Macs \X Components) = {}
      /\ file.label \in [Macs -> Labels \union {NoLabel}]
      /\ file.sub \in [Macs -> [Components -> Labels \union {NoLabel}]]
      /\ file = [label |-> file.label, sub |-> file.sub]
  BY RegistryAssumption DEF RegistryAssumption, RegistryInv, RegistryTypeOK, Content
<1>1. /\ loaded' = Valid(file) /\ saving' = [h \in Handlers |-> "idle"]
      /\ UNCHANGED <<file, snapshot, registryEdits>>
  BY DEF RestartRegistry
<1>2. SaveInv'
  BY <1>1 DEF SaveInv
<1>3. CASE Valid(file)
  <2>1. /\ label' = file.label /\ sub' = file.sub
        /\ labelToMac' = [l \in Labels |-> Owner(Holders(file, l) \intersect Macs)]
        /\ subAddress' = [l \in Labels |-> Owner(Holders(file, l) \ Macs)]
    BY <1>3 DEF RestartRegistry
  <2>2. ASSUME NEW l \in Labels
        PROVE  /\ \A m \in Macs : m \in Holders(file, l) <=> file.label[m] = l
               /\ \A m \in Macs, c \in Components :
                    <<m, c>> \in Holders(file, l) <=> file.sub[m][c] = l
               /\ Holders(file, l) \subseteq Macs \union (Macs \X Components)
               /\ \A x, y \in Holders(file, l) : x = y
    BY <1>0, <1>3 DEF Holders, Valid
  <2>3. ASSUME NEW S PROVE (S = {} /\ Owner(S) = NoOwner) \/ Owner(S) \in S
    BY DEF Owner
  <2>4. ASSUME NEW l \in Labels
        PROVE  /\ labelToMac'[l] \in Macs \union {NoOwner}
               /\ subAddress'[l] \in (Macs \X Components) \union {NoOwner}
               /\ \A m \in Macs : labelToMac'[l] = m <=> file.label[m] = l
               /\ \A m \in Macs, c \in Components :
                    file.sub[m][c] = l => subAddress'[l] = <<m, c>>
    <3> DEFINE parents == Holders(file, l) \intersect Macs
               subs == Holders(file, l) \ Macs
    <3>1. labelToMac'[l] = Owner(parents) /\ subAddress'[l] = Owner(subs)
      BY <2>1
    <3>2. (parents = {} /\ Owner(parents) = NoOwner) \/ Owner(parents) \in parents
      BY <2>3
    <3>3. (subs = {} /\ Owner(subs) = NoOwner) \/ Owner(subs) \in subs
      BY <2>3
    <3>4. /\ \A m \in Macs : m \in parents <=> file.label[m] = l
          /\ \A m \in Macs, c \in Components : <<m, c>> \in subs <=> file.sub[m][c] = l
          /\ subs \subseteq Macs \X Components /\ parents \subseteq Macs
          /\ (\A x, y \in parents : x = y) /\ \A x, y \in subs : x = y
      BY <1>0, <2>2
    <3> HIDE DEF parents, subs
    <3>5. \A m \in Macs : labelToMac'[l] = m <=> file.label[m] = l
      BY <1>0, <3>1, <3>2, <3>4
    <3>6. \A m \in Macs, c \in Components : file.sub[m][c] = l => subAddress'[l] = <<m, c>>
      BY <3>1, <3>3, <3>4
    <3> QED BY <3>1, <3>2, <3>3, <3>4, <3>5, <3>6
  <2>5. Memory' = file
    BY <1>0, <2>1 DEF Memory
  <2>6. RegistryTypeOK'
    <3>1. labelToMac' \in [Labels -> Macs \union {NoOwner}]
      BY <2>1, <2>4
    <3>2. subAddress' \in [Labels -> (Macs \X Components) \union {NoOwner}]
      BY <2>1, <2>4
    <3> QED BY <1>0, <1>1, <1>3, <2>5, <3>1, <3>2 DEF RegistryTypeOK
  <2>7. LabelsResolve'
    BY <2>1, <2>4 DEF LabelsResolve
  <2>8. SavedIsCurrent'
    BY <1>1, <2>5 DEF SavedIsCurrent
  <2> QED BY <1>2, <2>6, <2>7, <2>8 DEF RegistryInv
<1>4. CASE ~Valid(file)
  <2>1. UNCHANGED <<label, sub, labelToMac, subAddress>> /\ ~loaded' /\ loaded' \in BOOLEAN
    <3>1. UNCHANGED <<label, sub, labelToMac, subAddress>>
      BY <1>4 DEF RestartRegistry, devices
    <3>2. loaded' = FALSE
      BY <1>1, <1>4 DEF Valid
    <3> QED BY <3>1, <3>2
  <2>2. RegistryTypeOK'
    BY <1>0, <1>1, <2>1 DEF RegistryTypeOK, Memory
  <2> QED BY <1>2, <2>1, <2>2 DEF RegistryInv, LabelsResolve, SavedIsCurrent
<1> QED BY <1>3, <1>4

LEMMA RegistryBegin == RegistryInit => RegistryInv
<1> SUFFICES ASSUME RegistryInit PROVE RegistryInv
  OBVIOUS
<1>0. NoLabel \notin Labels /\ NoOwner \notin Macs /\ MaxRegistryEdits \in Nat
  BY RegistryAssumption DEF RegistryAssumption
<1>1. Empty \in Content /\ Memory = Empty
  BY DEF RegistryInit, Empty, Content, Memory, NoSubs
<1>2. RegistryTypeOK
  BY <1>0, <1>1 DEF RegistryInit, RegistryTypeOK
<1>3. LabelsResolve
  BY <1>0 DEF RegistryInit, LabelsResolve, Empty, NoSubs
<1>4. SavedIsCurrent /\ SaveInv
  BY <1>1 DEF RegistryInit, SavedIsCurrent, SaveInv
<1> QED BY <1>2, <1>3, <1>4 DEF RegistryInv

LEMMA RegistryStep == RegistryInv /\ [RegistryNext]_registryVars => RegistryInv'
<1> SUFFICES ASSUME RegistryInv, [RegistryNext]_registryVars PROVE RegistryInv'
  OBVIOUS
<1>1. CASE UNCHANGED registryVars
  <2>1. /\ UNCHANGED <<label, sub, labelToMac, subAddress, file, saving, snapshot, loaded,
                       registryEdits>>
    BY <1>1 DEF registryVars, devices
  <2>2. RegistryTypeOK'
    BY <2>1 DEF RegistryInv, RegistryTypeOK, Memory
  <2>3. LabelsResolve' /\ SavedIsCurrent' /\ SaveInv'
    BY <2>1 DEF RegistryInv, LabelsResolve, SavedIsCurrent, SaveInv, Memory
  <2> QED BY <2>2, <2>3 DEF RegistryInv
<1> QED BY <1>1, AddDeviceKeeps, RemoveDeviceKeeps, AddSubdeviceKeeps, ForceSubdeviceKeeps,
           RemoveSubdeviceKeeps, BeginSaveKeeps, EndSaveKeeps, FailSaveKeeps,
           RestartKeeps
        DEF RegistryNext

LEMMA RegistryAlways == RegistrySpec => []RegistryInv
BY RegistryBegin, RegistryStep, PTL DEF RegistrySpec

\* For any devices, labels and number of request threads, whatever order edits,
\* saves and restarts come in: a device is found by its label and by no other,
\* a sub-device that exists by its own, and when no request is in progress the
\* file holds what the registry holds.
THEOREM RegistryConsistentAlways == RegistrySpec => []RegistryConsistent
<1>1. RegistryInv => RegistryConsistent
  BY DEF RegistryInv, RegistryConsistent
<1> QED BY <1>1, RegistryAlways, PTL

\* The registry's variables keep their types, its maps' owners among them.
THEOREM RegistryTypeCorrect == RegistrySpec => []RegistryTypeOK
<1>1. RegistryInv => RegistryTypeOK
  BY DEF RegistryInv
<1> QED BY <1>1, RegistryAlways, PTL

-----------------------------------------------------------------------------
(* The device manager.                                                     *)

\* What an API thread is in the middle of: a play or a stop with a controller
\* that was made, an edit of two groups, or a rediscovery with the groups it
\* resolved.
Uses == [errand : {"play", "stop"}, about : Ids, carries : 1 .. madeControllers]
Edits == [errand : {"save", "set", "rebuild"}, about : Names \X Names, carries : Groups]
Probing == [errand : {"resolved", "assigned"}, about : SUBSET Ips, carries : Groups]
TaskInv ==
  /\ DevicesTypeOK
  /\ task \in [Users -> {Idle} \union Uses \union Edits \union Probing]
  /\ \A x \in Ids : controller[x] <= madeControllers

\* A play() under way holds a controller of the table, or one that was dropped
\* from it meanwhile.
PlayInv ==
  \A u \in Users : task[u].errand = "play" =>
     task[u].carries \in overtaken \/ \E x \in Ids : controller[x] = task[u].carries

LEMMA RequestEffect ==
  ASSUME TaskInv, NEW u \in Users, NEW pc, NEW id, NEW with, BeginRequest(u, pc, id, with)
  PROVE  /\ task'[u] = [errand |-> pc, about |-> id, carries |-> with]
         /\ \A v \in Users \ {u} : task'[v] = task[v]
         /\ uses' \in 0 .. MaxUses /\ ~down
         /\ task[u].errand = "idle"
<1>1. MaxUses \in Nat /\ uses \in 0 .. MaxUses /\ DOMAIN task = Users
  BY DevicesAssumption DEF DevicesAssumption, TaskInv, DevicesTypeOK
<1> QED BY <1>1 DEF BeginRequest

LEMMA EndEffect ==
  ASSUME TaskInv, NEW u \in Users, Ends(u)
  PROVE  task'[u] = Idle /\ \A v \in Users \ {u} : task'[v] = task[v]
  BY DEF TaskInv, Ends

LEMMA ProceedEffect ==
  ASSUME TaskInv, NEW u \in Users, NEW pc, task[u] # Idle, Proceeds(u, pc)
  PROVE  /\ task'[u].errand = pc /\ task'[u].about = task[u].about
         /\ task'[u].carries = task[u].carries
         /\ \A v \in Users \ {u} : task'[v] = task[v]
<1>1. DOMAIN task = Users
  BY DEF TaskInv
<1> QED BY <1>1 DEF Proceeds

LEMMA TaskKinds ==
  ASSUME TaskInv, NEW u \in Users
  PROVE  /\ task[u].errand \in {"play", "stop"} => task[u] \in Uses
         /\ task[u].errand \in {"save", "set", "rebuild"} => task[u] \in Edits
         /\ task[u].errand \in {"resolved", "assigned"} => task[u] \in Probing
         /\ task[u].errand = "idle" => task[u] = Idle
  BY DEF TaskInv, Uses, Edits, Probing, Idle

\* An emitter writes to devices of its own time.
LEMMA EmitterTypes ==
  ASSUME TaskInv
  PROVE  /\ NoEmitter \in Emitter
         /\ \A x \in Ids : EmitterOf(x) \in Emitter
         /\ \A n, members : \A d \in Emitter : GroupEmitterFor(n, members, d) \in Emitter
<1>1. 0 \in Probe
  BY DevicesAssumption DEF Probe, DevicesAssumption
<1> QED BY <1>1 DEF TaskInv, DevicesTypeOK, NoEmitter, EmitterOf, GroupEmitterFor, Emitter

\* Dropped controllers are out of the table and silent, or their play() is noted.
LEMMA DropEffect ==
  ASSUME TaskInv, NEW S \in SUBSET Ids, Drop(S)
  PROVE  /\ controller' \in [Ids -> Controller \union {0}]
         /\ \A x \in Ids : controller'[x] = IF x \in S THEN 0 ELSE controller[x]
         /\ playing' \subseteq playing /\ overtaken' \subseteq Controller
         /\ overtaken \subseteq overtaken'
         /\ \A k \in playing' : \A x \in S : controller[x] # k
         /\ \A u \in Users, x \in S :
              task[u].errand = "play" /\ controller[x] = task[u].carries
                => task[u].carries \in overtaken'
<1>0. /\ controller \in [Ids -> Controller \union {0}] /\ playing \subseteq Controller
      /\ overtaken \subseteq Controller /\ 0 \notin Controller
  BY DevicesAssumption DEF TaskInv, DevicesTypeOK, Controller, DevicesAssumption
<1> DEFINE gone == {controller[x] : x \in S} \ {0}
<1>1. /\ controller' = [x \in Ids |-> IF x \in S THEN 0 ELSE controller[x]]
      /\ playing' = playing \ gone
      /\ overtaken' = overtaken \union
           {k \in gone : \E u \in Users : task[u].errand = "play" /\ task[u].carries = k}
  BY DEF Drop
<1>2. gone \subseteq Controller
  BY <1>0
<1>3. ASSUME NEW u \in Users, NEW x \in S, task[u].errand = "play",
             controller[x] = task[u].carries
      PROVE  task[u].carries \in overtaken'
  <2>1. task[u].carries \in Nat /\ task[u].carries # 0
    <3>1. task[u] \in Uses
      BY <1>3, TaskKinds
    <3>2. task[u].carries \in 1 .. madeControllers /\ madeControllers \in Nat
      BY <3>1, DevicesAssumption DEF Uses, TaskInv, DevicesTypeOK, DevicesAssumption
    <3> QED BY <3>2
  <2>2. task[u].carries \in gone
    BY <1>3, <2>1
  <2> QED BY <1>1, <1>3, <2>2
<1>4. \A k \in playing' : \A x \in S : controller[x] # k
  BY <1>0, <1>1
<1> QED BY <1>0, <1>1, <1>2, <1>3, <1>4

Jobs == {Idle} \union Uses \union Edits \union Probing

LEMMA BeginJob ==
  ASSUME TaskInv, NEW u \in Users, NEW pc, NEW id, NEW with, BeginRequest(u, pc, id, with),
         [errand |-> pc, about |-> id, carries |-> with] \in Jobs',
         madeControllers \in Nat, madeControllers' \in Nat, madeControllers <= madeControllers'
  PROVE  task' \in [Users -> Jobs'] /\ uses' \in 0 .. MaxUses
<1>1. Jobs \subseteq Jobs'
  BY DEF Jobs, Uses
<1>2. task \in [Users -> Jobs']
  BY <1>1 DEF TaskInv, Jobs
<1> QED BY <1>2, RequestEffect DEF BeginRequest

LEMMA TaskStep == TaskInv /\ [DevicesNext]_devicesVars => TaskInv'
<1> SUFFICES ASSUME TaskInv, [DevicesNext]_devicesVars PROVE TaskInv'
  OBVIOUS
<1>0. /\ config \in Groups /\ saved \in Groups /\ groupConfig \in Groups
      /\ device \in Emitter /\ groupEmitter \in [Names -> Emitter]
      /\ controller \in [Ids -> Controller \union {0}]
      /\ drives \in [Controller -> Emitter] /\ playing \subseteq Controller
      /\ probes \in Probe /\ madeControllers \in 0..MaxControllers /\ uses \in 0..MaxUses
      /\ down \in BOOLEAN /\ edited \in BOOLEAN /\ overtaken \subseteq Controller
      /\ task \in [Users -> Jobs] /\ \A x \in Ids : controller[x] <= madeControllers
      /\ MaxControllers \in Nat /\ MaxProbes \in Nat
  BY DevicesAssumption DEF TaskInv, DevicesTypeOK, DevicesAssumption, Jobs
<1> DEFINE Typed == /\ {config, saved, groupConfig} \subseteq Groups
                    /\ device \in Emitter /\ groupEmitter \in [Names -> Emitter]
                    /\ controller \in [Ids -> Controller \union {0}]
                    /\ drives \in [Controller -> Emitter] /\ playing \subseteq Controller
                    /\ probes \in Probe /\ madeControllers \in 0..MaxControllers
                    /\ uses \in 0..MaxUses /\ {down, edited} \subseteq BOOLEAN
                    /\ overtaken \subseteq Controller
                    /\ task \in [Users -> Jobs]
                    /\ \A x \in Ids : controller[x] <= madeControllers
<1>1. ASSUME Typed' PROVE TaskInv'
  <2>1. \A j \in Jobs' : j.errand \in Pc \union {"idle"}
    BY DEF Jobs, Uses, Edits, Probing, Idle, Pc
  <2>2. \A u \in Users : task'[u].errand \in Pc \union {"idle"}
    BY <1>1, <2>1
  <2> QED BY <1>1, <2>2 DEF TaskInv, DevicesTypeOK, Jobs
<1>2. ASSUME NEW u \in Users, NEW v \in Jobs, task' = [task EXCEPT ![u] = v],
             madeControllers' = madeControllers
      PROVE  task' \in [Users -> Jobs']
  <2>1. Jobs' = Jobs
    BY <1>2 DEF Jobs, Uses
  <2> QED BY <1>0, <1>2, <2>1
<1>3. Idle \in Jobs
  BY DEF Jobs
<1>4. ASSUME NEW u \in Users, NEW x \in Ids, BeginPlay(u, x) \/ BeginStop(u, x) PROVE TaskInv'
  <2>1. PICK pc \in {"play", "stop"} : LookUpController(u, pc, x)
    BY <1>4 DEF BeginPlay, BeginStop
  <2>2. UNCHANGED <<config, saved, groupConfig, device, groupEmitter, playing, probes, down,
                    edited, overtaken>>
    BY <2>1 DEF LookUpController, files
  <2>3. CASE controller[x] # 0
    <3>1. BeginRequest(u, pc, x, controller[x])
          /\ UNCHANGED <<controller, drives, madeControllers>>
      BY <2>1, <2>3 DEF LookUpController
    <3>2. controller[x] \in 1 .. madeControllers'
      BY <1>0, <2>3, <3>1 DEF Controller
    <3>3. [errand |-> pc, about |-> x, carries |-> controller[x]] \in Jobs'
      BY <3>2 DEF Jobs, Uses
    <3>4. task' \in [Users -> Jobs'] /\ uses' \in 0 .. MaxUses
      BY <1>0, <3>1, <3>3, BeginJob
    <3> QED BY <1>0, <1>1, <2>2, <3>1, <3>4
  <2>4. CASE controller[x] = 0
    <3> DEFINE k == madeControllers + 1
    <3>1. /\ madeControllers < MaxControllers /\ madeControllers' = k
          /\ controller' = [controller EXCEPT ![x] = k]
          /\ drives' = [drives EXCEPT ![k] = EmitterOf(x)]
          /\ BeginRequest(u, pc, x, k)
      BY <2>1, <2>4 DEF LookUpController
    <3>2. k \in Controller /\ k \in 1 .. madeControllers' /\ madeControllers <= k
          /\ madeControllers' \in 0 .. MaxControllers
      BY <1>0, <3>1 DEF Controller
    <3>3. [errand |-> pc, about |-> x, carries |-> k] \in Jobs'
      BY <3>2 DEF Jobs, Uses
    <3>4. task' \in [Users -> Jobs'] /\ uses' \in 0 .. MaxUses
      BY <1>0, <3>1, <3>2, <3>3, BeginJob
    <3>5. drives' \in [Controller -> Emitter]
      BY <1>0, <3>1, <3>2, EmitterTypes
    <3>6. controller' \in [Ids -> Controller \union {0}]
          /\ \A y \in Ids : controller'[y] <= madeControllers'
      <4> HIDE DEF k
      <4>1. \A y \in Ids : controller[y] \in Nat /\ controller[y] <= k
        BY <1>0, <3>2 DEF Controller, k
      <4> QED BY <1>0, <3>1, <3>2, <4>1 DEF Controller
    <3> QED BY <1>0, <1>1, <2>2, <3>2, <3>4, <3>5, <3>6
  <2> QED BY <2>3, <2>4
<1>5. ASSUME NEW u \in Users, EndPlay(u) \/ EndStop(u) PROVE TaskInv'
  <2>1. /\ UNCHANGED <<config, saved, groupConfig, device, groupEmitter, controller, drives,
                       madeControllers, probes, uses, down, edited, overtaken>>
        /\ task' = [task EXCEPT ![u] = Idle]
        /\ playing' \subseteq playing \union {task[u].carries}
        /\ task[u].errand \in {"play", "stop"}
    BY <1>5 DEF EndPlay, EndStop, files, Ends
  <2>2. task[u].carries \in Controller
    BY <1>0, <2>1, TaskKinds DEF Uses, Controller
  <2> QED BY <1>0, <1>1, <1>2, <1>3, <2>1, <2>2
<1>6. ASSUME NEW u \in Users, NEW old \in Names, NEW new \in Names, NEW members \in SUBSET Ips,
             EditGroup(u, old, new, members)
      PROVE  TaskInv'
  <2> DEFINE with == [[config EXCEPT ![old] = {}] EXCEPT ![new] = members]
  <2>1. /\ BeginRequest(u, "save", <<old, new>>, with)
        /\ UNCHANGED <<config, saved, groupConfig, device, groupEmitter, controller, drives,
                       playing, madeControllers, probes, down, overtaken>>
    BY <1>6 DEF EditGroup, tables, files
  <2>2. edited' \in BOOLEAN
    BY <1>0, <1>6 DEF EditGroup, Editing
  <2>3. with \in Groups
    BY <1>0 DEF Groups
  <2>4. [errand |-> "save", about |-> <<old, new>>, carries |-> with] \in Jobs'
    <3> HIDE DEF with
    <3> QED BY <2>3 DEF Jobs, Edits
  <2>5. task' \in [Users -> Jobs'] /\ uses' \in 0 .. MaxUses
    <3> HIDE DEF with
    <3> QED BY <1>0, <2>1, <2>4, BeginJob
  <2> QED BY <1>0, <1>1, <2>1, <2>2, <2>5
<1>7. ASSUME NEW u \in Users, NEW online \in SUBSET Ips, Rediscover(u, online) PROVE TaskInv'
  <2> DEFINE with == [n \in Names |-> config[n] \intersect online]
  <2>1. /\ BeginRequest(u, "resolved", online, with)
        /\ UNCHANGED <<config, saved, groupConfig, device, groupEmitter, controller, drives,
                       playing, madeControllers, probes, down, overtaken>>
    BY <1>7 DEF Rediscover, tables, files
  <2>2. edited' \in BOOLEAN
    BY <1>0, <1>7 DEF Rediscover, Editing
  <2>3. with \in Groups
    BY <1>0 DEF Groups
  <2>4. [errand |-> "resolved", about |-> online, carries |-> with] \in Jobs'
    <3> HIDE DEF with
    <3> QED BY <2>3 DEF Jobs, Probing
  <2>5. task' \in [Users -> Jobs'] /\ uses' \in 0 .. MaxUses
    <3> HIDE DEF with
    <3> QED BY <1>0, <2>1, <2>4, BeginJob
  <2> QED BY <1>0, <1>1, <2>1, <2>2, <2>5
<1>8. ASSUME NEW u \in Users, SaveGroups(u) \/ SetGroups(u) \/ Assign(u) PROVE TaskInv'
  <2>1. /\ UNCHANGED <<device, groupEmitter, controller, drives, playing, madeControllers,
                       probes, uses, down, edited, overtaken>>
        /\ {config', saved', groupConfig'} \subseteq
             {config, saved, groupConfig, task[u].carries}
        /\ \E pc : /\ Proceeds(u, pc)
                   /\ \/ task[u].errand \in {"save", "set"} /\ pc \in {"set", "rebuild"}
                      \/ task[u].errand = "resolved" /\ pc = "assigned"
    BY <1>8 DEF SaveGroups, SetGroups, Assign, tables, files
  <2>2. PICK pc : /\ task' = [task EXCEPT ![u] = [@ EXCEPT !.errand = pc]]
                  /\ \/ task[u].errand \in {"save", "set"} /\ pc \in {"set", "rebuild"}
                     \/ task[u].errand = "resolved" /\ pc = "assigned"
    BY <2>1 DEF Proceeds
  <2>3. [task[u] EXCEPT !.errand = pc] \in Jobs /\ task[u].carries \in Groups
    <3>1. CASE task[u] \in Edits /\ pc \in {"set", "rebuild"}
      BY <3>1 DEF Edits, Jobs
    <3>2. CASE task[u] \in Probing /\ pc = "assigned"
      BY <3>2 DEF Probing, Jobs
    <3> QED BY <2>2, <3>1, <3>2, TaskKinds
  <2>4. task' \in [Users -> Jobs']
    <3> DEFINE v == [task[u] EXCEPT !.errand = pc]
    <3>1. task' = [task EXCEPT ![u] = v]
      BY <2>2
    <3> HIDE DEF v
    <3> QED BY <1>2, <2>1, <2>3, <3>1 DEF v
  <2> QED BY <1>0, <1>1, <2>1, <2>3, <2>4
<1>9. ASSUME NEW u \in Users, RebuildGroups(u) PROVE TaskInv'
  <2> DEFINE old == task[u].about[1]
             new == task[u].about[2]
             members == task[u].carries[new]
  <2>1. /\ task[u].errand = "rebuild" /\ task' = [task EXCEPT ![u] = Idle]
        /\ groupConfig' = [[groupConfig EXCEPT ![old] = {}] EXCEPT ![new] = members]
        /\ groupEmitter' = [[groupEmitter EXCEPT ![old] = NoEmitter]
                              EXCEPT ![new] = GroupEmitterFor(new, members, device)]
        /\ Drop({old, new})
        /\ UNCHANGED <<config, saved, device, drives, madeControllers, probes, uses, down,
                       edited>>
    BY <1>9 DEF RebuildGroups, Ends, files
  <2>2. old \in Names /\ new \in Names /\ members \in SUBSET Ips
    BY <2>1, TaskKinds DEF Edits, Groups
  <2>3. groupConfig' \in Groups
    BY <1>0, <2>1, <2>2 DEF Groups
  <2>4. groupEmitter' \in [Names -> Emitter]
    <3>1. NoEmitter \in Emitter /\ GroupEmitterFor(new, members, device) \in Emitter
      BY <1>0, EmitterTypes
    <3> HIDE DEF old, new, members
    <3> QED BY <1>0, <2>1, <2>2, <3>1
  <2>5. {old, new} \subseteq Ids
    BY <2>2 DEF Ids
  <2>6. /\ controller' \in [Ids -> Controller \union {0}]
        /\ \A x \in Ids : controller'[x] <= madeControllers
        /\ playing' \subseteq Controller /\ overtaken' \subseteq Controller
    <3> HIDE DEF old, new
    <3> QED BY <1>0, <2>1, <2>5, DropEffect
  <2>7. task' \in [Users -> Jobs']
    BY <1>2, <1>3, <2>1
  <2> HIDE DEF old, new, members
  <2> QED BY <1>0, <1>1, <2>1, <2>3, <2>4, <2>6, <2>7
<1>10. ASSUME NEW u \in Users, LoadDevices(u) PROVE TaskInv'
  <2> DEFINE listed == [i \in Ips |-> IF i \in task[u].about THEN probes + 1 ELSE 0]
             emitters == [n \in Names |-> GroupEmitterFor(n, groupConfig[n], listed)]
  <2>1. /\ probes < MaxProbes /\ task' = [task EXCEPT ![u] = Idle] /\ probes' = probes + 1
        /\ device' = listed /\ groupEmitter' = emitters /\ Drop(Replaced(listed, emitters))
        /\ UNCHANGED <<config, saved, groupConfig, drives, madeControllers, uses, down, edited>>
    BY <1>10 DEF LoadDevices, Ends, files
  <2>2. probes + 1 \in Probe /\ 0 \in Probe
    BY <1>0, <2>1 DEF Probe
  <2>3. listed \in Emitter
    BY <2>2 DEF Emitter
  <2>4. emitters \in [Names -> Emitter]
    <3> HIDE DEF listed
    <3> QED BY <2>3, EmitterTypes
  <2>5. Replaced(listed, emitters) \subseteq Ids
    BY DEF Replaced, Ids
  <2>6. /\ controller' \in [Ids -> Controller \union {0}]
        /\ \A x \in Ids : controller'[x] <= madeControllers
        /\ playing' \subseteq Controller /\ overtaken' \subseteq Controller
    <3> HIDE DEF listed, emitters
    <3> QED BY <1>0, <2>1, <2>5, DropEffect
  <2>7. task' \in [Users -> Jobs']
    BY <1>2, <1>3, <2>1
  <2> HIDE DEF listed, emitters
  <2> QED BY <1>0, <1>1, <2>1, <2>2, <2>3, <2>4, <2>6, <2>7
<1>11. CASE ShutdownDevices
  <2> DEFINE S == {i \in Ips : device[i] # 0}
  <2>1. /\ down' = TRUE /\ device' = NoEmitter /\ Drop(S)
        /\ UNCHANGED <<config, saved, groupConfig, groupEmitter, drives, madeControllers, task,
                       probes, uses, edited>>
    BY <1>11 DEF ShutdownDevices, files
  <2>2. S \subseteq Ids
    BY DEF Ids
  <2>3. /\ controller' \in [Ids -> Controller \union {0}]
        /\ \A x \in Ids : controller'[x] <= madeControllers
        /\ playing' \subseteq Controller /\ overtaken' \subseteq Controller
    <3> HIDE DEF S
    <3> QED BY <1>0, <2>1, <2>2, DropEffect
  <2>4. task' \in [Users -> Jobs']
    BY <1>0, <2>1 DEF Jobs, Uses
  <2> QED BY <1>0, <1>1, <2>1, <2>3, <2>4, EmitterTypes
<1>12. CASE UNCHANGED devicesVars
  <2>1. Typed'
    BY <1>0, <1>12 DEF devicesVars, tables, files, Jobs, Uses
  <2> QED BY <1>1, <2>1
<1> QED BY <1>4, <1>5, <1>6, <1>7, <1>8, <1>9, <1>10, <1>11, <1>12
        DEF DevicesNext, CreateGroup, UpdateGroup, DeleteGroup

\* What the tables hold of an id, after a step that leaves the emitters alone.
LEMMA SameEmitters ==
  ASSUME UNCHANGED <<device, groupEmitter>>
  PROVE  \A x : EmitterOf(x)' = EmitterOf(x)
  BY DEF EmitterOf

LEMMA TablesStep == TaskInv /\ TablesAgree /\ [DevicesNext]_devicesVars => TablesAgree'
<1> SUFFICES ASSUME TaskInv, TablesAgree, [DevicesNext]_devicesVars, ~down'
             PROVE  TablesAgree'
  BY DEF TablesAgree
<1>0. /\ device \in Emitter /\ groupEmitter \in [Names -> Emitter]
      /\ controller \in [Ids -> Controller \union {0}]
      /\ drives \in [Controller -> Emitter]
      /\ madeControllers \in Nat /\ \A x \in Ids : controller[x] <= madeControllers
      /\ MaxControllers \in Nat /\ 0 \notin Controller
  BY DevicesAssumption DEF TaskInv, DevicesTypeOK, DevicesAssumption, Controller
<1>1. ASSUME UNCHANGED <<device, groupEmitter, controller, drives, down>> PROVE TablesAgree'
  BY <1>1, SameEmitters DEF TablesAgree
<1>2. ASSUME NEW u \in Users, NEW x \in Ids, BeginPlay(u, x) \/ BeginStop(u, x)
      PROVE  TablesAgree'
  <2>1. PICK pc \in {"play", "stop"} : LookUpController(u, pc, x)
    BY <1>2 DEF BeginPlay, BeginStop
  <2>2. UNCHANGED <<device, groupEmitter, down>> /\ EmitterOf(x) # NoEmitter
    BY <2>1 DEF LookUpController
  <2>3. CASE controller[x] # 0
    BY <1>1, <2>1, <2>2, <2>3 DEF LookUpController
  <2>4. CASE controller[x] = 0
    <3> DEFINE k == madeControllers + 1
    <3>1. /\ madeControllers < MaxControllers
          /\ controller' = [controller EXCEPT ![x] = k]
          /\ drives' = [drives EXCEPT ![k] = EmitterOf(x)]
      BY <2>1, <2>4 DEF LookUpController
    <3>2. k \in Controller /\ k # 0
      BY <1>0, <3>1 DEF Controller
    <3>3. \A y \in Ids : controller[y] # k
      BY <1>0
    <3> HIDE DEF k
    <3>4. drives'[k] = EmitterOf(x) /\ \A c \in Controller \ {k} : drives'[c] = drives[c]
      BY <1>0, <3>1, <3>2
    <3>5. controller'[x] = k /\ \A y \in Ids \ {x} : controller'[y] = controller[y]
      BY <1>0, <3>1
    <3>6. ASSUME NEW y \in Ids, controller'[y] # 0
          PROVE  EmitterOf(y)' # NoEmitter' /\ drives'[controller'[y]] = EmitterOf(y)'
      <4>0. NoEmitter' = NoEmitter /\ EmitterOf(y)' = EmitterOf(y)
        BY <2>2, SameEmitters DEF NoEmitter
      <4>1. CASE y = x
        BY <2>2, <3>4, <3>5, <4>0, <4>1
      <4>2. CASE y # x
        <5>1. controller'[y] = controller[y] /\ controller[y] \in Controller \ {k}
          BY <1>0, <3>3, <3>5, <3>6, <4>2
        <5>2. EmitterOf(y) # NoEmitter /\ drives[controller[y]] = EmitterOf(y)
          BY <2>2, <3>6, <5>1 DEF TablesAgree
        <5> QED BY <3>4, <4>0, <5>1, <5>2
      <4> QED BY <4>1, <4>2
    <3>7. \A n \in Names, i \in Ips : groupEmitter'[n][i] \in {0, device'[i]}
      BY <2>2 DEF TablesAgree
    <3> QED BY <3>6, <3>7 DEF TablesAgree
  <2> QED BY <2>3, <2>4
<1>3. ASSUME NEW u \in Users, EndPlay(u) \/ EndStop(u) PROVE TablesAgree'
  BY <1>1, <1>3 DEF EndPlay, EndStop
<1>4. ASSUME NEW u \in Users,
             \/ \E old, new \in Names, members \in SUBSET Ips : EditGroup(u, old, new, members)
             \/ \E online \in SUBSET Ips : Rediscover(u, online)
      PROVE  TablesAgree'
  BY <1>1, <1>4 DEF EditGroup, Rediscover, tables
<1>5. ASSUME NEW u \in Users, SaveGroups(u) \/ SetGroups(u) \/ Assign(u) PROVE TablesAgree'
  BY <1>1, <1>5 DEF SaveGroups, SetGroups, Assign, tables
<1>6. ASSUME NEW u \in Users, RebuildGroups(u) PROVE TablesAgree'
  <2> DEFINE old == task[u].about[1]
             new == task[u].about[2]
             members == task[u].carries[new]
             made == GroupEmitterFor(new, members, device)
  <2>1. /\ task[u].errand = "rebuild"
        /\ groupEmitter' = [[groupEmitter EXCEPT ![old] = NoEmitter] EXCEPT ![new] = made]
        /\ Drop({old, new}) /\ UNCHANGED <<device, drives, down>>
    BY <1>6 DEF RebuildGroups
  <2>2. old \in Names /\ new \in Names /\ {old, new} \in SUBSET Ids
    BY <2>1, TaskKinds DEF Edits, Ids
  <2>3. \A i \in Ips : NoEmitter[i] = 0 /\ made[i] \in {0, device[i]}
    BY DEF NoEmitter, GroupEmitterFor
  <2> HIDE DEF old, new, members, made
  <2>4. \A n \in Names : groupEmitter'[n] =
          IF n = new THEN made ELSE IF n = old THEN NoEmitter ELSE groupEmitter[n]
    BY <1>0, <2>1, <2>2
  <2>5. \A x \in Ids : controller'[x] = IF x \in {old, new} THEN 0 ELSE controller[x]
    BY <2>1, <2>2, DropEffect
  <2>6. ASSUME NEW y \in Ids, controller'[y] # 0
        PROVE  EmitterOf(y)' # NoEmitter' /\ drives'[controller'[y]] = EmitterOf(y)'
    <3>1. y \notin {old, new} /\ controller'[y] = controller[y]
      BY <2>5, <2>6
    <3>2. NoEmitter' = NoEmitter
      BY DEF NoEmitter
    <3>3. EmitterOf(y)' = EmitterOf(y)
      BY <2>1, <2>4, <3>1 DEF EmitterOf
    <3>4. EmitterOf(y) # NoEmitter /\ drives[controller[y]] = EmitterOf(y)
      BY <2>1, <2>6, <3>1 DEF TablesAgree
    <3> QED BY <2>1, <3>1, <3>2, <3>3, <3>4
  <2>7. \A n \in Names, i \in Ips : groupEmitter'[n][i] \in {0, device'[i]}
    BY <2>1, <2>3, <2>4 DEF TablesAgree
  <2> QED BY <2>6, <2>7 DEF TablesAgree
<1>7. ASSUME NEW u \in Users, LoadDevices(u) PROVE TablesAgree'
  <2> DEFINE listed == [i \in Ips |-> IF i \in task[u].about THEN probes + 1 ELSE 0]
             emitters == [n \in Names |-> GroupEmitterFor(n, groupConfig[n], listed)]
  <2>1. /\ device' = listed /\ groupEmitter' = emitters
        /\ Drop(Replaced(listed, emitters)) /\ UNCHANGED <<drives, down>>
    BY <1>7 DEF LoadDevices
  <2>2. \A n \in Names, i \in Ips : emitters[n][i] \in {0, listed[i]}
    BY DEF GroupEmitterFor
  <2>3. Replaced(listed, emitters) \in SUBSET Ids
    BY DEF Replaced, Ids
  <2> HIDE DEF listed, emitters
  <2>4. \A x \in Ids : controller'[x] = 0
    <3>1. \A x \in Ids :
            controller'[x] = IF x \in Replaced(listed, emitters) THEN 0 ELSE controller[x]
      BY <2>1, <2>3, DropEffect
    <3>2. \A x \in Ids : controller[x] # 0 => EmitterOf(x) # NoEmitter
      BY <2>1 DEF TablesAgree
    <3>3. \A x \in Ids : EmitterOf(x) # NoEmitter => x \in Replaced(listed, emitters)
      BY DEF EmitterOf, NoEmitter, Replaced, Ids
    <3> QED BY <3>1, <3>2, <3>3
  <2> QED BY <2>1, <2>2, <2>4 DEF TablesAgree
<1>8. CASE ShutdownDevices
  BY <1>8 DEF ShutdownDevices
<1>9. CASE UNCHANGED devicesVars
  BY <1>1, <1>9 DEF devicesVars, tables
<1> QED BY <1>2, <1>3, <1>4, <1>5, <1>6, <1>7, <1>8, <1>9
        DEF DevicesNext, CreateGroup, UpdateGroup, DeleteGroup

\* An engine that runs and a play() under way hold a controller of the table.
LEMMA PlayStep ==
  TaskInv /\ EnginesReachable /\ PlayInv /\ [DevicesNext]_devicesVars
    => EnginesReachable' /\ PlayInv'
<1> SUFFICES ASSUME TaskInv, EnginesReachable, PlayInv, [DevicesNext]_devicesVars
             PROVE  EnginesReachable' /\ PlayInv'
  OBVIOUS
<1>0. /\ controller \in [Ids -> Controller \union {0}] /\ playing \subseteq Controller
      /\ task \in [Users -> Jobs]
  BY DEF TaskInv, DevicesTypeOK, Jobs
\* A step after which every play() is one of before and every table the same.
<1>1. ASSUME UNCHANGED <<controller, playing, overtaken>>,
             \A v \in Users : task'[v].errand = "play" =>
                task'[v] = task[v] \/ \E x \in Ids : controller[x] = task'[v].carries
      PROVE  EnginesReachable' /\ PlayInv'
  BY <1>1 DEF EnginesReachable, PlayInv
<1>2. ASSUME NEW S \in SUBSET Ids, Drop(S),
             \A v \in Users : task'[v].errand = "play" => task'[v] = task[v]
      PROVE  EnginesReachable' /\ PlayInv'
  <2>1. /\ \A x \in Ids : controller'[x] = IF x \in S THEN 0 ELSE controller[x]
        /\ playing' \subseteq playing /\ overtaken \subseteq overtaken'
        /\ \A k \in playing' : \A x \in S : controller[x] # k
        /\ \A u \in Users, x \in S :
             task[u].errand = "play" /\ controller[x] = task[u].carries
               => task[u].carries \in overtaken'
    BY <1>2, DropEffect
  <2>2. EnginesReachable'
    <3> SUFFICES ASSUME NEW k \in playing'
                 PROVE  k \in overtaken' \/ \E x \in Ids : controller'[x] = k
      BY DEF EnginesReachable
    <3>1. k \in overtaken \/ \E x \in Ids : controller[x] = k
      BY <2>1 DEF EnginesReachable
    <3> QED BY <2>1, <3>1
  <2>3. PlayInv'
    <3> SUFFICES ASSUME NEW u \in Users, task'[u].errand = "play"
                 PROVE  task'[u].carries \in overtaken'
                        \/ \E x \in Ids : controller'[x] = task'[u].carries
      BY DEF PlayInv
    <3>1. task'[u] = task[u]
      BY <1>2
    <3>2. task[u].carries \in overtaken \/ \E x \in Ids : controller[x] = task[u].carries
      BY <3>1 DEF PlayInv
    <3> QED BY <2>1, <3>1, <3>2
  <2> QED BY <2>2, <2>3
<1>3. ASSUME NEW u \in Users, task'[u] = Idle, \A v \in Users \ {u} : task'[v] = task[v]
      PROVE  \A v \in Users : task'[v].errand = "play" => task'[v] = task[v]
  BY <1>3 DEF Idle
<1>4. ASSUME NEW u \in Users, NEW x \in Ids, BeginPlay(u, x) \/ BeginStop(u, x)
      PROVE  EnginesReachable' /\ PlayInv'
  <2>1. PICK pc \in {"play", "stop"} : LookUpController(u, pc, x)
    BY <1>4 DEF BeginPlay, BeginStop
  <2>2. UNCHANGED <<playing, overtaken>>
    BY <2>1 DEF LookUpController
  <2>3. CASE controller[x] # 0
    <3>1. BeginRequest(u, pc, x, controller[x]) /\ UNCHANGED controller
      BY <2>1, <2>3 DEF LookUpController
    <3>2. task'[u].carries = controller[x] /\ \A v \in Users \ {u} : task'[v] = task[v]
      BY <1>0, <3>1 DEF BeginRequest
    <3> QED BY <1>1, <2>2, <3>1, <3>2
  <2>4. CASE controller[x] = 0
    <3> DEFINE k == madeControllers + 1
    <3>1. controller' = [controller EXCEPT ![x] = k] /\ BeginRequest(u, pc, x, k)
      BY <2>1, <2>4 DEF LookUpController
    <3>2. task'[u].carries = k /\ \A v \in Users \ {u} : task'[v] = task[v]
      BY <1>0, <3>1 DEF BeginRequest
    <3> HIDE DEF k
    <3>3. controller'[x] = k /\ \A y \in Ids \ {x} : controller'[y] = controller[y]
      BY <1>0, <3>1
    <3>4. 0 \notin Controller /\ 0 \notin playing
      BY <1>0 DEF Controller
    <3>5. EnginesReachable'
      BY <2>2, <2>4, <3>3, <3>4 DEF EnginesReachable
    <3>6. PlayInv'
      <4> SUFFICES ASSUME NEW v \in Users, task'[v].errand = "play"
                   PROVE  task'[v].carries \in overtaken'
                          \/ \E y \in Ids : controller'[y] = task'[v].carries
        BY DEF PlayInv
      <4>1. CASE v = u
        BY <3>2, <3>3, <4>1
      <4>2. CASE v # u
        <5>1. task'[v] = task[v]
          BY <3>2, <4>2
        <5>2. task[v].carries \in overtaken \/ \E y \in Ids : controller[y] = task[v].carries
          BY <5>1 DEF PlayInv
        <5>3. task[v].carries # 0
          <6>1. task[v].carries \in 1 .. madeControllers
            BY <5>1, TaskKinds DEF Uses
          <6>2. madeControllers \in Nat
            BY DevicesAssumption DEF TaskInv, DevicesTypeOK, DevicesAssumption
          <6> QED BY <6>1, <6>2
        <5> QED BY <2>2, <2>4, <3>3, <5>1, <5>2, <5>3
      <4> QED BY <4>1, <4>2
    <3> QED BY <3>5, <3>6
  <2> QED BY <2>3, <2>4
<1>5. ASSUME NEW u \in Users, EndPlay(u) \/ EndStop(u) PROVE EnginesReachable' /\ PlayInv'
  <2>1. /\ UNCHANGED <<controller, overtaken>> /\ Ends(u)
        /\ \/ task[u].errand = "play" /\ playing' = playing \union {task[u].carries}
           \/ playing' = playing \ {task[u].carries}
    BY <1>5 DEF EndPlay, EndStop
  <2>2. \A v \in Users : task'[v].errand = "play" => task'[v] = task[v]
    BY <1>3, <2>1, EndEffect
  <2>3. PlayInv'
    BY <2>1, <2>2 DEF PlayInv
  <2>4. \A k \in playing' : k \in playing \/ (task[u].errand = "play" /\ k = task[u].carries)
    BY <2>1
  <2>5. EnginesReachable'
    BY <2>1, <2>4 DEF EnginesReachable, PlayInv
  <2> QED BY <2>3, <2>5
<1>6. ASSUME NEW u \in Users, NEW pc, NEW id, NEW with, pc # "play",
             BeginRequest(u, pc, id, with), UNCHANGED <<controller, playing, overtaken>>
      PROVE  EnginesReachable' /\ PlayInv'
  <2>1. task'[u].errand = pc /\ \A v \in Users \ {u} : task'[v] = task[v]
    BY <1>0, <1>6 DEF BeginRequest
  <2> QED BY <1>1, <1>6, <2>1
<1>7. ASSUME NEW u \in Users, SaveGroups(u) \/ SetGroups(u) \/ Assign(u)
      PROVE  EnginesReachable' /\ PlayInv'
  <2>1. PICK pc \in {"set", "rebuild", "assigned"} :
          /\ task[u].errand # "idle" /\ Proceeds(u, pc)
          /\ UNCHANGED <<controller, playing, overtaken>>
    BY <1>7 DEF SaveGroups, SetGroups, Assign, tables
  <2>2. task'[u].errand = pc /\ \A v \in Users \ {u} : task'[v] = task[v]
    BY <2>1, ProceedEffect DEF Idle
  <2> QED BY <1>1, <2>1, <2>2
<1>8. ASSUME NEW u \in Users, RebuildGroups(u) PROVE EnginesReachable' /\ PlayInv'
  <2> DEFINE S == {task[u].about[1], task[u].about[2]}
  <2>1. task[u].errand = "rebuild" /\ Ends(u) /\ Drop(S)
    BY <1>8 DEF RebuildGroups
  <2>2. S \in SUBSET Ids
    BY <2>1, TaskKinds DEF Edits, Ids
  <2>3. \A v \in Users : task'[v].errand = "play" => task'[v] = task[v]
    BY <1>3, <2>1, EndEffect
  <2> HIDE DEF S
  <2> QED BY <1>2, <2>1, <2>2, <2>3
<1>9. ASSUME NEW u \in Users, LoadDevices(u) PROVE EnginesReachable' /\ PlayInv'
  <2>1. PICK S \in SUBSET Ids : Drop(S) /\ Ends(u)
    <3> DEFINE listed == [i \in Ips |-> IF i \in task[u].about THEN probes + 1 ELSE 0]
               emitters == [n \in Names |-> GroupEmitterFor(n, groupConfig[n], listed)]
    <3>1. Drop(Replaced(listed, emitters)) /\ Ends(u)
      BY <1>9 DEF LoadDevices
    <3>2. Replaced(listed, emitters) \in SUBSET Ids
      BY DEF Replaced, Ids
    <3> HIDE DEF listed, emitters
    <3> QED BY <3>1, <3>2
  <2>2. \A v \in Users : task'[v].errand = "play" => task'[v] = task[v]
    BY <1>3, <2>1, EndEffect
  <2> QED BY <1>2, <2>1, <2>2
<1>10. CASE ShutdownDevices
  <2> DEFINE S == {i \in Ips : device[i] # 0}
  <2>1. Drop(S) /\ UNCHANGED task
    BY <1>10 DEF ShutdownDevices
  <2>2. S \in SUBSET Ids
    BY DEF Ids
  <2> HIDE DEF S
  <2> QED BY <1>2, <2>1, <2>2
<1>11. CASE UNCHANGED devicesVars
  BY <1>1, <1>11 DEF devicesVars, tables
<1>12. ASSUME NEW u \in Users, NEW old \in Names, NEW new \in Names, NEW members \in SUBSET Ips,
              EditGroup(u, old, new, members)
       PROVE  EnginesReachable' /\ PlayInv'
  <2>1. UNCHANGED <<controller, playing, overtaken>>
    BY <1>12 DEF EditGroup, tables
  <2>2. \E with : BeginRequest(u, "save", <<old, new>>, with)
    BY <1>12 DEF EditGroup
  <2> QED BY <1>6, <2>1, <2>2
<1>13. ASSUME NEW u \in Users, NEW online \in SUBSET Ips, Rediscover(u, online)
       PROVE  EnginesReachable' /\ PlayInv'
  <2>1. UNCHANGED <<controller, playing, overtaken>>
    BY <1>13 DEF Rediscover, tables
  <2>2. \E with : BeginRequest(u, "resolved", online, with)
    BY <1>13 DEF Rediscover
  <2> QED BY <1>6, <2>1, <2>2
<1> QED BY <1>4, <1>5, <1>7, <1>8, <1>9, <1>10, <1>11, <1>12, <1>13
        DEF DevicesNext, CreateGroup, UpdateGroup, DeleteGroup

\* The groups of f are among those of g, but for the names in a set.
Within(f, g, but) == \A n \in Names \ but : f[n] \subseteq g[n]

\* What an editor knows of the configuration, its file and the manager's groups
\* at each of its steps, when no other editor overlapped it.
Knows(t, conf, stored, mgr) ==
  /\ t.errand = "save" =>
       /\ conf = stored /\ Within(mgr, conf, {})
       /\ Within(conf, t.carries, {t.about[1], t.about[2]})
  /\ t.errand = "set" =>
       /\ stored = t.carries /\ Within(mgr, conf, {})
       /\ Within(conf, t.carries, {t.about[1], t.about[2]})
  /\ t.errand = "rebuild" =>
       conf = stored /\ conf = t.carries /\ Within(mgr, conf, {t.about[1], t.about[2]})
  /\ t.errand = "resolved" =>
       conf = stored /\ Within(mgr, conf, {}) /\ Within(t.carries, conf, {})
  /\ t.errand = "assigned" => conf = stored /\ Within(mgr, conf, {})
EditErrands == {"save", "set", "rebuild", "resolved", "assigned"}
EditInv ==
  ~edited => /\ \A u, v \in Users :
                  task[u].errand \in EditErrands /\ task[v].errand \in EditErrands => u = v
             /\ \A u \in Users : Knows(task[u], config, saved, groupConfig)

\* A step of the one request that edits; the others do not.
LEMMA EditStep ==
  TaskInv /\ EditInv /\ GroupsAgree /\ [DevicesNext]_devicesVars => EditInv' /\ GroupsAgree'
<1> SUFFICES ASSUME TaskInv, EditInv, GroupsAgree, [DevicesNext]_devicesVars, ~edited'
             PROVE  EditInv' /\ GroupsAgree'
  BY DEF EditInv, GroupsAgree
<1>0. config \in Groups /\ groupConfig \in Groups /\ task \in [Users -> Jobs]
  BY DEF TaskInv, DevicesTypeOK, Jobs
\* The requests that edit are as before.
<1>1. ASSUME UNCHANGED <<config, saved, groupConfig>>, ~edited,
             \A v \in Users : \/ task'[v] = task[v]
                              \/ /\ task[v].errand \notin EditErrands
                                 /\ task'[v].errand \notin EditErrands
      PROVE  EditInv' /\ GroupsAgree'
  <2>1. \A u, v \in Users :
          task'[u].errand \in EditErrands /\ task'[v].errand \in EditErrands => u = v
    BY <1>1 DEF EditInv
  <2>2. ASSUME NEW v \in Users PROVE Knows(task'[v], config', saved', groupConfig')
    <3>1. Knows(task[v], config, saved, groupConfig)
      BY <1>1 DEF EditInv
    <3>2. CASE task'[v] = task[v]
      BY <1>1, <3>1, <3>2 DEF Knows
    <3>3. CASE task'[v].errand \notin EditErrands
      BY <3>3 DEF Knows, EditErrands
    <3> QED BY <1>1, <3>2, <3>3
  <2>3. EditInv'
    BY <2>1, <2>2 DEF EditInv
  <2>4. Editing' = Editing
    BY <1>1 DEF Editing, EditErrands
  <2> QED BY <1>1, <2>3, <2>4 DEF GroupsAgree
\* An editor goes on, or ends and leaves everything in agreement.
<1>2. ASSUME NEW u \in Users, task[u].errand \in EditErrands, ~edited,
             Knows(task'[u], config', saved', groupConfig'),
             \A v \in Users \ {u} : task'[v] = task[v],
             \/ task'[u].errand \in EditErrands
             \/ config' = saved' /\ Within(groupConfig', config', {})
      PROVE  EditInv' /\ GroupsAgree'
  <2>1. \A v \in Users \ {u} : task[v].errand \notin EditErrands
    BY <1>2 DEF EditInv
  <2>2. \A v \in Users : task'[v].errand \in EditErrands => v = u
    BY <1>2, <2>1
  <2>3. \A v \in Users \ {u} : Knows(task'[v], config', saved', groupConfig')
    BY <1>2, <2>1 DEF Knows, EditErrands
  <2>4. \A v \in Users : Knows(task'[v], config', saved', groupConfig')
    BY <1>2, <2>3
  <2>5. EditInv'
    BY <2>2, <2>4 DEF EditInv
  <2>6. task'[u].errand \in EditErrands => Editing'
    BY DEF Editing, EditErrands
  <2>7. ~Editing' => config' = saved' /\ \A n \in Names : groupConfig'[n] \subseteq config'[n]
    BY <1>2, <2>6 DEF Within
  <2> QED BY <2>5, <2>7 DEF GroupsAgree
\* An editor begins: it is the only one.
<1>3. ASSUME NEW u \in Users, ~Editing, ~edited, task'[u].errand \in EditErrands,
             Knows(task'[u], config', saved', groupConfig'),
             \A v \in Users \ {u} : task'[v] = task[v]
      PROVE  EditInv' /\ GroupsAgree'
  <2>1. \A v \in Users \ {u} : task'[v].errand \notin EditErrands
    BY <1>3 DEF Editing, EditErrands
  <2>2. \A v \in Users : Knows(task'[v], config', saved', groupConfig')
    BY <1>3, <2>1 DEF Knows, EditErrands
  <2>3. EditInv'
    BY <2>1, <2>2 DEF EditInv
  <2>4. Editing'
    BY <1>3 DEF Editing, EditErrands
  <2> QED BY <2>3, <2>4 DEF GroupsAgree
<1>4. ASSUME NEW u \in Users, NEW x \in Ids, BeginPlay(u, x) \/ BeginStop(u, x)
      PROVE  EditInv' /\ GroupsAgree'
  <2>1. PICK pc \in {"play", "stop"} : LookUpController(u, pc, x)
    BY <1>4 DEF BeginPlay, BeginStop
  <2>2. PICK c : BeginRequest(u, pc, x, c)
    BY <2>1 DEF LookUpController
  <2>3. UNCHANGED <<config, saved, groupConfig>> /\ ~edited
    BY <2>1 DEF LookUpController, files
  <2>4. task[u].errand = "idle" /\ task'[u].errand = pc
        /\ \A v \in Users \ {u} : task'[v] = task[v]
    BY <1>0, <2>2 DEF BeginRequest
  <2> QED BY <1>1, <2>3, <2>4 DEF EditErrands
<1>5. ASSUME NEW u \in Users, EndPlay(u) \/ EndStop(u) PROVE EditInv' /\ GroupsAgree'
  <2>1. /\ UNCHANGED <<config, saved, groupConfig>> /\ ~edited /\ Ends(u)
        /\ task[u].errand \in {"play", "stop"}
    BY <1>5 DEF EndPlay, EndStop, files
  <2>2. /\ task[u].errand \notin EditErrands /\ task'[u].errand \notin EditErrands
        /\ \A v \in Users \ {u} : task'[v] = task[v]
    BY <2>1, EndEffect DEF EditErrands, Idle
  <2> QED BY <1>1, <2>1, <2>2
<1>6. ASSUME NEW u \in Users, NEW old \in Names, NEW new \in Names, NEW members \in SUBSET Ips,
             EditGroup(u, old, new, members)
      PROVE  EditInv' /\ GroupsAgree'
  <2> DEFINE with == [[config EXCEPT ![old] = {}] EXCEPT ![new] = members]
  <2>1. /\ BeginRequest(u, "save", <<old, new>>, with)
        /\ UNCHANGED <<config, saved, groupConfig>>
    BY <1>6 DEF EditGroup, tables, files
  <2>2. ~edited /\ ~Editing
    BY <1>6 DEF EditGroup
  <2>3. Within(config, with, {old, new})
    BY <1>0 DEF Within, Groups
  <2>4. config = saved /\ Within(groupConfig, config, {})
    BY <2>2 DEF GroupsAgree, Within
  <2> HIDE DEF with
  <2>5. task'[u] = [errand |-> "save", about |-> <<old, new>>, carries |-> with]
        /\ \A v \in Users \ {u} : task'[v] = task[v]
    BY <1>0, <2>1 DEF BeginRequest
  <2>6. /\ task'[u].errand = "save" /\ task'[u].carries = with
        /\ task'[u].about[1] = old /\ task'[u].about[2] = new
    BY <2>5
  <2>7. Knows(task'[u], config', saved', groupConfig')
    BY <2>1, <2>3, <2>4, <2>6 DEF Knows
  <2> QED BY <1>3, <2>2, <2>5, <2>6, <2>7 DEF EditErrands
<1>7. ASSUME NEW u \in Users, NEW online \in SUBSET Ips, Rediscover(u, online)
      PROVE  EditInv' /\ GroupsAgree'
  <2> DEFINE with == [n \in Names |-> config[n] \intersect online]
  <2>1. /\ BeginRequest(u, "resolved", online, with)
        /\ UNCHANGED <<config, saved, groupConfig>>
    BY <1>7 DEF Rediscover, tables, files
  <2>2. ~edited /\ ~Editing
    BY <1>7 DEF Rediscover
  <2>3. Within(with, config, {})
    BY DEF Within
  <2>4. config = saved /\ Within(groupConfig, config, {})
    BY <2>2 DEF GroupsAgree, Within
  <2> HIDE DEF with
  <2>5. task'[u].errand = "resolved" /\ task'[u].carries = with
        /\ \A v \in Users \ {u} : task'[v] = task[v]
    BY <1>0, <2>1 DEF BeginRequest
  <2>6. Knows(task'[u], config', saved', groupConfig')
    BY <2>1, <2>3, <2>4, <2>5 DEF Knows
  <2> QED BY <1>3, <2>2, <2>5, <2>6 DEF EditErrands
<1>8. ASSUME NEW u \in Users, SaveGroups(u) \/ SetGroups(u) \/ Assign(u)
      PROVE  EditInv' /\ GroupsAgree'
  <2>0. ~edited /\ Knows(task[u], config, saved, groupConfig)
    BY <1>8 DEF SaveGroups, SetGroups, Assign, EditInv
  <2>1. PICK pc \in {"set", "rebuild", "assigned"} :
          /\ task[u].errand \in EditErrands /\ Proceeds(u, pc)
          /\ SaveGroups(u) => pc = "set"
          /\ SetGroups(u) => pc = "rebuild"
          /\ Assign(u) => pc = "assigned"
    <3>1. SaveGroups(u) => task[u].errand = "save" /\ Proceeds(u, "set")
      BY DEF SaveGroups
    <3>2. SetGroups(u) => task[u].errand = "set" /\ Proceeds(u, "rebuild")
      BY DEF SetGroups
    <3>3. Assign(u) => task[u].errand = "resolved" /\ Proceeds(u, "assigned")
      BY DEF Assign
    <3> QED BY <1>8, <3>1, <3>2, <3>3 DEF EditErrands
  <2>2. /\ task'[u].errand = pc /\ task'[u].about = task[u].about
        /\ task'[u].carries = task[u].carries
        /\ \A v \in Users \ {u} : task'[v] = task[v]
    BY <2>1, ProceedEffect DEF EditErrands, Idle
  <2>3. CASE SaveGroups(u)
    <3>1. /\ task[u].errand = "save" /\ saved' = task[u].carries
          /\ UNCHANGED <<config, groupConfig>>
      BY <2>3 DEF SaveGroups, tables
    <3>2. Knows(task'[u], config', saved', groupConfig')
      BY <1>0, <2>0, <2>1, <2>2, <2>3, <3>1 DEF Knows
    <3> QED BY <1>2, <2>0, <2>1, <2>2, <2>3, <3>2 DEF EditErrands
  <2>4. CASE SetGroups(u)
    <3>1. /\ task[u].errand = "set" /\ config' = task[u].carries
          /\ UNCHANGED <<saved, groupConfig>>
      BY <2>4 DEF SetGroups, tables
    <3>2. /\ saved = task[u].carries /\ Within(groupConfig, config, {})
          /\ Within(config, task[u].carries, {task[u].about[1], task[u].about[2]})
      BY <2>0, <3>1 DEF Knows
    <3>3. Within(groupConfig, task[u].carries, {task[u].about[1], task[u].about[2]})
      BY <3>2 DEF Within
    <3>4. Knows(task'[u], config', saved', groupConfig')
      BY <2>2, <2>4, <2>1, <3>1, <3>2, <3>3 DEF Knows
    <3> QED BY <1>2, <2>0, <2>1, <2>2, <2>4, <3>4 DEF EditErrands
  <2>5. CASE Assign(u)
    <3>1. /\ task[u].errand = "resolved" /\ groupConfig' = task[u].carries
          /\ UNCHANGED <<config, saved>>
      BY <2>5 DEF Assign, files
    <3>2. Knows(task'[u], config', saved', groupConfig')
      BY <1>0, <2>0, <2>1, <2>2, <2>5, <3>1 DEF Knows
    <3> QED BY <1>2, <2>0, <2>1, <2>2, <2>5, <3>2 DEF EditErrands
  <2> QED BY <1>8, <2>3, <2>4, <2>5
<1>9. ASSUME NEW u \in Users, RebuildGroups(u) PROVE EditInv' /\ GroupsAgree'
  <2> DEFINE old == task[u].about[1]
             new == task[u].about[2]
             members == task[u].carries[new]
  <2>1. /\ task[u].errand = "rebuild" /\ Ends(u) /\ ~edited
        /\ groupConfig' = [[groupConfig EXCEPT ![old] = {}] EXCEPT ![new] = members]
        /\ UNCHANGED <<config, saved>>
    BY <1>9 DEF RebuildGroups, files
  <2>2. Knows(task[u], config, saved, groupConfig)
    BY <2>1 DEF EditInv
  <2>3. config = saved /\ config = task[u].carries /\ Within(groupConfig, config, {old, new})
    BY <2>1, <2>2 DEF Knows
  <2>4. old \in Names /\ new \in Names
    BY <2>1, TaskKinds DEF Edits
  <2>5. members = config[new]
    BY <2>3
  <2> HIDE DEF old, new, members
  <2>6. \A n \in Names : groupConfig'[n] =
          IF n = new THEN members ELSE IF n = old THEN {} ELSE groupConfig[n]
    BY <1>0, <2>1, <2>4 DEF Groups
  <2>7. Within(groupConfig', config', {})
    <3> SUFFICES ASSUME NEW n \in Names PROVE groupConfig'[n] \subseteq config[n]
      BY <2>1 DEF Within
    <3>1. CASE n \in {old, new}
      BY <2>5, <2>6, <3>1
    <3>2. CASE n \notin {old, new}
      <4>1. groupConfig[n] \subseteq config[n]
        BY <2>3, <3>2 DEF Within
      <4> QED BY <2>6, <3>2, <4>1
    <3> QED BY <3>1, <3>2
  <2>8. task'[u] = Idle /\ \A v \in Users \ {u} : task'[v] = task[v]
    BY <2>1, EndEffect
  <2>9. Knows(task'[u], config', saved', groupConfig')
    BY <2>8 DEF Knows, Idle
  <2> QED BY <1>2, <2>1, <2>3, <2>7, <2>8, <2>9 DEF EditErrands
<1>10. ASSUME NEW u \in Users, LoadDevices(u) PROVE EditInv' /\ GroupsAgree'
  <2>1. /\ task[u].errand = "assigned" /\ Ends(u) /\ ~edited
        /\ UNCHANGED <<config, saved, groupConfig>>
    BY <1>10 DEF LoadDevices, files
  <2>2. config = saved /\ Within(groupConfig, config, {})
    BY <2>1 DEF EditInv, Knows
  <2>3. task'[u] = Idle /\ \A v \in Users \ {u} : task'[v] = task[v]
    BY <2>1, EndEffect
  <2>4. Knows(task'[u], config', saved', groupConfig')
    BY <2>3 DEF Knows, Idle
  <2> QED BY <1>2, <2>1, <2>2, <2>3, <2>4 DEF EditErrands
<1>11. CASE ShutdownDevices
  <2>1. UNCHANGED <<config, saved, groupConfig, task>> /\ ~edited
    BY <1>11 DEF ShutdownDevices, files
  <2> QED BY <1>1, <2>1
<1>12. CASE UNCHANGED devicesVars
  <2>1. UNCHANGED <<config, saved, groupConfig, task>> /\ ~edited
    BY <1>12 DEF devicesVars, tables, files
  <2> QED BY <1>1, <2>1
<1> QED BY <1>4, <1>5, <1>6, <1>7, <1>8, <1>9, <1>10, <1>11, <1>12
        DEF DevicesNext, CreateGroup, UpdateGroup, DeleteGroup

LEMMA DevicesBegin ==
  DevicesInit =>
    TaskInv /\ TablesAgree /\ EnginesReachable /\ PlayInv /\ EditInv /\ GroupsAgree
<1> SUFFICES ASSUME DevicesInit
             PROVE  TaskInv /\ TablesAgree /\ EnginesReachable /\ PlayInv /\ EditInv /\ GroupsAgree
  OBVIOUS
<1>1. /\ MaxProbes \in Nat /\ MaxControllers \in Nat /\ MaxUses \in Nat
      /\ MaxProbes > 0 /\ MaxControllers > 0 /\ Ips \intersect Names = {}
  BY DevicesAssumption DEF DevicesAssumption
<1>2. /\ playing = {1} /\ madeControllers = 1 /\ saved = config /\ groupConfig = config
      /\ device = [i \in Ips |-> 1] /\ probes = 1 /\ task = [u \in Users |-> Idle] /\ uses = 0
      /\ down = FALSE /\ edited = FALSE /\ overtaken = {}
  BY DEF DevicesInit
<1>3. PICK n \in Names :
        /\ config = [m \in Names |-> IF m = n THEN Ips ELSE {}]
        /\ groupEmitter = [m \in Names |-> IF m = n THEN [i \in Ips |-> 1] ELSE NoEmitter]
        /\ controller = [x \in Ids |-> IF x = n THEN 1 ELSE 0]
        /\ drives = [k \in Controller |-> IF k = 1 THEN groupEmitter[n] ELSE NoEmitter]
  BY DEF DevicesInit
<1>4. 0 \in Probe /\ 1 \in Probe /\ 1 \in Controller /\ n \in Ids
  BY <1>1 DEF Probe, Controller, Ids
<1>5. NoEmitter \in Emitter /\ [i \in Ips |-> 1] \in Emitter /\ config \in Groups
  BY <1>3, <1>4 DEF NoEmitter, Emitter, Groups
<1>6. TaskInv
  <2>1. groupEmitter \in [Names -> Emitter] /\ device \in Emitter
    BY <1>2, <1>3, <1>5
  <2>2. drives \in [Controller -> Emitter] /\ controller \in [Ids -> Controller \union {0}]
    BY <1>3, <1>4, <1>5, <2>1
  <2>3. \A u \in Users : task[u].errand \in Pc \union {"idle"}
    BY <1>2 DEF Idle
  <2>4. task \in [Users -> {Idle} \union Uses \union Edits \union Probing]
    BY <1>2
  <2>5. \A x \in Ids : controller[x] <= madeControllers
    BY <1>2, <1>3
  <2>6. probes \in Probe /\ madeControllers \in 0 .. MaxControllers /\ uses \in 0 .. MaxUses
    BY <1>1, <1>2, <1>4
  <2> QED BY <1>2, <1>4, <1>5, <2>1, <2>2, <2>3, <2>4, <2>5, <2>6 DEF TaskInv, DevicesTypeOK
<1>7. TablesAgree
  <2>1. PICK i \in Ips : TRUE
    BY DevicesAssumption DEF DevicesAssumption
  <2>2. n \notin Ips /\ EmitterOf(n) = [j \in Ips |-> 1]
    BY <1>1, <1>3 DEF EmitterOf
  <2>3. EmitterOf(n) # NoEmitter
    BY <2>1, <2>2 DEF NoEmitter
  <2>4. drives[1] = EmitterOf(n)
    BY <1>3, <1>4, <2>2
  <2>5. \A x \in Ids : controller[x] # 0 => x = n /\ controller[x] = 1
    BY <1>3
  <2>6. \A m \in Names, j \in Ips : groupEmitter[m][j] \in {0, device[j]}
    BY <1>2, <1>3 DEF NoEmitter
  <2> QED BY <2>3, <2>4, <2>5, <2>6 DEF TablesAgree
<1>8. EnginesReachable
  BY <1>2, <1>3, <1>4 DEF EnginesReachable
<1>9. PlayInv
  BY <1>2 DEF PlayInv, Idle
<1>10. EditInv
  BY <1>2 DEF EditInv, Knows, EditErrands, Idle
<1>11. GroupsAgree
  BY <1>2 DEF GroupsAgree
<1> QED BY <1>6, <1>7, <1>8, <1>9, <1>10, <1>11

\* What the request handlers of the device API keep: the types of the tables.
THEOREM DevicesTypeCorrect == DevicesSpec => []DevicesTypeOK
<1>1. DevicesInit => TaskInv
  BY DevicesBegin
<1>2. TaskInv => DevicesTypeOK
  BY DEF TaskInv
<1> QED BY <1>1, <1>2, TaskStep, PTL DEF DevicesSpec

\* Whatever requests overlap - plays, stops, group edits, rediscoveries and the
\* shutdown - every controller of the table drives the emitter its id has,
\* every engine that runs can be stopped through the table or was overtaken by
\* a rebuild, and edits that do not overlap leave the manager, the
\* configuration and its file with the same groups.
THEOREM DevicesConsistentAlways == DevicesSpec => []DevicesConsistent
<1> DEFINE Inv == TaskInv /\ TablesAgree /\ EnginesReachable /\ PlayInv /\ EditInv /\ GroupsAgree
<1>1. DevicesInit => Inv
  BY DevicesBegin
<1>2. Inv /\ [DevicesNext]_devicesVars => Inv'
  BY TaskStep, TablesStep, PlayStep, EditStep
<1>3. Inv => DevicesConsistent
  BY DEF DevicesConsistent
<1> HIDE DEF Inv
<1> QED BY <1>1, <1>2, <1>3, PTL DEF DevicesSpec

-----------------------------------------------------------------------------
(* The map of bulbs and its timers.                                        *)

\* What the adapter publishes: its map, or one new bulb.
MapMessage ==
  [kind : {"map"}, table : Table] \union [kind : {"new"}, at : Addresses, bulb : Bulbs]

TablesInv ==
  /\ arp \in Table /\ known \in Table /\ reading \in Table /\ proxyKnown \in Table
  /\ mapMail \in Seq(MapMessage) /\ Len(mapMail) <= MaxMapMail

ScanInv ==
  /\ misses \in [Addresses -> 0..ExpiryMisses - 1]
  /\ bulbAt \in {"idle", "scan", "found", "query"}
  /\ absent \subseteq Addresses /\ found \in Addresses /\ cycle \in 0..PowerQueryEvery - 1
  /\ moves \in 0..MaxMoves
  /\ bulbAt = "found" => known[found] # NoBulb

\* A scan has room for a timer for each entry it has yet to go through.
TimersInv ==
  /\ timers \subseteq Timer /\ IsFiniteSet(timers) /\ Cardinality(timers) <= MaxTimers
  /\ bulbAt = "scan" => Cardinality(timers) + Cardinality(Held(reading)) <= MaxTimers
  /\ bulbAt = "found" => Cardinality(timers) + Cardinality(Held(reading)) + 1 <= MaxTimers

KeepaliveInv == greeted \in BOOLEAN /\ TablesInv /\ ScanInv /\ TimersInv

LEMMA KeepaliveBounds ==
  /\ ExpiryMisses \in Nat \ {0} /\ PowerQueryEvery \in Nat \ {0} /\ MaxMoves \in Nat
  /\ MaxTimers \in Nat /\ MaxMapMail \in Nat \ {0} /\ NoBulb \notin Bulbs /\ Addresses # {}
  /\ IsFiniteSet(Addresses) /\ Cardinality(Addresses) <= MaxTimers
  /\ Cardinality(Addresses) \in Nat /\ NoBulbs \in Table
<1>1. IsFiniteSet(Addresses)
  BY KeepaliveAssumption DEF KeepaliveAssumption
<1>2. Cardinality(Addresses) \in Nat
  BY <1>1, FS_CardinalityType
<1>3. MaxTimers \in Nat
  BY KeepaliveAssumption DEF KeepaliveAssumption
<1> QED BY <1>1, <1>2, <1>3, KeepaliveAssumption DEF KeepaliveAssumption, NoBulbs, Table

LEMMA HeldFinite ==
  ASSUME NEW table PROVE /\ IsFiniteSet(Held(table))
                         /\ Cardinality(Held(table)) \in Nat
                         /\ Cardinality(Held(table)) <= Cardinality(Addresses)
<1>1. Held(table) \subseteq Addresses /\ IsFiniteSet(Addresses)
  BY KeepaliveBounds DEF Held
<1> QED BY <1>1, FS_Subset, FS_CardinalityType

LEMMA KeepaliveBegin == KeepaliveInit => KeepaliveInv
<1> SUFFICES ASSUME KeepaliveInit PROVE KeepaliveInv
  OBVIOUS
<1>1. found \in Addresses
  BY KeepaliveBounds DEF KeepaliveInit
<1>2. TablesInv
  BY KeepaliveBounds DEF KeepaliveInit, TablesInv
<1>3. ScanInv
  BY <1>1, KeepaliveBounds DEF KeepaliveInit, ScanInv
<1>4. TimersInv
  BY KeepaliveBounds, FS_EmptySet DEF KeepaliveInit, TimersInv
<1> QED BY <1>2, <1>3, <1>4 DEF KeepaliveInit, KeepaliveInv

LEMMA ArpStep ==
  ASSUME KeepaliveInv, NEW i \in Addresses, NEW b \in Bulbs \union {NoBulb}, ChangeArp(i, b)
  PROVE  KeepaliveInv'
<1>1. arp' \in Table
  BY DEF ChangeArp, KeepaliveInv, TablesInv, Table
<1>2. TablesInv'
  BY <1>1 DEF ChangeArp, KeepaliveInv, TablesInv, scanVars, publishVars
<1>3. ScanInv'
  BY KeepaliveBounds DEF ChangeArp, KeepaliveInv, ScanInv, scanVars
<1>4. TimersInv' /\ greeted' = greeted
  BY DEF ChangeArp, KeepaliveInv, TimersInv, Held, scanVars, publishVars
<1> QED BY <1>2, <1>3, <1>4 DEF KeepaliveInv

LEMMA BeginScanStep == ASSUME KeepaliveInv, BeginScan PROVE KeepaliveInv'
<1> USE DEF BeginScan, publishVars, KeepaliveInv
<1>1. TablesInv'
  BY DEF TablesInv
<1>2. ScanInv'
  BY KeepaliveBounds DEF ScanInv, Held
<1>3. TimersInv'
  <2>1. Cardinality(Held(arp)) \in Nat /\ Cardinality(Held(arp)) <= Cardinality(Addresses)
    BY HeldFinite
  <2>2. Cardinality(timers) \in Nat /\ MaxTimers \in Nat /\ Cardinality(Addresses) \in Nat
    BY FS_CardinalityType, KeepaliveBounds DEF TimersInv
  <2>3. Held(reading)' = Held(arp) /\ bulbAt' = "scan" /\ timers' = timers
    BY DEF Held
  <2>4. Cardinality(timers) + Cardinality(Held(arp)) <= MaxTimers
    BY <2>1, <2>2
  <2> QED BY <2>3, <2>4 DEF TimersInv
<1> QED BY <1>1, <1>2, <1>3

\* An entry gone through leaves one timer less to make room for.
LEMMA EntryRead ==
  ASSUME NEW i \in Addresses, NEW table \in Table, table[i] # NoBulb
  PROVE  /\ [table EXCEPT ![i] = NoBulb] \in Table
         /\ Cardinality(Held(table)) = Cardinality(Held([table EXCEPT ![i] = NoBulb])) + 1
<1>1. Held([table EXCEPT ![i] = NoBulb]) = Held(table) \ {i} /\ i \in Held(table)
  BY DEF Held, Table
<1>2. Cardinality(Held(table) \ {i}) = Cardinality(Held(table)) - 1
  <2>1. IsFiniteSet(Held(table)) /\ i \in Held(table)
    BY <1>1, HeldFinite
  <2> QED BY <2>1, FS_RemoveElement
<1>3. [table EXCEPT ![i] = NoBulb] \in Table
  BY DEF Table
<1>4. Cardinality(Held(table)) \in Nat
  BY HeldFinite
<1>5. Cardinality(Held([table EXCEPT ![i] = NoBulb])) = Cardinality(Held(table)) - 1
  BY <1>1, <1>2
<1> QED BY <1>3, <1>4, <1>5

LEMMA ScanEntryStep == ASSUME KeepaliveInv, NEW i \in Addresses, ScanEntry(i) PROVE KeepaliveInv'
<1>0. /\ bulbAt = "scan" /\ reading[i] # NoBulb /\ reading \in Table /\ known \in Table
      /\ reading' = [reading EXCEPT ![i] = NoBulb] /\ misses' = [misses EXCEPT ![i] = 0]
      /\ UNCHANGED <<arp, cycle, greeted, timers, mapMail, proxyKnown, moves>>
  BY DEF ScanEntry, KeepaliveInv, TablesInv, publishVars
<1>1. \A kept \in Evictions(i, reading[i]) : kept \in Table
  BY <1>0 DEF Evictions, OldPlaces, Held, Table
<1>2. \/ UNCHANGED <<known, bulbAt, absent, found>>
      \/ /\ known' \in Table /\ known'[i] = reading[i] /\ absent' \subseteq absent /\ found' = i
         /\ bulbAt' = "found"
  <2>1. CASE known[i] # NoBulb
    BY <2>1 DEF ScanEntry
  <2>2. CASE known[i] = NoBulb
    <3>1. PICK kept \in Evictions(i, reading[i]) :
            /\ known' = [kept EXCEPT ![i] = reading[i]]
            /\ absent' = absent \intersect Held(kept)
            /\ found' = i /\ bulbAt' = "found"
      BY <2>2 DEF ScanEntry
    <3>2. known' \in Table /\ known'[i] = reading[i]
      BY <1>0, <1>1, <3>1 DEF Table
    <3> QED BY <3>1, <3>2
  <2> QED BY <2>1, <2>2
<1>3. TablesInv'
  BY <1>0, <1>2, EntryRead DEF KeepaliveInv, TablesInv
<1>4. ScanInv'
  <2>1. misses' \in [Addresses -> 0..ExpiryMisses - 1]
    BY <1>0, KeepaliveBounds DEF KeepaliveInv, ScanInv
  <2> QED BY <1>0, <1>2, <2>1 DEF KeepaliveInv, ScanInv
<1>5. TimersInv'
  <2>1. /\ Cardinality(Held(reading)) = Cardinality(Held(reading')) + 1
        /\ Cardinality(Held(reading')) \in Nat
    BY <1>0, EntryRead, HeldFinite
  <2>2. Cardinality(timers) \in Nat /\ MaxTimers \in Nat
    BY FS_CardinalityType, KeepaliveBounds DEF KeepaliveInv, TimersInv
  <2>3. Held(reading)' = Held(reading')
    BY DEF Held
  <2>4. Cardinality(timers) + Cardinality(Held(reading)) <= MaxTimers
    BY <1>0 DEF KeepaliveInv, TimersInv
  <2>5. /\ Cardinality(timers) + Cardinality(Held(reading')) <= MaxTimers
        /\ Cardinality(timers) + Cardinality(Held(reading')) + 1 <= MaxTimers
    BY <2>1, <2>2, <2>4
  <2> QED BY <1>0, <2>3, <2>5 DEF KeepaliveInv, TimersInv
<1> QED BY <1>0, <1>3, <1>4, <1>5 DEF KeepaliveInv

LEMMA EndScanStep == ASSUME KeepaliveInv, EndScan PROVE KeepaliveInv'
<1> DEFINE expired == {i \in absent : misses[i] + 1 = ExpiryMisses}
<1>0. /\ known' = [i \in Addresses |-> IF i \in expired THEN NoBulb ELSE known[i]]
      /\ misses' = [i \in Addresses |->
                     IF i \in expired \/ known[i] = NoBulb THEN 0
                     ELSE IF i \in absent THEN misses[i] + 1 ELSE misses[i]]
      /\ absent' = {} /\ cycle' = (cycle + 1) % PowerQueryEvery
      /\ bulbAt' \in {"idle", "query"}
      /\ UNCHANGED <<arp, reading, found, greeted, timers, mapMail, proxyKnown, moves>>
  BY DEF EndScan, publishVars
<1>1. known' \in Table
  BY <1>0 DEF KeepaliveInv, TablesInv, Table
<1>2. misses' \in [Addresses -> 0..ExpiryMisses - 1]
  <2>1. \A i \in Addresses : misses[i] \in 0..ExpiryMisses - 1
    BY DEF KeepaliveInv, ScanInv
  <2>2. \A i \in Addresses : i \in absent /\ i \notin expired => misses[i] + 1 \in 0..ExpiryMisses - 1
    BY <2>1, KeepaliveBounds
  <2>3. 0 \in 0..ExpiryMisses - 1
    BY KeepaliveBounds
  <2> HIDE DEF expired
  <2> QED BY <1>0, <2>1, <2>2, <2>3
<1>3. cycle' \in 0..PowerQueryEvery - 1
  <2>1. cycle + 1 \in Nat /\ PowerQueryEvery \in Nat \ {0}
    BY KeepaliveBounds DEF KeepaliveInv, ScanInv
  <2>2. (cycle + 1) % PowerQueryEvery \in 0..PowerQueryEvery - 1
    BY <2>1
  <2> QED BY <1>0, <2>2
<1> HIDE DEF expired
<1>4. TablesInv'
  BY <1>0, <1>1 DEF KeepaliveInv, TablesInv
<1>5. ScanInv'
  BY <1>0, <1>2, <1>3 DEF KeepaliveInv, ScanInv
<1>6. TimersInv'
  BY <1>0 DEF KeepaliveInv, TimersInv
<1> QED BY <1>0, <1>4, <1>5, <1>6 DEF KeepaliveInv

\* What is published is a map or a new bulb.
LEMMA Published ==
  ASSUME TablesInv, NEW messages \in Seq(MapMessage), Publish(messages)
  PROVE  mapMail' \in Seq(MapMessage) /\ Len(mapMail') <= MaxMapMail
<1>1. mapMail \in Seq(MapMessage) /\ mapMail' = mapMail \o messages
  BY DEF TablesInv, Publish
<1>2. Len(mapMail \o messages) = Len(mapMail) + Len(messages) /\ mapMail \o messages \in Seq(MapMessage)
  BY <1>1, ConcatProperties
<1> QED BY <1>1, <1>2 DEF Publish

LEMMA Messages ==
  /\ \A table \in Table : <<Map(table)>> \in Seq(MapMessage)
  /\ \A i \in Addresses, b \in Bulbs : <<NewBulb(i, b)>> \in Seq(MapMessage)
<1>1. \A table \in Table : Map(table) \in MapMessage
  BY DEF Map, MapMessage
<1>2. \A i \in Addresses, b \in Bulbs : NewBulb(i, b) \in MapMessage
  BY DEF NewBulb, MapMessage
<1> QED BY <1>1, <1>2

LEMMA DeferStep == ASSUME KeepaliveInv, DeferPublish PROVE KeepaliveInv'
<1> DEFINE new == [at |-> found, bulb |-> known[found], next |-> "event", table |-> NoBulbs]
<1>0. /\ bulbAt = "found" /\ bulbAt' = "scan" /\ timers' = timers \union {new}
      /\ UNCHANGED <<arp, known, misses, reading, absent, found, cycle, greeted, mapMail,
                     proxyKnown, moves>>
  BY DEF DeferPublish
<1>1. new \in Timer
  <2>1. found \in Addresses /\ known[found] \in Bulbs
    BY <1>0 DEF KeepaliveInv, TablesInv, ScanInv, Table
  <2> QED BY <2>1 DEF Timer
<1> HIDE DEF new
<1>2. IsFiniteSet(timers') /\ Cardinality(timers') \in Nat /\ Cardinality(timers) \in Nat
      /\ Cardinality(timers') <= Cardinality(timers) + 1
  <2>1. IsFiniteSet(timers)
    BY DEF KeepaliveInv, TimersInv
  <2> QED BY <1>0, <2>1, FS_AddElement, FS_CardinalityType
<1>3. Cardinality(Held(reading)) \in Nat /\ MaxTimers \in Nat
  BY HeldFinite, KeepaliveBounds
<1>4. Cardinality(timers) + Cardinality(Held(reading)) + 1 <= MaxTimers
  BY <1>0 DEF KeepaliveInv, TimersInv
<1>5. Cardinality(timers') + Cardinality(Held(reading)) <= MaxTimers /\ Cardinality(timers') <= MaxTimers
  BY <1>2, <1>3, <1>4
<1>6. Held(reading)' = Held(reading)
  BY <1>0 DEF Held
<1>7. TimersInv'
  BY <1>0, <1>1, <1>2, <1>5, <1>6 DEF KeepaliveInv, TimersInv
<1>8. TablesInv' /\ ScanInv'
  BY <1>0 DEF KeepaliveInv, TablesInv, ScanInv
<1> QED BY <1>0, <1>7, <1>8 DEF KeepaliveInv

\* A timer's next step takes its place.
LEMMA FewerTimers ==
  ASSUME KeepaliveInv, UNCHANGED <<bulbAt, reading>>, NEW t \in timers,
         \/ timers' = timers \ {t}
         \/ \E next \in {"event", "read"} : Advance(t, next, NoBulbs)
         \/ \E table \in Table : Advance(t, "publish", table)
  PROVE  TimersInv'
<1>1. t \in Timer /\ t.at \in Addresses /\ t.bulb \in Bulbs
  BY DEF KeepaliveInv, TimersInv, Timer
<1>2. /\ \A next \in {"event", "read"} : [t EXCEPT !.next = next, !.table = NoBulbs] \in Timer
      /\ \A table \in Table : [t EXCEPT !.next = "publish", !.table = table] \in Timer
  BY <1>1 DEF Timer
<1>3. timers' = timers \ {t} \/ \E u \in Timer : timers' = (timers \ {t}) \union {u}
  BY <1>2 DEF Advance
<1>4. /\ IsFiniteSet(timers \ {t}) /\ Cardinality(timers \ {t}) = Cardinality(timers) - 1
      /\ Cardinality(timers) \in Nat /\ IsFiniteSet(timers)
  BY FS_RemoveElement, FS_CardinalityType DEF KeepaliveInv, TimersInv
<1>5. /\ IsFiniteSet(timers') /\ Cardinality(timers') \in Nat
      /\ Cardinality(timers') <= Cardinality(timers)
  <2>1. CASE timers' = timers \ {t}
    BY <1>4, <2>1, FS_CardinalityType
  <2>2. ASSUME NEW u \in Timer, timers' = (timers \ {t}) \union {u}
        PROVE  /\ IsFiniteSet(timers') /\ Cardinality(timers') \in Nat
               /\ Cardinality(timers') <= Cardinality(timers)
    <3> DEFINE rest == timers \ {t}
    <3>1. /\ IsFiniteSet(rest) /\ Cardinality(rest) = Cardinality(timers) - 1
          /\ Cardinality(rest) \in Nat
      BY <1>4, FS_CardinalityType
    <3> HIDE DEF rest
    <3>2. /\ IsFiniteSet(rest \union {u})
          /\ Cardinality(rest \union {u}) \in {Cardinality(rest), Cardinality(rest) + 1}
      BY <3>1, FS_AddElement
    <3>3. timers' = rest \union {u}
      BY <2>2 DEF rest
    <3> QED BY <1>4, <3>1, <3>2, <3>3
  <2> QED BY <1>3, <2>1, <2>2
<1>6. timers' \subseteq Timer
  BY <1>3 DEF KeepaliveInv, TimersInv
<1>7. Cardinality(Held(reading)) \in Nat /\ MaxTimers \in Nat
  BY HeldFinite, KeepaliveBounds
<1>8. Held(reading)' = Held(reading)
  BY DEF Held
<1>9. Cardinality(timers') <= MaxTimers
  BY <1>4, <1>5, <1>7 DEF KeepaliveInv, TimersInv
<1>10. CASE bulbAt = "scan"
  <2>1. Cardinality(timers) + Cardinality(Held(reading)) <= MaxTimers
    BY <1>10 DEF KeepaliveInv, TimersInv
  <2>2. Cardinality(timers') + Cardinality(Held(reading)) <= MaxTimers
    BY <1>4, <1>5, <1>7, <2>1
  <2> QED BY <1>5, <1>6, <1>8, <1>9, <1>10, <2>2 DEF TimersInv
<1>11. CASE bulbAt = "found"
  <2>1. Cardinality(timers) + Cardinality(Held(reading)) + 1 <= MaxTimers
    BY <1>11 DEF KeepaliveInv, TimersInv
  <2>2. Cardinality(timers') + Cardinality(Held(reading)) + 1 <= MaxTimers
    BY <1>4, <1>5, <1>7, <2>1
  <2> QED BY <1>5, <1>6, <1>8, <1>9, <1>11, <2>2 DEF TimersInv
<1>12. CASE bulbAt \notin {"scan", "found"}
  BY <1>5, <1>6, <1>9, <1>12 DEF TimersInv
<1> QED BY <1>10, <1>11, <1>12

LEMMA TimersStep ==
  ASSUME KeepaliveInv, NEW t \in timers, TimerEvent(t) \/ TimerRead(t) \/ TimerPublish(t)
  PROVE  KeepaliveInv'
<1>0. /\ UNCHANGED <<arp, known, misses, bulbAt, reading, absent, found, cycle, greeted,
                     proxyKnown, moves>>
      /\ t \in Timer /\ TablesInv /\ known \in Table
  BY DEF TimerEvent, TimerRead, TimerPublish, scanVars, KeepaliveInv, TimersInv, TablesInv
<1>1. TimersInv'
  BY <1>0, FewerTimers DEF TimerEvent, TimerRead, TimerPublish
<1>2. mapMail' \in Seq(MapMessage) /\ Len(mapMail') <= MaxMapMail
  <2>1. CASE TimerEvent(t)
    <3>1. <<NewBulb(t.at, t.bulb)>> \in Seq(MapMessage)
      BY <1>0, Messages DEF Timer
    <3> QED BY <1>0, <2>1, <3>1, Published DEF TimerEvent
  <2>2. CASE TimerRead(t)
    BY <1>0, <2>2 DEF TimerRead, TablesInv
  <2>3. CASE TimerPublish(t)
    <3>1. t.table \in Table
      BY <1>0, <2>3 DEF Timer, TimerPublish
    <3>2. <<Map(t.table)>> \in Seq(MapMessage)
      BY <3>1, Messages
    <3> QED BY <1>0, <2>3, <3>2, Published DEF TimerPublish
  <2> QED BY <2>1, <2>2, <2>3
<1>3. TablesInv' /\ ScanInv'
  BY <1>0, <1>2 DEF KeepaliveInv, TablesInv, ScanInv
<1> QED BY <1>0, <1>1, <1>3 DEF KeepaliveInv

LEMMA PublishStep ==
  ASSUME KeepaliveInv, PowerQuery \/ PublishFirstMap PROVE KeepaliveInv'
<1>0. /\ UNCHANGED <<arp, known, misses, reading, absent, found, cycle, timers, proxyKnown, moves>>
      /\ bulbAt' = bulbAt \/ bulbAt' = "idle"
      /\ greeted' = greeted \/ greeted' = TRUE
      /\ TablesInv /\ known \in Table
  BY DEF PowerQuery, PublishFirstMap, scanVars, KeepaliveInv, TablesInv
<1>1. mapMail' \in Seq(MapMessage) /\ Len(mapMail') <= MaxMapMail
  <2>1. <<Map(known)>> \in Seq(MapMessage) /\ <<>> \in Seq(MapMessage)
    BY <1>0, Messages
  <2>2. QueriedMap \in Seq(MapMessage)
    BY <2>1 DEF QueriedMap
  <2> QED BY <1>0, <2>1, <2>2, Published DEF PowerQuery, PublishFirstMap
<1>2. Held(reading)' = Held(reading)
  BY <1>0 DEF Held
<1>3. TablesInv' /\ ScanInv'
  BY <1>0, <1>1 DEF KeepaliveInv, TablesInv, ScanInv
<1>4. TimersInv'
  BY <1>0, <1>2 DEF KeepaliveInv, TimersInv
<1> QED BY <1>0, <1>3, <1>4, Zenon DEF KeepaliveInv

LEMMA RestartStep == ASSUME KeepaliveInv, RestartProcess PROVE KeepaliveInv'
<1>1. TablesInv'
  BY KeepaliveBounds DEF RestartProcess, KeepaliveInv, TablesInv
<1>2. ScanInv'
  BY KeepaliveBounds DEF RestartProcess, KeepaliveInv, ScanInv
<1>3. TimersInv'
  BY KeepaliveBounds, FS_EmptySet DEF RestartProcess, TimersInv
<1> QED BY <1>1, <1>2, <1>3 DEF RestartProcess, KeepaliveInv

LEMMA HearMapStep == ASSUME KeepaliveInv, HearMap PROVE KeepaliveInv'
<1>0. /\ mapMail # <<>> /\ mapMail' = Tail(mapMail) /\ mapMail \in Seq(MapMessage)
      /\ UNCHANGED <<arp, known, misses, bulbAt, reading, absent, found, cycle, greeted,
                     timers, moves>>
  BY DEF HearMap, KeepaliveInv, TablesInv, scanVars
<1>1. /\ Head(mapMail) \in MapMessage /\ Tail(mapMail) \in Seq(MapMessage)
      /\ Len(Tail(mapMail)) <= Len(mapMail)
  BY <1>0
<1>2. proxyKnown' \in Table
  <2>1. CASE Head(mapMail).kind = "map"
    BY <1>1, <2>1 DEF HearMap, MapMessage
  <2>2. CASE Head(mapMail).kind # "map"
    <3>1. Head(mapMail).at \in Addresses /\ Head(mapMail).bulb \in Bulbs
      BY <1>1, <2>2 DEF MapMessage
    <3> QED BY <2>2, <3>1 DEF HearMap, KeepaliveInv, TablesInv, Table
  <2> QED BY <2>1, <2>2
<1>3. Len(mapMail') <= MaxMapMail
  BY <1>0, <1>1, KeepaliveBounds DEF KeepaliveInv, TablesInv
<1>4. TablesInv'
  BY <1>0, <1>1, <1>2, <1>3 DEF KeepaliveInv, TablesInv
<1>5. ScanInv' /\ TimersInv'
  BY <1>0 DEF KeepaliveInv, ScanInv, TimersInv, Held
<1> QED BY <1>0, <1>4, <1>5 DEF KeepaliveInv

LEMMA KeepaliveStep == KeepaliveInv /\ [KeepaliveNext]_keepaliveVars => KeepaliveInv'
<1>1. KeepaliveInv /\ UNCHANGED keepaliveVars => KeepaliveInv'
  BY Zenon DEF keepaliveVars, scanVars, publishVars, KeepaliveInv, TablesInv, ScanInv, TimersInv, Held
<1> QED BY <1>1, ArpStep, BeginScanStep, ScanEntryStep, EndScanStep, DeferStep, TimersStep,
           PublishStep, RestartStep, HearMapStep DEF KeepaliveNext, KeepaliveThread, TimerThreads

LEMMA KeepaliveTypes == KeepaliveInv => KeepaliveTypeOK
<1> SUFFICES ASSUME KeepaliveInv PROVE KeepaliveTypeOK
  OBVIOUS
<1>1. misses \in [Addresses -> 0..ExpiryMisses]
  BY KeepaliveBounds DEF KeepaliveInv, ScanInv
<1>2. \A k \in DOMAIN mapMail :
       \/ mapMail[k].kind = "map" /\ mapMail[k].table \in Table
       \/ mapMail[k].kind = "new" /\ mapMail[k].at \in Addresses /\ mapMail[k].bulb \in Bulbs
  <2>1. \A k \in DOMAIN mapMail : mapMail[k] \in MapMessage
    BY DEF KeepaliveInv, TablesInv
  <2> QED BY <2>1 DEF MapMessage
<1> QED BY <1>1, <1>2 DEF KeepaliveInv, TablesInv, ScanInv, TimersInv, KeepaliveTypeOK

\* A table with no bulb at two addresses.
Once(table) == \A i, j \in Addresses : table[i] = table[j] /\ table[i] # NoBulb => i = j

\* No bulb is known, or about to be published, at two addresses.
BulbsOnce ==
  /\ Once(known)
  /\ \A t \in timers : Once(t.table)
  /\ \A k \in DOMAIN mapMail : mapMail[k].kind = "map" => Once(mapMail[k].table)

\* Evicting one stale address is enough, because there was at most one.
LEMMA EvictedOnce ==
  ASSUME KeepaliveInv, Once(known), NEW i \in Addresses, NEW b, known[i] = NoBulb,
         NEW kept \in Evictions(i, b)
  PROVE  Once([kept EXCEPT ![i] = b])
<1>1. known \in Table
  BY DEF KeepaliveInv, TablesInv
<1>2. CASE OldPlaces(i, b) = {}
  <2>1. kept = known /\ \A j \in Addresses \ {i} : known[j] # b \/ known[j] = NoBulb
    BY <1>2 DEF Evictions, OldPlaces, Held
  <2> QED BY <1>1, <2>1 DEF Once, Table
<1>3. CASE OldPlaces(i, b) # {}
  <2>1. PICK j \in OldPlaces(i, b) : kept = [known EXCEPT ![j] = NoBulb]
    BY <1>3 DEF Evictions
  <2>2. j \in Addresses \ {i} /\ known[j] = b /\ known[j] # NoBulb
    BY <2>1 DEF OldPlaces, Held
  <2>3. \A k \in Addresses \ {j} : known[k] # b
    BY <2>2 DEF Once
  <2> QED BY <1>1, <2>1, <2>2, <2>3 DEF Once, Table
<1> QED BY <1>2, <1>3

LEMMA MailOnce ==
  ASSUME TablesInv, BulbsOnce, NEW messages \in Seq(MapMessage), Len(messages) <= 1,
         \A k \in DOMAIN messages : messages[k].kind = "map" => Once(messages[k].table),
         Publish(messages)
  PROVE  \A k \in DOMAIN mapMail' : mapMail'[k].kind = "map" => Once(mapMail'[k].table)
<1>1. mapMail \in Seq(MapMessage) /\ mapMail' = mapMail \o messages
  BY DEF TablesInv, Publish
<1>2. /\ DOMAIN mapMail' = 1 .. Len(mapMail) + Len(messages)
      /\ Len(mapMail) \in Nat /\ Len(messages) \in Nat
      /\ DOMAIN mapMail = 1 .. Len(mapMail) /\ DOMAIN messages = 1 .. Len(messages)
  BY <1>1, ConcatProperties, LenProperties
<1>3. ASSUME NEW k \in DOMAIN mapMail'
      PROVE  \/ k \in DOMAIN mapMail /\ mapMail'[k] = mapMail[k]
             \/ \E j \in DOMAIN messages : mapMail'[k] = messages[j]
  <2>1. CASE k <= Len(mapMail)
    BY <1>1, <1>2, <1>3, <2>1, ConcatProperties
  <2>2. CASE k > Len(mapMail)
    <3>1. k - Len(mapMail) \in DOMAIN messages
      BY <1>2, <1>3, <2>2
    <3> QED BY <1>1, <1>2, <1>3, <2>2, <3>1, ConcatProperties
  <2> QED BY <1>2, <1>3, <2>1, <2>2
<1> HIDE DEF Once
<1> QED BY <1>3 DEF BulbsOnce

LEMMA OnceStep == KeepaliveInv /\ BulbsOnce /\ [KeepaliveNext]_keepaliveVars => BulbsOnce'
<1> SUFFICES ASSUME KeepaliveInv, BulbsOnce, [KeepaliveNext]_keepaliveVars PROVE BulbsOnce'
  OBVIOUS
<1>1. TablesInv /\ known \in Table /\ \A table \in Table : <<Map(table)>> \in Seq(MapMessage)
  BY Messages DEF KeepaliveInv, TablesInv
<1>2. ASSUME NEW table \in Table, Once(table), Publish(<<Map(table)>>)
      PROVE  \A k \in DOMAIN mapMail' : mapMail'[k].kind = "map" => Once(mapMail'[k].table)
  <2> DEFINE messages == <<Map(table)>>
  <2>1. messages \in Seq(MapMessage) /\ Len(messages) <= 1 /\ Publish(messages)
    BY <1>1, <1>2
  <2>2. \A k \in DOMAIN messages : Once(messages[k].table)
    <3>1. \A k \in DOMAIN messages : messages[k].table = table
      BY DEF Map
    <3> HIDE DEF messages
    <3> QED BY <1>2, <3>1
  <2> HIDE DEF messages
  <2> QED BY <1>1, <2>1, <2>2, MailOnce
<1>3. ASSUME UNCHANGED <<known, timers>>,
             \A k \in DOMAIN mapMail' : mapMail'[k].kind = "map" => Once(mapMail'[k].table)
      PROVE  BulbsOnce'
  BY <1>3 DEF BulbsOnce, Once
<1>4. ASSUME NEW i \in Addresses, ScanEntry(i) PROVE BulbsOnce'
  <2>1. UNCHANGED <<timers, mapMail>>
    BY <1>4 DEF ScanEntry, publishVars
  <2>2. PICK table : known' = table /\ Once(table)
    <3>1. CASE known[i] # NoBulb
      BY <1>4, <3>1 DEF ScanEntry, BulbsOnce
    <3>2. CASE known[i] = NoBulb
      <4>1. PICK kept \in Evictions(i, reading[i]) : known' = [kept EXCEPT ![i] = reading[i]]
        BY <1>4, <3>2 DEF ScanEntry
      <4> QED BY <3>2, <4>1, EvictedOnce DEF BulbsOnce
    <3> QED BY <3>1, <3>2
  <2> QED BY <2>1, <2>2 DEF BulbsOnce, Once
<1>5. CASE EndScan
  <2>1. UNCHANGED <<timers, mapMail>> /\ \A i \in Addresses : known'[i] \in {known[i], NoBulb}
    BY <1>5 DEF EndScan, publishVars
  <2> QED BY <2>1 DEF BulbsOnce, Once
<1>6. CASE DeferPublish
  <2>1. /\ UNCHANGED <<known, mapMail>> /\ \A t \in timers' : t \in timers \/ t.table = NoBulbs
    BY <1>6 DEF DeferPublish
  <2>2. Once(NoBulbs)
    BY DEF Once, NoBulbs
  <2> QED BY <2>1, <2>2 DEF BulbsOnce, Once
<1>7. ASSUME NEW t \in timers, TimerEvent(t) \/ TimerRead(t) \/ TimerPublish(t) PROVE BulbsOnce'
  <2>0. t \in Timer /\ UNCHANGED known
    BY <1>7 DEF TimerEvent, TimerRead, TimerPublish, scanVars, KeepaliveInv, TimersInv
  <2>1. PICK table : /\ \A u \in timers' : u \in timers \/ u.table = table
                     /\ Once(table)
    <3>1. CASE TimerEvent(t)
      <4>1. \A u \in timers' : u \in timers \/ u.table = NoBulbs
        BY <2>0, <3>1 DEF TimerEvent, Advance, Timer
      <4> QED BY <4>1 DEF Once, NoBulbs
    <3>2. CASE TimerRead(t)
      <4>1. \A u \in timers' : u \in timers \/ u.table = known
        BY <2>0, <3>2 DEF TimerRead, Advance, Timer
      <4> QED BY <4>1 DEF BulbsOnce
    <3>3. CASE TimerPublish(t)
      BY <3>3 DEF TimerPublish, BulbsOnce
    <3> QED BY <1>7, <3>1, <3>2, <3>3
  <2>2. \A k \in DOMAIN mapMail' : mapMail'[k].kind = "map" => Once(mapMail'[k].table)
    <3>1. CASE TimerEvent(t)
      <4> DEFINE messages == <<NewBulb(t.at, t.bulb)>>
      <4>1. messages \in Seq(MapMessage) /\ Len(messages) <= 1 /\ Publish(messages)
        BY <2>0, <3>1, Messages DEF Timer, TimerEvent
      <4>2. \A k \in DOMAIN messages : messages[k].kind # "map"
        BY DEF NewBulb
      <4> HIDE DEF messages
      <4> QED BY <1>1, <4>1, <4>2, MailOnce
    <3>2. CASE TimerRead(t)
      BY <3>2 DEF TimerRead, BulbsOnce
    <3>3. CASE TimerPublish(t)
      <4>1. t.table \in Table /\ Once(t.table)
        BY <2>0, <3>3 DEF TimerPublish, Timer, BulbsOnce
      <4> QED BY <1>2, <3>3, <4>1 DEF TimerPublish
    <3> QED BY <1>7, <3>1, <3>2, <3>3
  <2> QED BY <2>0, <2>1, <2>2 DEF BulbsOnce, Once
<1>8. CASE PowerQuery
  <2>1. UNCHANGED <<known, timers>> /\ Publish(QueriedMap)
    BY <1>8 DEF PowerQuery
  <2>2. CASE known = NoBulbs
    <3> DEFINE messages == <<>>
    <3>1. messages \in Seq(MapMessage) /\ Len(messages) <= 1 /\ Publish(messages)
      BY <2>1, <2>2 DEF QueriedMap
    <3>2. DOMAIN messages = {}
      OBVIOUS
    <3> HIDE DEF messages
    <3>3. \A k \in DOMAIN mapMail' : mapMail'[k].kind = "map" => Once(mapMail'[k].table)
      BY <1>1, <3>1, <3>2, MailOnce
    <3> QED BY <1>3, <2>1, <3>3
  <2>3. CASE known # NoBulbs
    BY <1>1, <1>2, <1>3, <2>1, <2>3 DEF QueriedMap, BulbsOnce
  <2> QED BY <2>2, <2>3
<1>9. CASE PublishFirstMap
  <2>1. UNCHANGED <<known, timers>> /\ Publish(<<Map(known)>>)
    BY <1>9 DEF PublishFirstMap, scanVars
  <2> QED BY <1>1, <1>2, <1>3, <2>1 DEF BulbsOnce
<1>10. CASE RestartProcess
  <2>1. known' = NoBulbs /\ timers' = {} /\ UNCHANGED mapMail
    BY <1>10 DEF RestartProcess
  <2> QED BY <2>1 DEF BulbsOnce, Once, NoBulbs
<1>11. CASE HearMap
  <2>1. UNCHANGED <<known, timers>> /\ mapMail # <<>> /\ mapMail' = Tail(mapMail)
        /\ mapMail \in Seq(MapMessage)
    BY <1>1, <1>11 DEF HearMap, scanVars, TablesInv
  <2>2. \A k \in DOMAIN mapMail' : k + 1 \in DOMAIN mapMail /\ mapMail'[k] = mapMail[k + 1]
    BY <2>1, HeadTailProperties, LenProperties
  <2> QED BY <1>3, <2>1, <2>2 DEF BulbsOnce
<1>12. CASE BeginScan \/ (\E i \in Addresses, b \in Bulbs \union {NoBulb} : ChangeArp(i, b))
            \/ UNCHANGED keepaliveVars
  <2>1. UNCHANGED <<known, timers, mapMail>>
    BY <1>12 DEF BeginScan, ChangeArp, keepaliveVars, scanVars, publishVars
  <2> QED BY <2>1 DEF BulbsOnce, Once
<1> QED BY <1>4, <1>5, <1>6, <1>7, <1>8, <1>9, <1>10, <1>11, <1>12
        DEF KeepaliveNext, KeepaliveThread, TimerThreads

\* "Deduplicates on MAC address ... so we don't carry two IPs for one physical device"
\* (infrastructure/bulb_keepalive.py:637, 649): the scan evicts the first stale address it
\* meets and looks for no other, and that is enough, however bulbs move, addresses are
\* reused and the process restarts; nor does a map that waits to be published, or is
\* on its way to the server, have a bulb twice.
THEOREM BulbsAlwaysOnce == KeepaliveSpec => []BulbsOnce
<1>1. KeepaliveInit => BulbsOnce
  BY DEF KeepaliveInit, BulbsOnce, Once, NoBulbs
<1> QED BY <1>1, KeepaliveBegin, KeepaliveStep, OnceStep, PTL DEF KeepaliveSpec

-----------------------------------------------------------------------------
(* Discovery.                                                              *)

\* Where a thread is in load_devices() and the calls around it.
Places == {"start", "groups", "extras", "hooks", "idle", "reconcile", "late", "assign",
           "regroup", "assigned", "load"}
Reconciling == {"reconcile", "late"}
LoadsInv ==
  /\ at \in [Thread -> Places] /\ at["api"] \notin Reconciling
  /\ loading \in [Thread -> SUBSET Lamps]
  /\ resolved \in [{"all", "group"} -> SUBSET Lamps]
  /\ reconciler \in {NoThread, "main", "mqtt", "keepalive"}
BooksInv ==
  /\ unresolved \subseteq Members /\ present \subseteq Lamps /\ published \subseteq Lamps
  /\ lampMap \subseteq Lamps /\ unloaded \subseteq Lamps /\ deviceIps \subseteq Lamps
  /\ groupIps \subseteq Lamps /\ opened \subseteq Lamps /\ forgotten \subseteq Lamps
  /\ presences \in 0..MaxPresence /\ rediscovers \in 0..MaxRediscovers
DiscoveryFlags == broker \in BOOLEAN /\ hooked \in BOOLEAN
DiscoveryInv == DiscoveryFlags /\ LoadsInv /\ BooksInv

LEMMA DiscoveryBounds ==
  Members \subseteq Lamps /\ MaxPresence \in Nat /\ MaxRediscovers \in Nat
  BY DiscoveryAssumption DEF DiscoveryAssumption

LEMMA DiscoveryBegin == DiscoveryInit => DiscoveryInv
<1>1. DiscoveryInit => DiscoveryFlags
  BY Zenon DEF DiscoveryInit, DiscoveryFlags
<1>2. DiscoveryInit => LoadsInv
  <2>1. DiscoveryInit => resolved \in [{"all", "group"} -> SUBSET Lamps]
    BY DEF DiscoveryInit, NothingResolved
  <2>2. DiscoveryInit => at \in [Thread -> Places] /\ at["api"] = "idle"
    BY DEF DiscoveryInit, Thread, Places
  <2> QED BY <2>1, <2>2 DEF DiscoveryInit, LoadsInv, Reconciling
<1>3. DiscoveryInit => BooksInv
  BY DiscoveryBounds DEF DiscoveryInit, BooksInv
<1> QED BY <1>1, <1>2, <1>3 DEF DiscoveryInv

\* A thread goes from place to place, the one of rediscover past reconciliation.
LEMMA Goes ==
  ASSUME at \in [Thread -> Places], at["api"] \notin Reconciling, NEW t \in Thread,
         NEW place \in Places, t # "api" \/ place \notin Reconciling, Goto(t, place)
  PROVE  at' \in [Thread -> Places] /\ at'["api"] \notin Reconciling
<1>1. at' = [at EXCEPT ![t] = place]
  BY DEF Goto
<1>2. "api" \in Thread
  BY DEF Thread
<1> HIDE DEF Places
<1> QED BY <1>1, <1>2

LEMMA DiscoveryFlagsStep == DiscoveryFlags /\ [DiscoveryNext]_discoveryVars => DiscoveryFlags'
<1> SUFFICES ASSUME DiscoveryFlags, [DiscoveryNext]_discoveryVars PROVE DiscoveryFlags'
  OBVIOUS
<1> USE DEF DiscoveryFlags, bulbVars, discoveryVars
<1>1. CASE Start
  BY <1>1, Zenon DEF Start, EndInitialWait, ResolveGroups, AddRegistered, InstallHooks
<1>2. ASSUME NEW map, Hear(map) PROVE DiscoveryFlags'
  BY <1>2, Zenon DEF Hear
<1>3. CASE PublishMap \/ KeepaliveScan
  BY <1>3, Zenon DEF PublishMap, KeepaliveScan, ScanNew, ScanExpired
<1>4. ASSUME NEW b \in Lamps, ChangePresence(b) PROVE DiscoveryFlags'
  BY <1>4, Zenon DEF ChangePresence
<1>5. ASSUME NEW t \in Thread, Load(t) PROVE DiscoveryFlags'
  BY <1>5, Zenon DEF Load, ReconcileMembers, ReconcileRegistered, BeginLoad, Loaded
<1>6. CASE ResolveGroupsAgain \/ FinishRediscover
  BY <1>6, Zenon DEF FinishRediscover, ResolveGroupsAgain, AddRegisteredAgain, ReplaceList, ReplaceGroups
<1>7. CASE UNCHANGED discoveryVars
  BY <1>7, Zenon
<1> QED BY <1>1, <1>2, <1>3, <1>4, <1>5, <1>6, <1>7 DEF DiscoveryNext, HearPublished, HearNewBulb

\* The network and the map: what the books hold does not change.
LEMMA MapStep ==
  ASSUME LoadsInv, BooksInv,
         \/ PublishMap \/ KeepaliveScan \/ HearPublished
         \/ \E b \in Lamps : HearNewBulb(b) \/ ChangePresence(b)
  PROVE  LoadsInv' /\ BooksInv'
<1> USE DEF books, bulbVars
<1>1. ASSUME NEW map \in SUBSET Lamps, Hear(map) PROVE LoadsInv' /\ BooksInv'
  <2>1. Goto("mqtt", "reconcile") \/ at' = at
    BY <1>1 DEF Hear
  <2>2. at' \in [Thread -> Places] /\ at'["api"] \notin Reconciling
    BY <2>1, Goes DEF LoadsInv, Thread, Places, Reconciling
  <2>3. LoadsInv'
    BY <1>1, <2>2 DEF Hear, LoadsInv
  <2>4. BooksInv'
    BY <1>1 DEF Hear, BooksInv
  <2> QED BY <2>3, <2>4
<1>2. CASE PublishMap
  BY <1>2 DEF PublishMap, LoadsInv, BooksInv
<1>3. ASSUME NEW b \in Lamps, ScanNew(b) \/ ScanExpired(b) PROVE LoadsInv' /\ BooksInv'
  <2>1. Goto("keepalive", "reconcile") \/ at' = at
    BY <1>3 DEF ScanNew, ScanExpired
  <2>2. at' \in [Thread -> Places] /\ at'["api"] \notin Reconciling
    BY <2>1, Goes DEF LoadsInv, Thread, Places, Reconciling
  <2>3. LoadsInv'
    BY <1>3, <2>2 DEF ScanNew, ScanExpired, LoadsInv
  <2>4. BooksInv'
    BY <1>3 DEF ScanNew, ScanExpired, BooksInv
  <2> QED BY <2>3, <2>4
<1>4. ASSUME NEW b \in Lamps, ChangePresence(b) PROVE LoadsInv' /\ BooksInv'
  BY <1>4, DiscoveryBounds DEF ChangePresence, LoadsInv, BooksInv
<1> QED BY <1>1, <1>2, <1>3, <1>4 DEF KeepaliveScan, HearPublished, HearNewBulb, BooksInv

LEMMA StartStep == ASSUME LoadsInv, BooksInv, Start PROVE LoadsInv' /\ BooksInv'
<1> USE DEF books, bulbVars
<1>1. \E place \in {"groups", "extras", "load", "reconcile"} : Goto("main", place)
  BY DEF Start, EndInitialWait, ResolveGroups, AddRegistered, InstallHooks
<1>2. at' \in [Thread -> Places] /\ at'["api"] \notin Reconciling
  BY <1>1, Goes DEF LoadsInv, Thread, Places, Reconciling
<1>3. BooksInv'
  BY DiscoveryBounds
     DEF Start, EndInitialWait, ResolveGroups, AddRegistered, InstallHooks, BooksInv
<1>4. loading' \in [Thread -> SUBSET Lamps]
  <2>1. CASE AddRegistered
    BY <1>3, <2>1 DEF AddRegistered, LoadsInv, BooksInv
  <2>2. CASE ~AddRegistered
    BY <2>2 DEF Start, EndInitialWait, ResolveGroups, InstallHooks, LoadsInv
  <2> QED BY <2>1, <2>2
<1>5. LoadsInv'
  BY <1>2, <1>4
     DEF Start, EndInitialWait, ResolveGroups, AddRegistered, InstallHooks, LoadsInv
<1> QED BY <1>3, <1>5

LEMMA LoadStep ==
  ASSUME LoadsInv, BooksInv, NEW t \in Thread, Load(t) PROVE LoadsInv' /\ BooksInv'
<1> USE DEF books, bulbVars
<1>1. CASE ReconcileMembers(t)
  <2>1. t # "api" /\ reconciler' = t
    BY <1>1 DEF ReconcileMembers, LoadsInv, Reconciling
  <2>2. at' \in [Thread -> Places] /\ at'["api"] \notin Reconciling
    BY <1>1, <2>1, Goes DEF ReconcileMembers, LoadsInv, Places
  <2>3. BooksInv'
    BY <1>1, DiscoveryBounds DEF ReconcileMembers, StillMissing, BooksInv
  <2>4. loading' \in [Thread -> SUBSET Lamps]
    BY <1>1 DEF ReconcileMembers, LoadsInv, BooksInv
  <2> QED BY <1>1, <2>1, <2>2, <2>3, <2>4 DEF ReconcileMembers, LoadsInv, Thread
<1>2. CASE ReconcileRegistered(t)
  <2>1. t # "api" /\ reconciler' \in {reconciler, NoThread}
    BY <1>2 DEF ReconcileRegistered, LoadsInv, Reconciling
  <2>2. Goto(t, "idle") \/ Goto(t, "assigned")
    BY <1>2 DEF ReconcileRegistered
  <2>3. at' \in [Thread -> Places] /\ at'["api"] \notin Reconciling
    BY <2>1, <2>2, Goes DEF LoadsInv, Places
  <2>4. BooksInv'
    BY <1>2 DEF ReconcileRegistered, StillMissing, BooksInv
  <2> QED BY <1>2, <2>1, <2>3, <2>4 DEF ReconcileRegistered, LoadsInv
<1>3. CASE BeginLoad(t)
  <2>1. at' \in [Thread -> Places] /\ at'["api"] \notin Reconciling
    BY <1>3, Goes DEF BeginLoad, LoadsInv, Places, Reconciling
  <2>2. BooksInv'
    BY <1>3 DEF BeginLoad, BooksInv
  <2> QED BY <1>3, <2>1, <2>2 DEF BeginLoad, LoadsInv, BooksInv
<1>4. CASE Loaded(t)
  <2>1. Goto(t, "hooks") \/ Goto(t, "idle")
    BY <1>4 DEF Loaded
  <2>2. at' \in [Thread -> Places] /\ at'["api"] \notin Reconciling
    BY <2>1, Goes DEF LoadsInv, Places, Reconciling
  <2>3. BooksInv'
    BY <1>4 DEF Loaded, LoadsInv, BooksInv
  <2>4. loading' \in [Thread -> SUBSET Lamps]
    BY <1>4 DEF Loaded, LoadsInv
  <2>5. reconciler' \in {NoThread, "main", "mqtt", "keepalive"} /\ resolved' = resolved
    BY <1>4 DEF Loaded, LoadsInv
  <2> QED BY <2>2, <2>3, <2>4, <2>5 DEF LoadsInv
<1> QED BY <1>1, <1>2, <1>3, <1>4 DEF Load

LEMMA RediscoverStep ==
  ASSUME LoadsInv, BooksInv, ResolveGroupsAgain \/ FinishRediscover
  PROVE  LoadsInv' /\ BooksInv'
<1> USE DEF books, bulbVars, FinishRediscover, ResolveGroupsAgain, AddRegisteredAgain, ReplaceList, ReplaceGroups
<1>1. \E place \in {"extras", "assign", "regroup", "assigned"} : Goto("api", place)
  OBVIOUS
<1>2. at' \in [Thread -> Places] /\ at'["api"] \notin Reconciling
  BY <1>1, Goes DEF LoadsInv, Thread, Places, Reconciling
<1>3. resolved' \in [{"all", "group"} -> SUBSET Lamps]
  BY DiscoveryBounds DEF NothingResolved, LoadsInv, BooksInv
<1>4. BooksInv'
  BY DiscoveryBounds DEF LoadsInv, BooksInv
<1>5. UNCHANGED <<loading, reconciler>>
  OBVIOUS
<1> QED BY <1>2, <1>3, <1>4, <1>5 DEF LoadsInv

LEMMA DiscoveryStep == DiscoveryInv /\ [DiscoveryNext]_discoveryVars => DiscoveryInv'
<1>1. LoadsInv /\ BooksInv /\ UNCHANGED discoveryVars => LoadsInv' /\ BooksInv'
  BY Zenon DEF discoveryVars, bulbVars, books, LoadsInv, BooksInv
<1>2. LoadsInv /\ BooksInv /\ [DiscoveryNext]_discoveryVars => LoadsInv' /\ BooksInv'
  BY <1>1, MapStep, StartStep, LoadStep, RediscoverStep DEF DiscoveryNext
<1> QED BY <1>2, DiscoveryFlagsStep DEF DiscoveryInv

LEMMA DiscoveryTypes == DiscoveryInv => DiscoveryTypeOK
<1> SUFFICES ASSUME DiscoveryInv PROVE DiscoveryTypeOK
  OBVIOUS
<1>1. {broker, hooked} \subseteq BOOLEAN
  BY Zenon DEF DiscoveryInv, DiscoveryFlags
<1>2. {present, published, lampMap, unloaded, deviceIps, groupIps, opened, forgotten}
       \subseteq SUBSET Lamps
  BY DEF DiscoveryInv, BooksInv
<1> QED BY <1>1, <1>2 DEF DiscoveryInv, LoadsInv, BooksInv, DiscoveryTypeOK, Places

\* What the start-up, the callbacks and rediscover leave when they are all done: a
\* bulb that is in the map is loaded and in its group, or a rediscover forgot it.
NothingLeftBehind ==
  hooked /\ (\A t \in Thread : at[t] = "idle")
    => \A b \in lampMap : Served(b) \/ b \in forgotten

\* Where threads may be before the hooks and after them.  A reconciliation holds its
\* lock from its look at the group's backlog to the end of its load.
Reconcilers == Thread \ {"api"}
Reloading == {"assigned", "load"}
Holding == {"late"} \union Reloading
PhaseInv ==
  /\ at["api"] \in {"idle", "extras", "assign", "regroup", "assigned", "load"}
  /\ at["mqtt"] \in {"idle", "reconcile"} \union Holding
  /\ at["keepalive"] \in {"idle", "reconcile"} \union Holding
  /\ hooked => at["main"] \in {"idle", "reconcile"} \union Holding
  /\ ~hooked => /\ at["main"] \in {"start", "groups", "extras", "load", "hooks"}
                /\ \A t \in Thread \ {"main"} : at[t] = "idle"
LockInv == hooked => \A t \in Reconcilers : at[t] \in Holding => reconciler = t

\* A bulb of a backlog that is in the map has a thread on its way to find it: it has
\* yet to take the lock, or to come to that backlog.
NoticedInv ==
  hooked =>
    /\ lampMap \intersect unresolved # {} => \E t \in Reconcilers : at[t] = "reconcile"
    /\ lampMap \intersect unloaded # {} => \E t \in Reconcilers : at[t] \in Reconciling

\* A member is in the group, in the backlog, or forgotten.
GroupInv == at["main"] \notin {"start", "groups"}
              => Members \subseteq unresolved \union groupIps \union forgotten

\* A bulb in neither backlog, and not forgotten, is open, or a reconciliation is
\* under way that will open it; and none will close it.
Underway(b) ==
  /\ b \in deviceIps
  /\ \A t \in Reconcilers : at[t] = "load" => b \in loading[t]
  /\ b \in opened \/ \E t \in Reconcilers : at[t] \in Reloading
OpenInv == at["main"] \notin {"start", "groups", "extras"}
             => \A b \in Lamps \ (unloaded \union forgotten) : Underway(b)

BacklogInv == PhaseInv /\ LockInv /\ NoticedInv /\ GroupInv /\ OpenInv

LEMMA BacklogBegin == DiscoveryInit => BacklogInv
<1> SUFFICES ASSUME DiscoveryInit PROVE BacklogInv
  OBVIOUS
<1>1. at = [t \in Thread |-> IF t = "main" THEN "start" ELSE "idle"] /\ ~hooked
  BY DEF DiscoveryInit
<1>2. at["main"] = "start" /\ \A t \in Thread \ {"main"} : at[t] = "idle"
  BY <1>1 DEF Thread
<1>3. PhaseInv
  BY <1>1, <1>2 DEF PhaseInv, Thread
<1>4. GroupInv
  BY <1>2 DEF DiscoveryInit, NothingResolved, GroupInv
<1> QED BY <1>1, <1>2, <1>3, <1>4 DEF BacklogInv, LockInv, NoticedInv, OpenInv

\* Threads go one at a time.
LEMMA OneGoes ==
  ASSUME LoadsInv, NEW t \in Thread, NEW place, Goto(t, place)
  PROVE  at'[t] = place /\ \A u \in Thread : u # t => at'[u] = at[u]
  BY DEF LoadsInv, Goto

\* The books are not touched, and a change of the map is followed by a reconciliation.
LEMMA MapBacklog ==
  ASSUME LoadsInv, BacklogInv,
         \/ PublishMap \/ KeepaliveScan \/ HearPublished
         \/ \E b \in Lamps : HearNewBulb(b) \/ ChangePresence(b)
  PROVE  BacklogInv'
<1> DEFINE Rest == UNCHANGED <<loading, resolved, hooked, reconciler, books, forgotten>>
<1>1. ASSUME NEW t \in {"mqtt", "keepalive"}, at[t] = "idle", Rest,
             IF hooked THEN Goto(t, "reconcile") ELSE at' = at
      PROVE  BacklogInv'
  <2>1. CASE hooked
    <3>1. at'[t] = "reconcile" /\ \A u \in Thread : u # t => at'[u] = at[u]
      BY <1>1, <2>1, OneGoes DEF Thread
    <3>2. PhaseInv'
      BY <1>1, <2>1, <3>1 DEF BacklogInv, PhaseInv, Thread
    <3>3. LockInv' /\ NoticedInv'
      BY <1>1, <2>1, <3>1 DEF BacklogInv, LockInv, NoticedInv, Reconcilers, Thread,
         Reconciling, Holding, Reloading
    <3>4. at'["main"] = at["main"]
      BY <3>1 DEF Thread
    <3>5. GroupInv'
      BY <1>1, <3>4 DEF BacklogInv, GroupInv, books
    <3>6. \A b \in Lamps : Underway(b) => Underway(b)'
      BY <1>1, <3>1 DEF Underway, Reconcilers, Reloading, books
    <3>7. OpenInv'
      BY <1>1, <3>4, <3>6 DEF BacklogInv, OpenInv, books
    <3> QED BY <3>2, <3>3, <3>5, <3>7 DEF BacklogInv
  <2>2. CASE ~hooked
    BY <1>1, <2>2 DEF BacklogInv, PhaseInv, LockInv, NoticedInv, GroupInv, OpenInv,
       Underway, books
  <2> QED BY <2>1, <2>2
<1>2. ASSUME UNCHANGED at, Rest, lampMap' \subseteq lampMap PROVE BacklogInv'
  BY <1>2 DEF BacklogInv, PhaseInv, LockInv, NoticedInv, GroupInv, OpenInv, Underway, books
<1>3. ASSUME NEW map, Hear(map) PROVE BacklogInv'
  BY <1>1, <1>3 DEF Hear
<1>4. ASSUME NEW b \in Lamps, ScanNew(b) PROVE BacklogInv'
  BY <1>1, <1>4 DEF ScanNew
<1>5. ASSUME NEW b \in Lamps, ScanExpired(b) PROVE BacklogInv'
  BY <1>2, <1>5 DEF ScanExpired
<1>6. CASE PublishMap
  BY <1>2, <1>6 DEF PublishMap
<1>7. ASSUME NEW b \in Lamps, ChangePresence(b) PROVE BacklogInv'
  BY <1>2, <1>7 DEF ChangePresence
<1> QED BY <1>3, <1>4, <1>5, <1>6, <1>7 DEF KeepaliveScan, HearPublished, HearNewBulb

\* The start-up fills the books, loads, and looks at the backlogs again after the
\* hooks are there.
LEMMA StartBacklog ==
  ASSUME LoadsInv, BooksInv, BacklogInv, Start PROVE BacklogInv'
<1>0. PhaseInv /\ LockInv /\ NoticedInv /\ GroupInv /\ OpenInv
  BY DEF BacklogInv
<1>1. ~hooked /\ \A t \in Thread : t # "main" => at[t] = "idle"
  BY <1>0 DEF Start, EndInitialWait, ResolveGroups, AddRegistered, InstallHooks, PhaseInv,
     Holding, Reloading
<1>2. \A place : Goto("main", place) =>
        at'["main"] = place /\ \A u \in Thread : u # "main" => at'[u] = at[u]
  BY OneGoes DEF Thread
<1>3. CASE EndInitialWait
  <2>1. /\ at'["main"] = "groups" /\ at["main"] = "start"
        /\ UNCHANGED <<hooked, resolved, groupIps, deviceIps>>
    BY <1>2, <1>3 DEF EndInitialWait, books
  <2>2. PhaseInv'
    BY <1>1, <1>2, <1>3, <2>1 DEF EndInitialWait, PhaseInv, Thread
  <2> QED BY <1>0, <1>1, <2>1, <2>2 DEF BacklogInv, LockInv, NoticedInv, GroupInv, OpenInv
<1>4. CASE ResolveGroups
  <2>1. /\ at'["main"] = "extras" /\ UNCHANGED <<hooked, resolved, lampMap>>
        /\ groupIps' = Members \intersect lampMap /\ deviceIps' = groupIps'
        /\ unresolved' = Members \ lampMap
    BY <1>2, <1>4 DEF ResolveGroups, bulbVars
  <2>2. PhaseInv'
    BY <1>1, <1>2, <1>4, <2>1 DEF ResolveGroups, PhaseInv, Thread
  <2> QED BY <1>0, <1>1, <2>1, <2>2 DEF BacklogInv, LockInv, NoticedInv, GroupInv, OpenInv
<1>5. CASE AddRegistered
  <2>1. /\ at'["main"] = "load" /\ UNCHANGED <<hooked, resolved, lampMap, groupIps, unresolved,
                                               forgotten>>
        /\ deviceIps' = deviceIps \union lampMap /\ unloaded' = Lamps \ lampMap
        /\ at["main"] = "extras"
        /\ loading' = [loading EXCEPT !["main"] = deviceIps']
    BY <1>2, <1>5 DEF AddRegistered, bulbVars
  <2>2. PhaseInv'
    BY <1>1, <1>2, <1>5, <2>1 DEF AddRegistered, PhaseInv, Thread
  <2>3. GroupInv'
    BY <1>0, <2>1 DEF GroupInv
  <2>4. \A t \in Thread : at'[t] = "load" => t = "main"
    BY <1>1, <1>2, <1>5 DEF AddRegistered
  <2>5. loading'["main"] = deviceIps' /\ "main" \in Reconcilers
    BY <2>1 DEF LoadsInv, Reconcilers, Thread
  <2>6. \A b \in Lamps \ unloaded' : Underway(b)'
    BY <2>1, <2>4, <2>5 DEF Underway, Reconcilers, Reloading
  <2> QED BY <1>1, <2>1, <2>2, <2>3, <2>6 DEF BacklogInv, LockInv, NoticedInv, OpenInv
<1>6. CASE InstallHooks
  <2>1. /\ at'["main"] = "reconcile" /\ at["main"] = "hooks" /\ hooked'
        /\ UNCHANGED <<resolved, loading, books, forgotten>>
    BY <1>2, <1>6 DEF InstallHooks
  <2>2. \A t \in Thread : at'[t] \notin Holding /\ at[t] \notin Holding
    BY <1>1, <1>2, <1>6, <2>1 DEF InstallHooks, Holding, Reloading
  <2>3. PhaseInv'
    BY <1>1, <1>2, <1>6, <2>1 DEF InstallHooks, PhaseInv, Thread
  <2>4. LockInv' /\ NoticedInv'
    BY <2>1, <2>2 DEF LockInv, NoticedInv, Reconcilers, Reconciling, Thread
  <2>5. GroupInv'
    BY <1>0, <2>1 DEF GroupInv, books
  <2>6. OpenInv'
    BY <1>0, <2>1, <2>2 DEF OpenInv, Underway, Reconcilers, Holding, Reloading, books
  <2> QED BY <2>3, <2>4, <2>5, <2>6 DEF BacklogInv
<1> QED BY <1>3, <1>4, <1>5, <1>6 DEF Start

\* A reconciliation goes through the group's backlog under its lock ...
LEMMA MembersBacklog ==
  ASSUME LoadsInv, BooksInv, BacklogInv, NEW t \in Thread, ReconcileMembers(t)
  PROVE  BacklogInv'
<1> DEFINE members == unresolved \intersect lampMap
<1>0. PhaseInv /\ LockInv /\ NoticedInv /\ GroupInv /\ OpenInv
  BY DEF BacklogInv
<1>1. /\ at[t] = "reconcile" /\ reconciler = NoThread /\ reconciler' = t
      /\ unresolved' = unresolved \ lampMap
      /\ groupIps' = groupIps \union members /\ deviceIps' = deviceIps \union members
      /\ UNCHANGED <<lampMap, resolved, hooked, unloaded, opened, forgotten>>
  BY DEF ReconcileMembers, StillMissing, bulbVars
<1>2. at'[t] = "late" /\ \A u \in Thread : u # t => at'[u] = at[u] /\ loading'[u] = loading[u]
  BY OneGoes DEF ReconcileMembers, LoadsInv
<1>3. t \in Reconcilers /\ hooked
  BY <1>0, <1>1 DEF PhaseInv, Reconcilers, Thread, Holding, Reloading
<1>4. \A u \in Reconcilers : at[u] \notin Holding
  BY <1>0, <1>1, <1>3 DEF LockInv, NoThread, Reconcilers, Thread
<1>5. PhaseInv'
  BY <1>0, <1>1, <1>2, <1>3 DEF PhaseInv, Reconcilers, Thread, Holding
<1>6. LockInv' /\ NoticedInv'
  BY <1>0, <1>1, <1>2, <1>3, <1>4 DEF LockInv, NoticedInv, Reconciling, Reconcilers
<1>7. at["main"] \notin {"start", "groups", "extras"}
  BY <1>0, <1>3 DEF PhaseInv, Holding, Reloading
<1>8. GroupInv'
  BY <1>0, <1>1, <1>7 DEF GroupInv, BooksInv
<1>9. ASSUME NEW b \in Lamps, Underway(b) PROVE Underway(b)'
  <2>1. b \in opened
    BY <1>4, <1>9 DEF Underway, Holding
  <2>2. \A u \in Reconcilers : at'[u] # "load"
    BY <1>2, <1>4 DEF Reconcilers, Holding, Reloading
  <2> QED BY <1>1, <1>9, <2>1, <2>2 DEF Underway
<1>10. OpenInv'
  BY <1>0, <1>1, <1>7, <1>9 DEF OpenInv
<1> QED BY <1>5, <1>6, <1>8, <1>10 DEF BacklogInv

\* ... then through the other, and reloads if it found a bulb in either.
LEMMA RegisteredBacklog ==
  ASSUME LoadsInv, BooksInv, BacklogInv, NEW t \in Thread, ReconcileRegistered(t)
  PROVE  BacklogInv'
<1> DEFINE registered == unloaded \intersect lampMap
<1>0. PhaseInv /\ LockInv /\ NoticedInv /\ GroupInv /\ OpenInv
  BY DEF BacklogInv
<1>1. /\ at[t] = "late" /\ unloaded' = unloaded \ lampMap
      /\ deviceIps' = deviceIps \union registered
      /\ UNCHANGED <<lampMap, loading, resolved, hooked, unresolved, groupIps, opened, forgotten>>
  BY DEF ReconcileRegistered, StillMissing, bulbVars
<1>2. /\ \/ at'[t] = "idle" /\ registered = {}
         \/ at'[t] = "assigned" /\ reconciler' = reconciler
      /\ \A u \in Thread : u # t => at'[u] = at[u]
  BY OneGoes DEF ReconcileRegistered
<1>3. t \in Reconcilers /\ hooked
  BY <1>0, <1>1 DEF PhaseInv, Reconcilers, Thread
<1>4. \A u \in Reconcilers : u # t => at[u] \notin Holding
  BY <1>0, <1>1, <1>3 DEF LockInv, Holding
<1>5. PhaseInv'
  BY <1>0, <1>1, <1>2, <1>3 DEF PhaseInv, Reconcilers, Thread, Holding, Reloading
<1>6. LockInv'
  BY <1>0, <1>1, <1>2, <1>3, <1>4 DEF LockInv, Reconcilers, Holding, Reloading
<1>7. NoticedInv'
  BY <1>0, <1>1, <1>2, <1>3 DEF NoticedInv, Reconcilers
<1>8. at["main"] \notin {"start", "groups", "extras"}
  BY <1>0, <1>3 DEF PhaseInv, Holding, Reloading
<1>9. GroupInv'
  BY <1>0, <1>1, <1>8 DEF GroupInv
<1>10. \A u \in Reconcilers : at'[u] # "load"
  BY <1>2, <1>4 DEF Reconcilers, Holding, Reloading
<1>11. ASSUME NEW b \in Lamps \ (unloaded' \union forgotten') PROVE Underway(b)'
  <2>1. b \in deviceIps'
    BY <1>0, <1>1, <1>8, <1>11 DEF OpenInv, Underway
  <2>2. CASE at'[t] = "assigned"
    BY <1>3, <1>10, <2>1, <2>2 DEF Underway, Reloading
  <2>3. CASE registered = {}
    <3>1. Underway(b)
      BY <1>0, <1>1, <1>8, <1>11, <2>3 DEF OpenInv
    <3>2. \A u \in Reconcilers : at[u] \notin Reloading
      BY <1>1, <1>4 DEF Holding, Reloading
    <3> QED BY <1>1, <1>10, <2>1, <3>1, <3>2 DEF Underway
  <2> QED BY <1>2, <2>2, <2>3
<1> QED BY <1>5, <1>6, <1>7, <1>9, <1>11 DEF BacklogInv, OpenInv

\* A load begins with all of the list, so with all that is under way.
LEMMA BeginLoadBacklog ==
  ASSUME LoadsInv, BooksInv, BacklogInv, NEW t \in Thread, BeginLoad(t) PROVE BacklogInv'
<1>0. PhaseInv /\ LockInv /\ NoticedInv /\ GroupInv /\ OpenInv
  BY DEF BacklogInv
<1>1. /\ at[t] = "assigned"
      /\ UNCHANGED <<lampMap, resolved, hooked, reconciler, unresolved, unloaded, deviceIps,
                     groupIps, opened, forgotten>>
  BY DEF BeginLoad, bulbVars, books
<1>2. /\ at'[t] = "load" /\ loading'[t] = deviceIps
      /\ \A u \in Thread : u # t => at'[u] = at[u] /\ loading'[u] = loading[u]
  BY OneGoes DEF BeginLoad, LoadsInv
<1>3. hooked
  BY <1>0, <1>1 DEF PhaseInv, Thread
<1>4. PhaseInv'
  BY <1>0, <1>1, <1>2, <1>3 DEF PhaseInv, Thread, Holding, Reloading
<1>5. LockInv' /\ NoticedInv'
  BY <1>0, <1>1, <1>2 DEF LockInv, NoticedInv, Reconcilers, Reconciling, Holding, Reloading
<1>6. /\ at["main"] \notin {"start", "groups", "extras"}
      /\ at'["main"] \notin {"start", "groups", "extras"}
  BY <1>0, <1>1, <1>3, <1>4 DEF PhaseInv, Holding, Reloading
<1>7. GroupInv'
  BY <1>0, <1>1, <1>6 DEF GroupInv
<1>8. ASSUME NEW b \in Lamps, Underway(b) PROVE Underway(b)'
  <2>1. \A u \in Reconcilers : at'[u] = "load" => b \in loading'[u]
    BY <1>2, <1>8 DEF Underway, Reconcilers
  <2>2. \A u \in Reconcilers : at[u] \in Reloading => at'[u] \in Reloading
    BY <1>2 DEF Reconcilers, Reloading
  <2> QED BY <1>1, <1>8, <2>1, <2>2 DEF Underway
<1>9. OpenInv'
  BY <1>0, <1>1, <1>6, <1>8 DEF OpenInv
<1> QED BY <1>4, <1>5, <1>7, <1>9 DEF BacklogInv

\* What load_devices() closes it was not asked to keep, and a rediscover forgets it.
LEMMA LoadedBacklog ==
  ASSUME LoadsInv, BooksInv, BacklogInv, NEW t \in Thread, Loaded(t) PROVE BacklogInv'
<1>0. PhaseInv /\ LockInv /\ NoticedInv /\ GroupInv /\ OpenInv
  BY DEF BacklogInv
<1>1. /\ at[t] = "load" /\ opened' = loading[t]
      /\ loading' = [loading EXCEPT ![t] = {}]
      /\ reconciler' = IF reconciler = t THEN NoThread ELSE reconciler
      /\ forgotten' = IF t = "api" THEN forgotten \union (opened \ loading[t]) ELSE forgotten
      /\ UNCHANGED <<lampMap, resolved, hooked, unresolved, unloaded, deviceIps, groupIps>>
  BY DEF Loaded, bulbVars
<1>2. /\ at'[t] = IF t = "main" /\ ~hooked THEN "hooks" ELSE "idle"
      /\ \A u \in Thread : u # t => at'[u] = at[u]
  BY OneGoes DEF Loaded
<1>3. \A u \in Thread : u # t => loading'[u] = loading[u]
  BY <1>1 DEF LoadsInv
<1>4. PhaseInv'
  BY <1>0, <1>1, <1>2 DEF PhaseInv, Thread, Holding, Reloading
<1>5. LockInv'
  BY <1>0, <1>1, <1>2 DEF LockInv, Reconcilers, Holding, Reloading
<1>6. NoticedInv'
  BY <1>0, <1>1, <1>2 DEF NoticedInv, Reconcilers, Reconciling
<1>7. at'["main"] \notin {"start", "groups", "extras"}
      <=> at["main"] \notin {"start", "groups", "extras"}
  BY <1>1, <1>2 DEF Thread
<1>8. GroupInv'
  <2>1. at'["main"] \notin {"start", "groups"} => at["main"] \notin {"start", "groups"}
    BY <1>1, <1>2 DEF Thread
  <2> QED BY <1>0, <1>1, <2>1 DEF GroupInv
<1>9. ASSUME NEW b \in Lamps \ (unloaded' \union forgotten'), Underway(b) PROVE Underway(b)'
  <2>1. b \in deviceIps' /\ \A u \in Reconcilers : at'[u] = "load" => b \in loading'[u]
    BY <1>1, <1>2, <1>3, <1>9 DEF Underway, Reconcilers
  <2>2. CASE t \in Reconcilers
    BY <1>1, <1>9, <2>1, <2>2 DEF Underway
  <2>3. CASE t = "api"
    <3>1. b \in opened => b \in opened'
      BY <1>1, <1>9, <2>3
    <3>2. \A u \in Reconcilers : at'[u] = at[u]
      BY <1>2, <2>3 DEF Reconcilers
    <3> QED BY <1>9, <2>1, <3>1, <3>2 DEF Underway
  <2> QED BY <2>2, <2>3 DEF Reconcilers
<1>10. OpenInv'
  BY <1>0, <1>1, <1>7, <1>9 DEF OpenInv
<1> QED BY <1>4, <1>5, <1>6, <1>8, <1>10 DEF BacklogInv

\* Rediscover overtakes a reconciliation only by what it forgets.
LEMMA RediscoverBacklog ==
  ASSUME LoadsInv, BooksInv, BacklogInv, ResolveGroupsAgain \/ FinishRediscover
  PROVE  BacklogInv'
<1> USE DEF FinishRediscover
<1>0. PhaseInv /\ LockInv /\ NoticedInv /\ GroupInv /\ OpenInv
  BY DEF BacklogInv
<1>1. /\ at'["api"] \in {"extras", "assign", "regroup", "assigned"}
      /\ \A u \in Thread : u # "api" => at'[u] = at[u]
  BY OneGoes DEF ResolveGroupsAgain, AddRegisteredAgain, ReplaceList, ReplaceGroups, Thread
<1>2. UNCHANGED <<lampMap, loading, hooked, reconciler, unresolved, unloaded, opened>>
  BY DEF ResolveGroupsAgain, AddRegisteredAgain, ReplaceList, ReplaceGroups, bulbVars, books
<1>3. hooked
  BY <1>0 DEF ResolveGroupsAgain, AddRegisteredAgain, ReplaceList, ReplaceGroups, PhaseInv, Thread
<1>4. \A u \in Reconcilers : at'[u] = at[u]
  BY <1>1 DEF Reconcilers
<1>5. PhaseInv' /\ at'["main"] = at["main"]
  BY <1>0, <1>1, <1>2, <1>3 DEF PhaseInv, Thread
<1>6. LockInv' /\ NoticedInv'
  BY <1>0, <1>2, <1>4 DEF LockInv, NoticedInv
<1>7. at["main"] \notin {"start", "groups", "extras"}
  BY <1>0, <1>3 DEF PhaseInv, Holding, Reloading
<1>8. /\ forgotten \subseteq forgotten'
      /\ \A b \in deviceIps : b \in deviceIps' \/ b \in forgotten'
      /\ \A b \in groupIps : b \in groupIps' \/ b \in forgotten'
  BY DEF ResolveGroupsAgain, AddRegisteredAgain, ReplaceList, ReplaceGroups, books
<1>9. GroupInv'
  BY <1>0, <1>2, <1>5, <1>8 DEF GroupInv
<1>10. OpenInv'
  BY <1>0, <1>2, <1>4, <1>5, <1>7, <1>8 DEF OpenInv, Underway
<1> QED BY <1>5, <1>6, <1>9, <1>10 DEF BacklogInv

LEMMA BacklogStep ==
  DiscoveryInv /\ BacklogInv /\ [DiscoveryNext]_discoveryVars => BacklogInv'
<1>1. BacklogInv /\ UNCHANGED discoveryVars => BacklogInv'
  BY DEF discoveryVars, bulbVars, books, BacklogInv, PhaseInv, LockInv, NoticedInv, GroupInv,
         OpenInv, Underway
<1> QED BY <1>1, MapBacklog, StartBacklog, MembersBacklog, RegisteredBacklog, BeginLoadBacklog,
        LoadedBacklog, RediscoverBacklog DEF DiscoveryNext, DiscoveryInv, Load

\* The map changes between any two steps of the start-up, of the reconciliations and
\* of a rediscover (server.py:2396-2462, handlers/discovery.py:150-183), which takes no
\* lock; each of them reads the map twice, for the group and for the rest.  Once they
\* are all done, a bulb of the map is loaded and in its group, or a rediscover took it
\* off the list, out of the group, or closed it.
THEOREM NothingEverLeftBehind == DiscoverySpec => []NothingLeftBehind
<1>1. DiscoveryInv /\ BacklogInv => NothingLeftBehind
  <2> SUFFICES ASSUME DiscoveryInv, BacklogInv, hooked, \A t \in Thread : at[t] = "idle",
                      NEW b \in lampMap, b \notin forgotten
               PROVE  Served(b)
    BY DEF NothingLeftBehind
  <2>1. b \notin unresolved /\ b \notin unloaded
    BY DEF BacklogInv, NoticedInv, Reconcilers, Reconciling
  <2>2. at["main"] = "idle" /\ b \in Lamps
    BY DEF Thread, DiscoveryInv, BooksInv
  <2>3. b \in opened
    BY <2>1, <2>2 DEF BacklogInv, OpenInv, Underway, Reconcilers, Reloading
  <2>4. b \in Members => b \in groupIps
    BY <2>1, <2>2 DEF BacklogInv, GroupInv
  <2> QED BY <2>3, <2>4 DEF Served
<1> QED BY <1>1, DiscoveryBegin, DiscoveryStep, BacklogBegin, BacklogStep, PTL
        DEF DiscoverySpec
=============================================================================
