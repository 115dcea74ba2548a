------------------------------ MODULE Registry ------------------------------
(***************************************************************************)
(* DeviceRegistry (device_registry.py) and the REST handlers that edit and  *)
(* save it (handlers/registry.py).  An edit holds _lock; save() holds       *)
(* _io_lock, takes its snapshot under _lock, and replaces the file.         *)
(*                                                                         *)
(* A device's entry is its label and its sub-devices' labels; notes and IPs *)
(* are left out.  Labels are compared in lower case, so they are values.    *)
(***************************************************************************)
EXTENDS Naturals

CONSTANTS Macs, Components, Labels,
          Handlers,          \* request threads
          NoLabel, NoOwner,
          MaxRegistryEdits   \* bound: edits

ASSUME RegistryAssumption ==
  /\ NoLabel \notin Labels /\ NoOwner \notin Macs \union (Macs \X Components)
  /\ Macs \intersect (Macs \X Components) = {}
  /\ MaxRegistryEdits \in Nat

VARIABLES
  label,         \* _devices: each entry's label, or NoLabel
  sub,           \* its sub-devices' labels
  labelToMac,    \* _label_to_mac
  subAddress,    \* _subdev_label_to_address
  file,          \* the registry file
  saving,        \* per handler: "idle", "save" (the edit is made), "write", "failed"
                 \* (idle, and its edit has not come to the file since)
  snapshot,      \* what a save() in progress holds
  loaded,        \* the last load() succeeded
  registryEdits

devices == <<label, sub, labelToMac, subAddress>>
registryVars == <<devices, file, saving, snapshot, loaded, registryEdits>>

NoSubs == [c \in Components |-> NoLabel]
Content == [label : [Macs -> Labels \union {NoLabel}],
            sub : [Macs -> [Components -> Labels \union {NoLabel}]]]
Empty == [label |-> [m \in Macs |-> NoLabel], sub |-> [m \in Macs |-> NoSubs]]
Memory == [label |-> label, sub |-> sub]

RegistryTypeOK ==
  /\ Memory \in Content /\ file \in Content /\ snapshot \in Content
  /\ labelToMac \in [Labels -> Macs \union {NoOwner}]
  /\ subAddress \in [Labels -> (Macs \X Components) \union {NoOwner}]
  /\ saving \in [Handlers -> {"idle", "save", "write", "failed"}]
  /\ loaded \in BOOLEAN /\ registryEdits \in 0..MaxRegistryEdits

RegistryInit ==
  /\ label = Empty.label /\ sub = Empty.sub
  /\ labelToMac = [l \in Labels |-> NoOwner] /\ subAddress = [l \in Labels |-> NoOwner]
  /\ file = Empty /\ snapshot = Empty
  /\ saving = [h \in Handlers |-> "idle"]
  /\ loaded = TRUE /\ registryEdits = 0

\* An edit that succeeds; one that is refused changes nothing.
Edited(h) ==
  /\ loaded /\ saving[h] \in {"idle", "failed"} /\ registryEdits < MaxRegistryEdits
  /\ registryEdits' = registryEdits + 1
  /\ saving' = [saving EXCEPT ![h] = "save"]
  /\ UNCHANGED <<file, snapshot, loaded>>

\* Map without some of its labels.
Without(map, labels) == [l \in Labels |-> IF l \in labels THEN NoOwner ELSE map[l]]
SubLabels(m) == {sub[m][c] : c \in Components} \ {NoLabel}

----------------------------------------------------------------------------
(* Edits                                                                   *)

\* Mutant of Relabelled: a device's former label is not freed.
RelabelledOnly(m, l) == [labelToMac EXCEPT ![l] = m]
Relabelled(m, l) == [Without(labelToMac, {label[m]} \ {l}) EXCEPT ![l] = m]

\* add_device(): the label is looked up among parents only; the entry is a new
\* one, without the sub-devices of the old.
AddDevice(h, m, l, force) ==
  /\ labelToMac[l] \in {m, NoOwner} \/ force
  /\ label' = [n \in Macs |-> IF n = m THEN l
                              ELSE IF n = labelToMac[l] THEN NoLabel ELSE label[n]]
  /\ sub' = [n \in Macs |-> IF n \in {m, labelToMac[l]} THEN NoSubs ELSE sub[n]]
  /\ labelToMac' = Relabelled(m, l)
  /\ UNCHANGED subAddress
  /\ Edited(h)

RemoveDevice(h, m) ==
  /\ label[m] # NoLabel
  /\ label' = [label EXCEPT ![m] = NoLabel]
  /\ sub' = [sub EXCEPT ![m] = NoSubs]
  /\ labelToMac' = Without(labelToMac, {label[m]})
  /\ subAddress' = Without(subAddress, SubLabels(m))
  /\ Edited(h)

\* add_subdevice() under a label nobody has, or its own.
AddSubdevice(h, m, c, l) ==
  /\ label[m] # NoLabel
  /\ labelToMac[l] = NoOwner /\ subAddress[l] \in {NoOwner, <<m, c>>}
  /\ sub' = [sub EXCEPT ![m][c] = l]
  /\ subAddress' = [Without(subAddress, {sub[m][c]} \ {l}) EXCEPT ![l] = <<m, c>>]
  /\ UNCHANGED <<label, labelToMac>>
  /\ Edited(h)

\* add_subdevice(force): the device and the sub-device that have the label are
\* removed, even if the device is the parent itself, whose entry the new
\* sub-device is then added to in vain.
ForceSubdevice(h, m, c, l) ==
  LET evicted == {labelToMac[l]} \ {NoOwner}
      held(n) == IF n \in evicted THEN NoSubs
                 ELSE [d \in Components |->
                        IF subAddress[l] = <<n, d>> THEN NoLabel ELSE sub[n][d]]
      freed == {l, sub[m][c]} \union UNION {SubLabels(n) : n \in evicted}
  IN /\ label[m] # NoLabel
     /\ label' = [n \in Macs |-> IF n \in evicted THEN NoLabel ELSE label[n]]
     /\ sub' = [n \in Macs |-> IF n = m /\ m \notin evicted
                                 THEN [held(n) EXCEPT ![c] = l] ELSE held(n)]
     /\ labelToMac' = Without(labelToMac, {l})
     /\ subAddress' = [Without(subAddress, freed) EXCEPT ![l] = <<m, c>>]
     /\ Edited(h)

RemoveSubdevice(h, m, c) ==
  /\ sub[m][c] # NoLabel
  /\ sub' = [sub EXCEPT ![m][c] = NoLabel]
  /\ subAddress' = Without(subAddress, {sub[m][c]})
  /\ UNCHANGED <<label, labelToMac>>
  /\ Edited(h)

----------------------------------------------------------------------------
(* The file                                                                *)

\* save(): _io_lock, then the snapshot.
BeginSave(h) ==
  /\ saving[h] = "save" /\ \A g \in Handlers : saving[g] # "write"
  /\ saving' = [saving EXCEPT ![h] = "write"]
  /\ snapshot' = Memory
  /\ UNCHANGED <<devices, file, loaded, registryEdits>>

\* The snapshot shares the entries' sub-devices with the registry: an edit of
\* them that falls between may be written too.
EndSave(h) ==
  /\ saving[h] = "write"
  /\ \E edited \in SUBSET {m \in Macs : label[m] = snapshot.label[m]} :
       file' = [snapshot EXCEPT !.sub =
                  [m \in Macs |-> IF m \in edited THEN sub[m] ELSE @[m]]]
  /\ saving' = [g \in Handlers |-> IF g = h \/ saving[g] = "failed" THEN "idle" ELSE saving[g]]
  /\ UNCHANGED <<devices, snapshot, loaded, registryEdits>>

\* The temporary file cannot be written: the request fails, its edit stays in the
\* registry, and the file is the old one.
FailSave(h) ==
  /\ saving[h] = "write"
  /\ saving' = [saving EXCEPT ![h] = "failed"]
  /\ UNCHANGED <<devices, file, snapshot, loaded, registryEdits>>

\* load() refuses a label that stands for two things.
Holders(content, l) ==
  {m \in Macs : content.label[m] = l} \union
  {a \in Macs \X Components : content.sub[a[1]][a[2]] = l}
Valid(content) ==
  \A l \in Labels : \A x, y \in Holders(content, l) : x = y
Owner(owners) == IF owners = {} THEN NoOwner ELSE CHOOSE x \in owners : TRUE

\* The server stops at any moment and starts again.
RestartRegistry ==
  /\ loaded
  /\ loaded' = Valid(file)
  /\ saving' = [h \in Handlers |-> "idle"]
  /\ IF Valid(file)
       THEN /\ label' = file.label /\ sub' = file.sub
            /\ labelToMac' = [l \in Labels |-> Owner(Holders(file, l) \intersect Macs)]
            /\ subAddress' = [l \in Labels |-> Owner(Holders(file, l) \ Macs)]
       ELSE UNCHANGED devices
  /\ UNCHANGED <<file, snapshot, registryEdits>>

----------------------------------------------------------------------------
RegistryNext ==
  \/ \E h \in Handlers :
       \/ \E m \in Macs, l \in Labels, force \in BOOLEAN : AddDevice(h, m, l, force)
       \/ \E m \in Macs : RemoveDevice(h, m)
       \/ \E m \in Macs, c \in Components :
            \/ \E l \in Labels : AddSubdevice(h, m, c, l) \/ ForceSubdevice(h, m, c, l)
            \/ RemoveSubdevice(h, m, c)
       \/ BeginSave(h) \/ EndSave(h) \/ FailSave(h)
  \/ RestartRegistry

RegistrySpec == RegistryInit /\ [][RegistryNext]_registryVars

----------------------------------------------------------------------------
(* Properties                                                              *)

\* However labels are moved about, by force or not, and reloaded: a device is
\* found by its label and by no other, and a sub-device that exists by its own.
LabelsResolve ==
  loaded =>
    \A m \in Macs, l \in Labels :
      /\ labelToMac[l] = m <=> label[m] = l
      /\ \A c \in Components : sub[m][c] = l => subAddress[l] = <<m, c>>

\* When no request is in progress the file holds what the registry holds: saves of
\* concurrent requests never overtake one another, and one that succeeds makes up for
\* all that failed.
SavedIsCurrent ==
  (loaded /\ \A h \in Handlers : saving[h] = "idle") => file = Memory

\* Labels, addresses and the file agree, whatever order concurrent requests took.
RegistryConsistent == LabelsResolve /\ SavedIsCurrent
=============================================================================
