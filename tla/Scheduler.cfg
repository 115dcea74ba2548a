\* Two requests, of any operation, on a group of two bulbs or on one of them.
SPECIFICATION FairSpec
CONSTANTS
  bulb1 = bulb1  bulb2 = bulb2  switch = switch  lamp = lamp  porch = porch  plug = plug
  evening = evening  night = night  None = None  Free = Free
  Entries = {evening, night}  Clients = {c1}
  Ips <- PorchIps  Loaded <- PorchIps  Groups = {porch}  Matter = {}
  Members <- PorchMembers  EntriesOf <- PorchEntries
  Operations = {"play", "stop", "powerOff", "resume", "reset", "identify", "mqttPlay", "mqttStop", "mqttPowerOff", "mqttResume"}
  Targets = {porch, bulb1}  MaxRequests = 2
INVARIANTS TypeOK NoOrphan
PROPERTIES RespectsOverrides TransitionReleasesOverride TransitionStarts
