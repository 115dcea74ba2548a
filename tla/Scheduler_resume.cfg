\* An effect is played on the group, then the schedule is resumed.
SPECIFICATION FairSpec
CONSTANTS
  bulb1 = bulb1  bulb2 = bulb2  switch = switch  lamp = lamp  porch = porch  plug = plug
  evening = evening  night = night  None = None  Free = Free
  Entries = {evening, night}  Clients = {c1}
  Ips <- PorchIps  Loaded <- PorchIps  Groups = {porch}  Matter = {}
  Members <- PorchMembers  EntriesOf <- PorchEntries
  Operations = {"mqttPlay", "mqttResume"}
  Targets = {porch}  MaxRequests = 2
PROPERTIES ScheduleDrives
