\* An effect is played on one bulb of a group that plays its schedule.
SPECIFICATION FairSpec
CONSTANTS
  bulb1 = bulb1  bulb2 = bulb2  switch = switch  lamp = lamp  porch = porch  plug = plug
  evening = evening  night = night  None = None  Free = Free
  Entries = {evening, night}  Clients = {c1}
  Ips <- PorchIps  Loaded <- PorchIps  Groups = {porch}  Matter = {}
  Members <- PorchMembers  EntriesOf <- PorchEntries
  Operations = {"play"}
  Targets = {bulb1}  MaxRequests = 1
INVARIANTS OneDriverPerBulb
