\* A Matter group is powered off during one of its entries.
SPECIFICATION FairSpec
CONSTANTS
  bulb1 = bulb1  bulb2 = bulb2  switch = switch  lamp = lamp  porch = porch  plug = plug
  evening = evening  night = night  None = None  Free = Free
  Entries = {evening, night}  Clients = {c1}
  Ips = {switch, lamp}  Loaded = {}  Groups = {plug}  Matter = {plug}
  Members <- PlugMembers  EntriesOf <- PlugEntries
  Operations = {"powerOff"}
  Targets = {plug}  MaxRequests = 1
PROPERTIES OverrideEndsWithEntry
