\* With and without a broker; without one the server runs its own keepalive thread.
SPECIFICATION DiscoverySpec
CONSTANTS
  Lamps = {"a", "b"}  Members = {"a"}  MaxPresence = 1  MaxRediscovers = 0
CHECK_DEADLOCK FALSE
PROPERTY AutoLoads
