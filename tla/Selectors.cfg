SPECIFICATION Spec
CHECK_DEADLOCK FALSE
CONSTANTS
  MaxClients <- ThreeClients
  MaxFD = 5
  Kinds = {"poll", "epoll", "kqueue", "haiku"}
  Storages = {"sparse", "slab", "dynamic", "map"}
  MaxBacklog = 2
INVARIANTS SelectorsSound
