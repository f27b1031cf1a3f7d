SPECIFICATION Spec
CONSTANTS
  FlowIdentifiers = {"src_dst_identifier", "dst_identifiers_only"}
  Conn = {1, 2, 3}
  LocalApps = {1, 2}
  RemoteApps = {1, 2}
  RemoteHosts = {1}
  ListenApps = {}
  LatePackets = TRUE
INVARIANTS LookupFindsOpen NoDanglingEntry
PROPERTY ImplementsMap
