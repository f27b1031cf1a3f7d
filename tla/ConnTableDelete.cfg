SPECIFICATION Spec
CONSTANTS
  FlowIdentifiers = {"src_dst_identifier"}
  Conn = {1, 2, 3}
  LocalApps = {1}
  RemoteApps = {1, 2}
  RemoteHosts = {1, 2}
  ListenApps = {1}
  LatePackets = FALSE
INVARIANT LookupAssertion
