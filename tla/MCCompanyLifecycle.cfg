CONSTANTS
  loopback = loopback
  remote = remote
  Hosts = {loopback, remote}
  LoopbackHosts = {loopback}
  BundledHosts = {}
  Runs = {r1}
  Tokens = {t1}
  NoToken = NoToken
  DefaultLimit = 2
  MaxLimit = 3
  DefaultPage = 2
  MaxPage = 2
  Configs <- TriedConfigs
  FirstConfigs <- TokenlessFirst
  Slots = {s1}
  ResyncEvery = 1
  MaxChanges = 1
  MaxFaults = 1
  MaxRecords = 2
SPECIFICATION FairLifecycle
INVARIANTS LifecycleTypeOK CurrentRelayLive NoRelayLeft SavedConfigInForce LogOrdered SavedConfigsAccepted
PROPERTIES RunsComeTracked
