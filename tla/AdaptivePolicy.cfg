SPECIFICATION Spec
CONSTANTS
  p1 = p1
  p2 = p2
  dns = dns
  Profiles <- ThreeProfiles
  Disabled = {}
  DnsDependent = {dns}
  Tcp = {p1, p2}
  Udp = {dns}
  Fingerprinted = {}
  HealthUntil <- NoCooldown
  Ewma <- HalfWorking
  Handshake <- Fast
  Fails <- NoFails
  Trust <- SameTrust
  PolicyScore <- PolicyScores
  Failures = {"DNS_BLOCKED", "UNKNOWN"}
  Latencies = {0}
  Window = 4
  SelectionCap = 1
  StreakLimit = 2
  CloseScore = 5
  CooldownSec = 60
  DecaySpan = 300
  Steps = {90}
  MaxTime = 180
INVARIANT TypeOK
INVARIANT SelectionNeverCollapses
INVARIANT RecentCountsMore
PROPERTY NoEarlyRetry
