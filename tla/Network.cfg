SPECIFICATION Spec
CONSTANTS
  utc = utc
  rome = rome
  ghost = ghost
  etc1 = etc1
  nozone = nozone
  lost = lost
  f24 = f24
  nofmt = nofmt
  Zones <- MCZones
  UTC = utc
  NoZone = nozone
  Installed <- MCInstalled
  EtcZones = {etc1}
  EtcZone <- MCEtcZone
  Abbr <- MCAbbr
  StdOffset <- MCStdOffset
  Summer <- NoSummer
  Window = 2
  Times = {1}
  UserTz = {}
  Formats = {}
  NoFormat = nofmt
  FormatEnv = nofmt
  NetEnvs = {"no"}
  NetMsgs <- FewMsgs
  Mccs = {1, 2}
  CityZones <- TwoCountries
  Confs = {}
  Links = {ghost}
  Lost = lost
  Worlds <- NetworkWorlds
  AlarmIds = 2
  MaxPending = 1
  MaxTime = 1
  MaxMono = 0
INVARIANTS TypeOK CountryListFresh
PROPERTIES AutosyncOffIsPassive TzChangeAnnounced
