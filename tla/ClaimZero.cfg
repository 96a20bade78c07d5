SPECIFICATION Spec
CONSTANTS
  utc = utc
  rome = rome
  ghost = ghost
  etc1 = etc1
  nozone = nozone
  lost = lost
  f24 = f24
  nofmt = nofmt
  Zones <- MCZones
  UTC = utc
  NoZone = nozone
  Installed <- MCInstalled
  EtcZones = {etc1}
  EtcZone <- MCEtcZone
  Abbr <- MCAbbr
  StdOffset <- MCStdOffset
  Summer <- NoSummer
  Window = 2
  Times = {1}
  UserTz = {}
  Formats = {}
  NoFormat = nofmt
  FormatEnv = nofmt
  NetEnvs = {"no"}
  NetMsgs <- AlarmMsgs
  Mccs = {}
  CityZones <- NoCountry
  Confs = {}
  Links = {utc}
  Lost = lost
  Worlds <- JustFine
  AlarmIds = 2
  MaxPending = 1
  MaxTime = 3
  MaxMono = 0
PROPERTY ZeroMeansTimeUnchanged
