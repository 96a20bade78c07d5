SPECIFICATION Spec
CONSTANTS
  utc = utc
  rome = rome
  ghost = ghost
  etc1 = etc1
  nozone = nozone
  lost = lost
  f24 = f24
  nofmt = nofmt
  Zones <- MCZones
  UTC = utc
  NoZone = nozone
  Installed <- MCInstalled
  EtcZones = {etc1}
  EtcZone <- MCEtcZone
  Abbr <- MCAbbr
  StdOffset <- MCStdOffset
  Summer <- NoSummer
  Window = 2
  Times = {1}
  UserTz <- AllUserTz
  Formats = {f24}
  NoFormat = nofmt
  FormatEnv = nofmt
  NetEnvs = {"disabled", "yes"}
  NetMsgs <- OneMsg
  Mccs = {}
  CityZones <- NoCountry
  Confs <- Earlier
  Links = {utc, ghost, nozone}
  Lost = lost
  Worlds <- OneMishap
  AlarmIds = 2
  MaxPending = 1
  MaxTime = 1
  MaxMono = 0
INVARIANTS DisabledStaysOff RestartKeepsSettings EnvNeverForeign
