SPECIFICATION Spec
CONSTANTS
  c = c
  s = s
  w = w
  wifi = wifi
  ssid = ssid
  name = name
  t1 = t1
  t2 = t2
  ipcinfo = ipcinfo
  config = config
  set = set
  get = get
  remove = remove
  write = write
  loop = loop
  reader = reader
  Empty = Empty
  Object = Object
  Blank = Blank
  NoText = NoText
  Unknown = Unknown
  Cut = Cut
  Path <- MCPath
  Above <- MCAbove
  Value <- MCValue
  Contexts <- MCContexts
  Keys <- MCKeys
  Begins <- MCBegins
  Lines <- MCLines
SYMMETRY Symmetry
INVARIANTS
  AsTold
  Survives
  OnlyWhatWasTyped
  TabExtends
