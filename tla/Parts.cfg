CONSTANTS
  Elements = {e1, e2, e3}
  Documents = {d1}
  MaxHeld = 1
  StringRefs = {r1, r2, r3, r4, r5}
  Larges = {s1, s2, s3}
  Wrap = 4
  Small = small
  NoString = nostring
  PShares = {system, c1, c2, c3}
  System = system
  Extent = 4
  NoShare = noshare
  asset = asset
  node = node
  Order <- MCOrder
  MaxOccurs <- MCMaxOccurs
  Cycles = 2
  Unnamed = unnamed
  NoName = noname
  MaxNodes = 4
  Words = {"word"}
  Letters = {"l"}
  Query = "query"
  Fragment = "fragment"
  NoPart = "none"
  MaxSegments = 4
  MaxPath = 3
  Nodes = {n0, n1, n2, n3}
  Root = n0
  SIDs = {sid1, sid2}
  NoSID = nosid
  Profiles = {"profile"}
  NoProfile = "any"
  Plain = "plain"
  Common = "common"
  Items = {i1, i2}
  DefaultItem = default
  Freed = freed
  MinCapacity = 1
  MaxItems = 4
  Outside = TRUE
  Docs = {da, db}
  URIs = {u1}
  Plugins = {p1}
  BuiltIn = builtin
  WholeDOM = wholedom
  NoDoc = nodoc
  NoURI = nouri
  MaxCalls = 2
  Members = {m1, m2, m3}
  Files = {f1}
  Addresses = {a1, a2}
  Relatives = {relative}
  Absolutes = {absolute}
  NoBase = nobase
  Nowhere = nowhere
  MaxCached = 3
  Hosts = {h1, h2}
  collada = collada
  math = math
  Schemas = {collada, math}
  Namespaces = {"collada", "math"}
  NamespaceOf <- MCNamespaceOf
  AnySchema = anyschema
  NoSchema = noschema
  MaxEntries = 2
  MaxAsked = 2
SPECIFICATION PartsSpec
INVARIANTS
  PartsTypeOK
  Counted NeverDangling OnlyTreesLeak
  LargeStringsLive ReferencesCounted
  TagsNameTheirShare SidesHaveShares OneSlotEach
  DenseUntilDisturbed OrderedUntilDisturbed CursorRests GetFinds
  ReferencesResolve
  FindsByLevels AddressesResolve
  InsertionsSound
  RequestInForce HalfReadUnseen
  BasesResolve
  UsersBalance
PROPERTY CallsReturn
CHECK_DEADLOCK FALSE
