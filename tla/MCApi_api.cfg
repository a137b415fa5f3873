\* One call of the convenience functions among two other users of the registry.
SPECIFICATION ApiSpec
CONSTANTS
  Byte = {0, 1}
  BlockSize = 2
  ChunkSize = 2
  CharOffset = 31
  Mod = 4
  Strong <- MCStrong
  Digest <- MCDigest
  Goroutine = {client, g1, g2}
  Name = {md5, custom}
  Algo = {builtin, slow}
  Stdlib <- SomeStdlib
  Default = md5
  MaxCalls <- CallBounds
  None = None
  Client = client
  Pairs <- SomePairs
  Widths = {1, 2}
  GOMAXPROCS = 2
  BuiltinMD5 = builtin
  HasFastSum = {builtin}
  Alien = Alien
  md5 = md5
  custom = custom
  g1 = g1
  MayCall <- SomeCalls
INVARIANTS
  DefaultRegistered
  RoundTripHolds
  UndisturbedFindsAll
PROPERTIES
  CallsReturn
