SPECIFICATION Spec
CONSTANTS
  t1 = t1  t2 = t2
  v1 = v1  v2 = v2
  s1 = s1  s2 = s2
  o1 = o1  o2 = o2
  Texts <- MCTexts
  Compiles <- MCCompiles
  Versions <- MCVersions
  Stems <- MCStems
  SafeStem <- MCSafeStem
  Releases <- MCReleases
  Operators <- MCOperators
  MaxTampers = 1
  OtherKey = OtherKey  TrustedKey = TrustedKey
  NoSig = NoSig  NoFile = NoFile  Garbage = Garbage  Unreadable = Unreadable
  NoVersion = NoVersion  NoBundle = NoBundle
INVARIANTS
  OnlyTrustedEnforced
  NeverDark
  StartsOrExplains
PROPERTIES
  InstallMakesLive
