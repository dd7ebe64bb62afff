SPECIFICATION AlgorithmsSpec
CONSTANTS
  Dot = Dot
  Plus = Plus
  NoAnswer = NoAnswer
  Inf = 1000
  NoRtt = NoRtt
  Width = 3
  NoRule = NoRule
  NoEch = NoEch
  MinimumSize = 8
  ModuloSize = 4
  Marker = Marker
  Zero = Zero
  NoCert = NoCert
  Char <- MCChar
  TagCases <- MCTagCases
  ConfigCases <- MCConfigCases
  Modules <- MCModules
  Shipped <- MCShipped
  Registers <- MCRegisters
  PluginCases <- MCPluginCases
  V4 <- MCV4
  SpeedCases <- MCSpeedCases
  ReplaceCases <- MCReplaceCases
  SectionCases <- MCSectionCases
  RedirectCases <- MCRedirectCases
  StaticCases <- MCStaticCases
  HttpsCases <- MCHttpsCases
  Byte <- MCByte
  Messages <- MCMessages
  Writes <- MCWrites
  CertCases <- MCCertCases
INVARIANTS TagsFollowLabels ConfigsWork FastestAreChosen RewritesCanBeSent ReplacedTwiceStaysInside HttpsRecordsStayUsable ServerGetsTheQuery
