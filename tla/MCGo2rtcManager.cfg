SPECIFICATION FairSpec
CONSTANTS
  Kids = {k1, k2}
  Callers = {c1, c2, c3}
  Others = {"external", "foreign"}
  NoKid = NoKid
  NoCaller = NoCaller
INVARIANTS NoLeakedChild SingleChild
PROPERTIES StartIsExclusive AdoptsOnlyOthers CallsReturn StoppedLeavesNoConfig
