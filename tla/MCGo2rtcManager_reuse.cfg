SPECIFICATION Spec
CONSTANTS
  Kids = {k1, k2}
  Callers = {c1, c2}
  Others = {"external"}
  NoKid = NoKid
  NoCaller = NoCaller
SYMMETRY Symmetry
PROPERTIES ReuseIsUsable
