\* Uploads of one content, two processes collecting, the logo and a challenge.
SPECIFICATION ContentsFairSpec
CONSTANTS
  Keys = {k1, k2}
  Bodies = {b1}
  Processes = {p1, p2}
  Lasting = {p1}
  Holders = {h1}
  Revisable = {h1}
  Logo = Logo
INVARIANTS
  ContentsTypeOK
  ReferencedIsStored
PROPERTIES
  QuarantineEnds
