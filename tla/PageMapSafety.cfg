\* Two environments with room for two page tables each; memory can run out.
SPECIFICATION Spec
CONSTANTS
  Page = {p0, p1, p2, p3, p4, p5, p6}
  Zero = p0
  NoPage = none
  Env = {e0, e1}
  First = e0
  NoEnv = nobody
  PDX = {d0, d1}
  PTX = {t0, t1}
  RefMod = 16
  Misuse = {}
SYMMETRY Symmetry
CHECK_DEADLOCK FALSE
INVARIANTS TypeOK RefCounts FreePagesExact TablesAreOwn ZeroInUse
