\* A program allocates a page for an environment that does not exist.
SPECIFICATION Spec
CONSTANTS
  Page = {p0, p1, p2, p3, p4}
  Zero = p0
  NoPage = none
  Env = {e0, e1}
  First = e0
  NoEnv = nobody
  PDX = {d0}
  PTX = {t0, t1}
  RefMod = 16
  Misuse = {"alloc_bad_env"}
SYMMETRY Symmetry
CHECK_DEADLOCK FALSE
INVARIANT FreePagesExact
