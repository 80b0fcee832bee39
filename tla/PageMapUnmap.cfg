\* A program unmaps an address that has a page table but no page.
SPECIFICATION Spec
CONSTANTS
  Page = {p0, p1, p2, p3, p4}
  Zero = p0
  NoPage = none
  Env = {e0}
  First = e0
  NoEnv = nobody
  PDX = {d0}
  PTX = {t0, t1}
  RefMod = 16
  Misuse = {"unmap_unmapped"}
SYMMETRY Symmetry
CHECK_DEADLOCK FALSE
INVARIANT ZeroInUse
