SPECIFICATION Spec
CONSTANTS
  Procs = {p1, p2}
  Ids = {u1}
  Objects = {o1}
  Parts = {1, 2, 3}
  MaxPart = 2
  Datas = {"x", ""}
  Empty = ""
  Puts <- PartPuts
  Lists <- PartLists
  Addrs = {1, 2, 3, 4}
  Failing = {}
  CanCrash = FALSE
  Nil = Nil
SYMMETRY Symmetry
INVARIANTS DeletedUploadsStayGone
