SPECIFICATION MCSpec
CONSTANTS
  Projects = {p1, p2}
  Owners = {o}
  Managers = {m}
  Workers = {w}
  Requests = {r1, r2}
  Kinds = {"projects", "manager", "incidents"}
SYMMETRY Symmetry
PROPERTY NeglectHasCause
