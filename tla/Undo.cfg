\* One scalar, two owning variables (aliasing needs two), three addresses:
\* the objects of both variables and of a token.
CONSTANTS
  Scalars = {s}
  Owners = {a, b}
  Values = {0, 1}
  Objects = {o1, o2, o3}
  Nil = Nil
  Freed = Freed
  NoPop = NoPop
  MaxPc = 2
  MaxLog = 3
  MaxStk = 2
SPECIFICATION Spec
SYMMETRY Symmetry
INVARIANTS RuboutRestores OneOwner NoLeak
