\* Two requests at a time on a quotation, two orders and their invoices.
CONSTANTS
  Clients = {c1, c2}
  Quotations = {q1}
  Orders = {o1, o2}
  Invoices = {i1}
  None = None
  MaxLines = 2
  MaxNumber = 1
SPECIFICATION Spec
SYMMETRY Symmetry
\* Every document may have reached its last status.
CHECK_DEADLOCK FALSE
INVARIANTS
  AgreedTermsKept
  LookupStaysValid
  LawfulUnlessCrossed
PROPERTY IssuedIsFrozen
