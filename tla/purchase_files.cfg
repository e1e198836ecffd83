SPECIFICATION Spec
CONSTANTS
  Requests = {r1}
  Parents = {Company, p1}
  Files = {f1, f2}
  Company = Company
  None = None
  Contract = Contract
  MaxUploads = 2
  Ops = {"upload", "delete_purchase", "new_json"}
  Faults = {"flush"}
SYMMETRY Symmetry
CHECK_DEADLOCK FALSE
INVARIANT RollbackKeepsFiles
