SPECIFICATION Spec
CONSTANTS
  Requests = {r1}
  Parents = {Company, p1}
  Files = {f1}
  Company = Company
  None = None
  Contract = Contract
  MaxUploads = 1
  Ops = {"new_json"}
  Faults = {"flush"}
SYMMETRY Symmetry
CHECK_DEADLOCK FALSE
PROPERTY ConflictIsAnswered
