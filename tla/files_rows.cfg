SPECIFICATION Spec
CONSTANTS
  Requests = {r1, r2}
  Parents = {Company, p1, p2}
  Files = {f1, f2, f3}
  Company = Company
  None = None
  Contract = Contract
  MaxUploads = 2
  Ops = {"upload", "contract", "delete_file", "delete_purchase", "delete_json", "new_sale", "new_json", "logo", "no_logo"}
  Faults = {"flush", "raise", "commit", "crash"}
SYMMETRY Symmetry
CHECK_DEADLOCK FALSE
INVARIANT TypeOK
PROPERTIES RowKeepsFile LeavesNoOrphan ErrorPublishesNothing
