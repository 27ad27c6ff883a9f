SPECIFICATION Spec
CONSTANTS
  Keys = {A, B}
  A = A
  B = B
  Owner = A
  Requests = {1, 2, 3}
  Length = 2
  MaxBytes = 3
  Scenarios = {{"crash", "disk"}, {"sweep"}, {"full"}}

  
  
  
PROPERTY
  TailEnds
