SPECIFICATION QueueSpec
CONSTANTS
  Values = {1, 2, 3}
  SizeModulus = 5
  MaxLength = 4
INVARIANT NoDuplicates
