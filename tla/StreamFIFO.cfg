SPECIFICATION Spec
CONSTANTS
  length = 7
  delay = 3
  Amounts = {1, 2, 5}
  CopyOrders = {"ascending"}
  MaxSamples = 15
INVARIANT ReadsInOrder
