CONSTANTS
  None = None
  o1 = o1
  o2 = o2
  f1 = f1
  f2 = f2
  f3 = f3
  a1 = a1
  a2 = a2
  a3 = a3
  Orders = {o1, o2}
  FillIds = {f1, f2, f3}
  OrderOf <- TwoOrders
  Auctions = {a1, a3}
  AuctionOf <- EachAuction
  Amount <- Amounts
  AcceptBy <- Zero
  Deadline <- Zero
  RefundableAt <- Refundable
  Inventory = 2
  MaxTime = 3
  MaxFaults = 1
  MaxCrashes = 1
SPECIFICATION Spec
CHECK_DEADLOCK FALSE
INVARIANTS OneFillPerOrder AcceptanceOnDisk InventoryCovers PaidIsFollowed
SYMMETRY Sym
