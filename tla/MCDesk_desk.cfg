SPECIFICATION Spec
CONSTANTS
  t1 = t1
  anna = anna
  ravi = ravi
  meera = meera
  clear = clear
  refund = refund
  pan = pan
  brief = brief
  wins = wins
  evening = evening
  below = below
  hindi = hindi
  store = store
  tally = tally
  stock = stock
  call = call
  policy = policy
  prices = prices
  mine = mine
  main = main
  nobody = nobody
  Tenants <- OneTenant
  Typed <- WhatIsTyped
  Shipped <- WhatShips
  Conns <- TwoConns
  ConnDefs <- StartsOn
  Props <- OneProp
  Tools <- OneTool
  FileNames <- TwoFiles
  ShippedFiles <- OnTheShelf
  Folders <- OneFolder
  Files = main
  Nobody = nobody
  YourStore = store
  MaxPages = 1
  MaxAsks = 3
  MaxRestarts = 1
INVARIANTS TypeOK OldFormsNameTheirRow TrailTellsTheSettings    ButtonsAreTaken
CHECK_DEADLOCK FALSE
