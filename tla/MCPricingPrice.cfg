SPECIFICATION MCSpec
CONSTANTS
  NanoDigits = 2
  NanosMod = 100
  Int32Half = 215
  NoCode = NoCode
  USD = USD
  GBP = GBP
  JPY = JPY
  UserCurrency = USD
  CurrencyCodes = {USD, GBP, JPY, XXX, NoCode}
  ShippingCosts <- MCShippingCosts
  ItemCosts <- MCItemCosts
  MaxLines = 2
  MaxQuantity = 4
  Samples <- MCSamples
  Rates <- MCRates
  Prices <- MCPrices
  Quantities = {1, 2, 29}
  CostPerItem = 899
  MaxPieces = 300
  NoPage = NoPage
  NoOrder = NoOrder
INVARIANTS
  OrderCostIsPrice
CHECK_DEADLOCK FALSE
