---- MODULE AppMessages ----
(***************************************************************************)
(* The messages and services of the mobile app's generated codec           *)
(* (src/react-native-app/protos/demo.ts).  It was generated before the     *)
(* product reviews were added and by an older generator, whose fromJSON    *)
(* reads the camel-case key only: there the alias of a field is its name.  *)
(***************************************************************************)
EXTENDS MessageFields

(* Messages *)

CartItem == <<Text(1, "productId", "productId"), Int32(2, "quantity", "quantity")>>
AddItemRequest == <<Text(1, "userId", "userId"), Nested(2, "item", "item", "CartItem")>>
EmptyCartRequest == <<Text(1, "userId", "userId")>>
GetCartRequest == <<Text(1, "userId", "userId")>>
Cart == <<Text(1, "userId", "userId"), Many(2, "items", "items", "CartItem")>>
Empty == << >>
ListRecommendationsRequest == <<Text(1, "userId", "userId"), Texts(2, "productIds", "productIds")>>
ListRecommendationsResponse == <<Texts(1, "productIds", "productIds")>>
Product == <<
    Text(1, "id", "id"), Text(2, "name", "name"), Text(3, "description", "description"),
    Text(4, "picture", "picture"), Nested(5, "priceUsd", "priceUsd", "Money"),
    Texts(6, "categories", "categories")>>
ListProductsResponse == <<Many(1, "products", "products", "Product")>>
GetProductRequest == <<Text(1, "id", "id")>>
SearchProductsRequest == <<Text(1, "query", "query")>>
SearchProductsResponse == <<Many(1, "results", "results", "Product")>>
GetQuoteRequest == <<
    Nested(1, "address", "address", "Address"), Many(2, "items", "items", "CartItem")>>
GetQuoteResponse == <<Nested(1, "costUsd", "costUsd", "Money")>>
ShipOrderRequest == <<
    Nested(1, "address", "address", "Address"), Many(2, "items", "items", "CartItem")>>
ShipOrderResponse == <<Text(1, "trackingId", "trackingId")>>
Address == <<
    Text(1, "streetAddress", "streetAddress"), Text(2, "city", "city"), Text(3, "state", "state"),
    Text(4, "country", "country"), Text(5, "zipCode", "zipCode")>>
Money == <<
    Text(1, "currencyCode", "currencyCode"), Int64(2, "units", "units"),
    Int32(3, "nanos", "nanos")>>
GetSupportedCurrenciesResponse == <<Texts(1, "currencyCodes", "currencyCodes")>>
CurrencyConversionRequest == <<Nested(1, "from", "from", "Money"), Text(2, "toCode", "toCode")>>
CreditCardInfo == <<
    Text(1, "creditCardNumber", "creditCardNumber"), Int32(2, "creditCardCvv", "creditCardCvv"),
    Int32(3, "creditCardExpirationYear", "creditCardExpirationYear"),
    Int32(4, "creditCardExpirationMonth", "creditCardExpirationMonth")>>
ChargeRequest == <<
    Nested(1, "amount", "amount", "Money"),
    Nested(2, "creditCard", "creditCard", "CreditCardInfo")>>
ChargeResponse == <<Text(1, "transactionId", "transactionId")>>
OrderItem == <<Nested(1, "item", "item", "CartItem"), Nested(2, "cost", "cost", "Money")>>
OrderResult == <<
    Text(1, "orderId", "orderId"), Text(2, "shippingTrackingId", "shippingTrackingId"),
    Nested(3, "shippingCost", "shippingCost", "Money"),
    Nested(4, "shippingAddress", "shippingAddress", "Address"),
    Many(5, "items", "items", "OrderItem")>>
SendOrderConfirmationRequest == <<
    Text(1, "email", "email"), Nested(2, "order", "order", "OrderResult")>>
PlaceOrderRequest == <<
    Text(1, "userId", "userId"), Text(2, "userCurrency", "userCurrency"),
    Nested(3, "address", "address", "Address"), Text(5, "email", "email"),
    Nested(6, "creditCard", "creditCard", "CreditCardInfo")>>
PlaceOrderResponse == <<Nested(1, "order", "order", "OrderResult")>>
AdRequest == <<Texts(1, "contextKeys", "contextKeys")>>
AdResponse == <<Many(1, "ads", "ads", "Ad")>>
Ad == <<Text(1, "redirectUrl", "redirectUrl"), Text(2, "text", "text")>>
Flag == <<
    Text(1, "name", "name"), Text(2, "description", "description"), Bool(3, "enabled", "enabled")>>
GetFlagRequest == <<Text(1, "name", "name")>>
GetFlagResponse == <<Nested(1, "flag", "flag", "Flag")>>
CreateFlagRequest == <<
    Text(1, "name", "name"), Text(2, "description", "description"), Bool(3, "enabled", "enabled")>>
CreateFlagResponse == <<Nested(1, "flag", "flag", "Flag")>>
UpdateFlagRequest == <<Text(1, "name", "name"), Bool(2, "enabled", "enabled")>>
UpdateFlagResponse == << >>
ListFlagsRequest == << >>
ListFlagsResponse == <<Many(1, "flag", "flag", "Flag")>>
DeleteFlagRequest == <<Text(1, "name", "name")>>
DeleteFlagResponse == << >>

Messages == [
    CartItem |-> CartItem, AddItemRequest |-> AddItemRequest,
    EmptyCartRequest |-> EmptyCartRequest, GetCartRequest |-> GetCartRequest, Cart |-> Cart,
    Empty |-> Empty, ListRecommendationsRequest |-> ListRecommendationsRequest,
    ListRecommendationsResponse |-> ListRecommendationsResponse, Product |-> Product,
    ListProductsResponse |-> ListProductsResponse, GetProductRequest |-> GetProductRequest,
    SearchProductsRequest |-> SearchProductsRequest,
    SearchProductsResponse |-> SearchProductsResponse, GetQuoteRequest |-> GetQuoteRequest,
    GetQuoteResponse |-> GetQuoteResponse, ShipOrderRequest |-> ShipOrderRequest,
    ShipOrderResponse |-> ShipOrderResponse, Address |-> Address, Money |-> Money,
    GetSupportedCurrenciesResponse |-> GetSupportedCurrenciesResponse,
    CurrencyConversionRequest |-> CurrencyConversionRequest, CreditCardInfo |-> CreditCardInfo,
    ChargeRequest |-> ChargeRequest, ChargeResponse |-> ChargeResponse, OrderItem |-> OrderItem,
    OrderResult |-> OrderResult, SendOrderConfirmationRequest |-> SendOrderConfirmationRequest,
    PlaceOrderRequest |-> PlaceOrderRequest, PlaceOrderResponse |-> PlaceOrderResponse,
    AdRequest |-> AdRequest, AdResponse |-> AdResponse, Ad |-> Ad, Flag |-> Flag,
    GetFlagRequest |-> GetFlagRequest, GetFlagResponse |-> GetFlagResponse,
    CreateFlagRequest |-> CreateFlagRequest, CreateFlagResponse |-> CreateFlagResponse,
    UpdateFlagRequest |-> UpdateFlagRequest, UpdateFlagResponse |-> UpdateFlagResponse,
    ListFlagsRequest |-> ListFlagsRequest, ListFlagsResponse |-> ListFlagsResponse,
    DeleteFlagRequest |-> DeleteFlagRequest, DeleteFlagResponse |-> DeleteFlagResponse]

(* Services *)

CartService == [
    addItem |-> Method("CartService", "AddItem", "AddItemRequest", "Empty"),
    getCart |-> Method("CartService", "GetCart", "GetCartRequest", "Cart"),
    emptyCart |-> Method("CartService", "EmptyCart", "EmptyCartRequest", "Empty")]
RecommendationService == [
    listRecommendations |->
        Method("RecommendationService", "ListRecommendations",
               "ListRecommendationsRequest", "ListRecommendationsResponse")]
ProductCatalogService == [
    listProducts |->
        Method("ProductCatalogService", "ListProducts", "Empty", "ListProductsResponse"),
    getProduct |-> Method("ProductCatalogService", "GetProduct", "GetProductRequest", "Product"),
    searchProducts |->
        Method("ProductCatalogService", "SearchProducts",
               "SearchProductsRequest", "SearchProductsResponse")]
ShippingService == [
    getQuote |-> Method("ShippingService", "GetQuote", "GetQuoteRequest", "GetQuoteResponse"),
    shipOrder |-> Method("ShippingService", "ShipOrder", "ShipOrderRequest", "ShipOrderResponse")]
CurrencyService == [
    getSupportedCurrencies |->
        Method("CurrencyService", "GetSupportedCurrencies",
               "Empty", "GetSupportedCurrenciesResponse"),
    convert |-> Method("CurrencyService", "Convert", "CurrencyConversionRequest", "Money")]
PaymentService == [
    charge |-> Method("PaymentService", "Charge", "ChargeRequest", "ChargeResponse")]
EmailService == [
    sendOrderConfirmation |->
        Method("EmailService", "SendOrderConfirmation", "SendOrderConfirmationRequest", "Empty")]
CheckoutService == [
    placeOrder |->
        Method("CheckoutService", "PlaceOrder", "PlaceOrderRequest", "PlaceOrderResponse")]
AdService == [
    getAds |-> Method("AdService", "GetAds", "AdRequest", "AdResponse")]
FeatureFlagService == [
    getFlag |-> Method("FeatureFlagService", "GetFlag", "GetFlagRequest", "GetFlagResponse"),
    createFlag |->
        Method("FeatureFlagService", "CreateFlag", "CreateFlagRequest", "CreateFlagResponse"),
    updateFlag |->
        Method("FeatureFlagService", "UpdateFlag", "UpdateFlagRequest", "UpdateFlagResponse"),
    listFlags |->
        Method("FeatureFlagService", "ListFlags", "ListFlagsRequest", "ListFlagsResponse"),
    deleteFlag |->
        Method("FeatureFlagService", "DeleteFlag", "DeleteFlagRequest", "DeleteFlagResponse")]

Services == [
    CartService |-> CartService, RecommendationService |-> RecommendationService,
    ProductCatalogService |-> ProductCatalogService, ShippingService |-> ShippingService,
    CurrencyService |-> CurrencyService, PaymentService |-> PaymentService,
    EmailService |-> EmailService, CheckoutService |-> CheckoutService, AdService |-> AdService,
    FeatureFlagService |-> FeatureFlagService]

====
