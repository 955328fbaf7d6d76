---- MODULE DemoProto ----
(***************************************************************************)
(* The protocol itself (pb/demo.proto), as the services written in the     *)
(* other languages know it: a field has its number, its JSON name, the     *)
(* name it is declared with, and its type.                                 *)
(***************************************************************************)
EXTENDS MessageFields

(* Messages *)

CartItem == <<Text(1, "productId", "product_id"), Int32(2, "quantity", "quantity")>>
AddItemRequest == <<Text(1, "userId", "user_id"), Nested(2, "item", "item", "CartItem")>>
EmptyCartRequest == <<Text(1, "userId", "user_id")>>
GetCartRequest == <<Text(1, "userId", "user_id")>>
Cart == <<Text(1, "userId", "user_id"), Many(2, "items", "items", "CartItem")>>
Empty == << >>
ListRecommendationsRequest == <<
    Text(1, "userId", "user_id"), Texts(2, "productIds", "product_ids")>>
ListRecommendationsResponse == <<Texts(1, "productIds", "product_ids")>>
Product == <<
    Text(1, "id", "id"), Text(2, "name", "name"), Text(3, "description", "description"),
    Text(4, "picture", "picture"), Nested(5, "priceUsd", "price_usd", "Money"),
    Texts(6, "categories", "categories")>>
ListProductsResponse == <<Many(1, "products", "products", "Product")>>
GetProductRequest == <<Text(1, "id", "id")>>
SearchProductsRequest == <<Text(1, "query", "query")>>
SearchProductsResponse == <<Many(1, "results", "results", "Product")>>
ProductReview == <<
    Text(1, "username", "username"), Text(2, "description", "description"),
    Text(3, "score", "score")>>
GetProductReviewsRequest == <<Text(1, "productId", "product_id")>>
GetProductReviewsResponse == <<Many(1, "productReviews", "product_reviews", "ProductReview")>>
GetAverageProductReviewScoreRequest == <<Text(1, "productId", "product_id")>>
GetAverageProductReviewScoreResponse == <<Text(1, "averageScore", "average_score")>>
AskProductAIAssistantRequest == <<
    Text(1, "productId", "product_id"), Text(2, "question", "question")>>
AskProductAIAssistantResponse == <<Text(1, "response", "response")>>
GetQuoteRequest == <<
    Nested(1, "address", "address", "Address"), Many(2, "items", "items", "CartItem")>>
GetQuoteResponse == <<Nested(1, "costUsd", "cost_usd", "Money")>>
ShipOrderRequest == <<
    Nested(1, "address", "address", "Address"), Many(2, "items", "items", "CartItem")>>
ShipOrderResponse == <<Text(1, "trackingId", "tracking_id")>>
Address == <<
    Text(1, "streetAddress", "street_address"), Text(2, "city", "city"), Text(3, "state", "state"),
    Text(4, "country", "country"), Text(5, "zipCode", "zip_code")>>
Money == <<
    Text(1, "currencyCode", "currency_code"), Int64(2, "units", "units"),
    Int32(3, "nanos", "nanos")>>
GetSupportedCurrenciesResponse == <<Texts(1, "currencyCodes", "currency_codes")>>
CurrencyConversionRequest == <<Nested(1, "from", "from", "Money"), Text(2, "toCode", "to_code")>>
CreditCardInfo == <<
    Text(1, "creditCardNumber", "credit_card_number"),
    Int32(2, "creditCardCvv", "credit_card_cvv"),
    Int32(3, "creditCardExpirationYear", "credit_card_expiration_year"),
    Int32(4, "creditCardExpirationMonth", "credit_card_expiration_month")>>
ChargeRequest == <<
    Nested(1, "amount", "amount", "Money"),
    Nested(2, "creditCard", "credit_card", "CreditCardInfo")>>
ChargeResponse == <<Text(1, "transactionId", "transaction_id")>>
OrderItem == <<Nested(1, "item", "item", "CartItem"), Nested(2, "cost", "cost", "Money")>>
OrderResult == <<
    Text(1, "orderId", "order_id"), Text(2, "shippingTrackingId", "shipping_tracking_id"),
    Nested(3, "shippingCost", "shipping_cost", "Money"),
    Nested(4, "shippingAddress", "shipping_address", "Address"),
    Many(5, "items", "items", "OrderItem")>>
SendOrderConfirmationRequest == <<
    Text(1, "email", "email"), Nested(2, "order", "order", "OrderResult")>>
PlaceOrderRequest == <<
    Text(1, "userId", "user_id"), Text(2, "userCurrency", "user_currency"),
    Nested(3, "address", "address", "Address"), Text(5, "email", "email"),
    Nested(6, "creditCard", "credit_card", "CreditCardInfo")>>
PlaceOrderResponse == <<Nested(1, "order", "order", "OrderResult")>>
AdRequest == <<Texts(1, "contextKeys", "context_keys")>>
AdResponse == <<Many(1, "ads", "ads", "Ad")>>
Ad == <<Text(1, "redirectUrl", "redirect_url"), Text(2, "text", "text")>>
Flag == <<
    Text(1, "name", "name"), Text(2, "description", "description"), Bool(3, "enabled", "enabled")>>
GetFlagRequest == <<Text(1, "name", "name")>>
GetFlagResponse == <<Nested(1, "flag", "flag", "Flag")>>
CreateFlagRequest == <<
    Text(1, "name", "name"), Text(2, "description", "description"), Bool(3, "enabled", "enabled")>>
CreateFlagResponse == <<Nested(1, "flag", "flag", "Flag")>>
UpdateFlagRequest == <<Text(1, "name", "name"), Bool(2, "enabled", "enabled")>>
UpdateFlagResponse == << >>
ListFlagsRequest == << >>
ListFlagsResponse == <<Many(1, "flag", "flag", "Flag")>>
DeleteFlagRequest == <<Text(1, "name", "name")>>
DeleteFlagResponse == << >>

Messages == [
    CartItem |-> CartItem, AddItemRequest |-> AddItemRequest,
    EmptyCartRequest |-> EmptyCartRequest, GetCartRequest |-> GetCartRequest, Cart |-> Cart,
    Empty |-> Empty, ListRecommendationsRequest |-> ListRecommendationsRequest,
    ListRecommendationsResponse |-> ListRecommendationsResponse, Product |-> Product,
    ListProductsResponse |-> ListProductsResponse, GetProductRequest |-> GetProductRequest,
    SearchProductsRequest |-> SearchProductsRequest,
    SearchProductsResponse |-> SearchProductsResponse, ProductReview |-> ProductReview,
    GetProductReviewsRequest |-> GetProductReviewsRequest,
    GetProductReviewsResponse |-> GetProductReviewsResponse,
    GetAverageProductReviewScoreRequest |-> GetAverageProductReviewScoreRequest,
    GetAverageProductReviewScoreResponse |-> GetAverageProductReviewScoreResponse,
    AskProductAIAssistantRequest |-> AskProductAIAssistantRequest,
    AskProductAIAssistantResponse |-> AskProductAIAssistantResponse,
    GetQuoteRequest |-> GetQuoteRequest, GetQuoteResponse |-> GetQuoteResponse,
    ShipOrderRequest |-> ShipOrderRequest, ShipOrderResponse |-> ShipOrderResponse,
    Address |-> Address, Money |-> Money,
    GetSupportedCurrenciesResponse |-> GetSupportedCurrenciesResponse,
    CurrencyConversionRequest |-> CurrencyConversionRequest, CreditCardInfo |-> CreditCardInfo,
    ChargeRequest |-> ChargeRequest, ChargeResponse |-> ChargeResponse, OrderItem |-> OrderItem,
    OrderResult |-> OrderResult, SendOrderConfirmationRequest |-> SendOrderConfirmationRequest,
    PlaceOrderRequest |-> PlaceOrderRequest, PlaceOrderResponse |-> PlaceOrderResponse,
    AdRequest |-> AdRequest, AdResponse |-> AdResponse, Ad |-> Ad, Flag |-> Flag,
    GetFlagRequest |-> GetFlagRequest, GetFlagResponse |-> GetFlagResponse,
    CreateFlagRequest |-> CreateFlagRequest, CreateFlagResponse |-> CreateFlagResponse,
    UpdateFlagRequest |-> UpdateFlagRequest, UpdateFlagResponse |-> UpdateFlagResponse,
    ListFlagsRequest |-> ListFlagsRequest, ListFlagsResponse |-> ListFlagsResponse,
    DeleteFlagRequest |-> DeleteFlagRequest, DeleteFlagResponse |-> DeleteFlagResponse]

(* Services *)

CartService == [
    addItem |-> Method("CartService", "AddItem", "AddItemRequest", "Empty"),
    getCart |-> Method("CartService", "GetCart", "GetCartRequest", "Cart"),
    emptyCart |-> Method("CartService", "EmptyCart", "EmptyCartRequest", "Empty")]
RecommendationService == [
    listRecommendations |->
        Method("RecommendationService", "ListRecommendations",
               "ListRecommendationsRequest", "ListRecommendationsResponse")]
ProductCatalogService == [
    listProducts |->
        Method("ProductCatalogService", "ListProducts", "Empty", "ListProductsResponse"),
    getProduct |-> Method("ProductCatalogService", "GetProduct", "GetProductRequest", "Product"),
    searchProducts |->
        Method("ProductCatalogService", "SearchProducts",
               "SearchProductsRequest", "SearchProductsResponse")]
ProductReviewService == [
    getProductReviews |->
        Method("ProductReviewService", "GetProductReviews",
               "GetProductReviewsRequest", "GetProductReviewsResponse"),
    getAverageProductReviewScore |->
        Method("ProductReviewService", "GetAverageProductReviewScore",
               "GetAverageProductReviewScoreRequest", "GetAverageProductReviewScoreResponse"),
    askProductAIAssistant |->
        Method("ProductReviewService", "AskProductAIAssistant",
               "AskProductAIAssistantRequest", "AskProductAIAssistantResponse")]
ShippingService == [
    getQuote |-> Method("ShippingService", "GetQuote", "GetQuoteRequest", "GetQuoteResponse"),
    shipOrder |-> Method("ShippingService", "ShipOrder", "ShipOrderRequest", "ShipOrderResponse")]
CurrencyService == [
    getSupportedCurrencies |->
        Method("CurrencyService", "GetSupportedCurrencies",
               "Empty", "GetSupportedCurrenciesResponse"),
    convert |-> Method("CurrencyService", "Convert", "CurrencyConversionRequest", "Money")]
PaymentService == [
    charge |-> Method("PaymentService", "Charge", "ChargeRequest", "ChargeResponse")]
EmailService == [
    sendOrderConfirmation |->
        Method("EmailService", "SendOrderConfirmation", "SendOrderConfirmationRequest", "Empty")]
CheckoutService == [
    placeOrder |->
        Method("CheckoutService", "PlaceOrder", "PlaceOrderRequest", "PlaceOrderResponse")]
AdService == [
    getAds |-> Method("AdService", "GetAds", "AdRequest", "AdResponse")]
FeatureFlagService == [
    getFlag |-> Method("FeatureFlagService", "GetFlag", "GetFlagRequest", "GetFlagResponse"),
    createFlag |->
        Method("FeatureFlagService", "CreateFlag", "CreateFlagRequest", "CreateFlagResponse"),
    updateFlag |->
        Method("FeatureFlagService", "UpdateFlag", "UpdateFlagRequest", "UpdateFlagResponse"),
    listFlags |->
        Method("FeatureFlagService", "ListFlags", "ListFlagsRequest", "ListFlagsResponse"),
    deleteFlag |->
        Method("FeatureFlagService", "DeleteFlag", "DeleteFlagRequest", "DeleteFlagResponse")]

Services == [
    CartService |-> CartService, RecommendationService |-> RecommendationService,
    ProductCatalogService |-> ProductCatalogService, ProductReviewService |-> ProductReviewService,
    ShippingService |-> ShippingService, CurrencyService |-> CurrencyService,
    PaymentService |-> PaymentService, EmailService |-> EmailService,
    CheckoutService |-> CheckoutService, AdService |-> AdService,
    FeatureFlagService |-> FeatureFlagService]

====
