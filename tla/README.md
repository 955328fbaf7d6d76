# TLA+ models of the OpenTelemetry demo shop

The repository is the OpenTelemetry demo: a web shop of some twenty small services in a dozen
languages, wired together by gRPC, HTTP, a Kafka topic, Valkey and PostgreSQL, with feature flags
that break them on purpose. Most of the services are stateless or only emit telemetry. What can go
wrong in ways a test would hardly reach is in the path of an order: the page that shows a cart while
it changes; the cart that is read, changed and written back; the messages in between; the money that
is added up; the sequence of calls that charges, ships, empties and publishes; the topic that feeds
the accounts; and the prices that are computed twice. That path is what is modelled here, with two
neighbours that have a concurrency of their own: the flag editor and the load workers of the ad
service. Paths below are relative to the repository.

## 1. Inventory

| component | state | operations | hard because | correct when |
|---|---|---|---|---|
| checkout money (`src/checkout/money`) | none | `Sum`, `Negate`, `MultiplySlow`, `Must`, predicates | carries, borrows, int32; `Must` panics | sums are exact, no order panics |
| checkout (`src/checkout/main.go`) | orders in flight, a producer or nil | `PlaceOrder` and its calls | a saga without compensation, timeouts or recovery; concurrent orders; cancellation | goods, payment, confirmation and accounts agree |
| order producer (`sendToPostProcessor`, `src/checkout/kafka`) | sarama's channels, waiting goroutines | send, take a response, give up, overload, drain | responses are not matched to senders | nobody waits for ever but for drained errors |
| cart (`src/cart`) | a blob per user in Valkey, with a TTL | `AddItem`, `EmptyCart`, `GetCart` | read-modify-write, two commands per write, failures, expiry | carts are tidy, forgotten in the end, atomic to a sequential client |
| accounting (`src/accounting`) | offsets, orders in PostgreSQL | consume, auto commit, save | commit before the save, swallowed exceptions | only faults lose orders |
| fraud detection (`src/fraud-detection`) | offsets | poll, commit, count | starts at the latest offset, commits at a later poll, is expelled when it is slow | counts what came after it started |
| currency (`src/currency`) | a table of rates, shared and unlocked | `Convert`, `GetSupportedCurrencies` | `operator[]` inserts; doubles; digits | conversions are what they say |
| shipping and quote (`src/shipping`, `src/quote`) | none | `get_quote`, `calculateQuote`, `ship_order` | a double is split into dollars and cents | the quote in cents |
| frontend and mobile app: cart, session and requests | TanStack queries, a stored session, requests under way | add, empty, order, select a currency, load, a second tab | overlapping and failing requests, invalidation against refetch, module-level user ids | what was confirmed is shown, and an order is for what is shown |
| frontend: product page | the panel of the assistant, reviews | ask, go on to another product, percentages | late answers; rounding to a hundred | the answer fits the question |
| frontend: prices and totals | what the page shows | `getProductPrice`, totals | computed a second time | what is shown is what is charged |
| frontend and mobile app: generated codecs (`protos/demo.ts`) | none | encode, decode, fromJSON, toJSON, fromPartial | newer peers, 64-bit integers, defaults | messages arrive as they were sent |
| flag editor (`src/flagd-ui`) | a GenServer's document and its file | read, replace, write one flag | casts, restarts, stale editors, torn files | memory is the file; no change is undone |
| ads (`src/ad`) | a singleton with load workers | `getAds`, `CPULoad.execute` | unlocked flag and singleton | the workers follow the flag |
| payment (`src/payment`) | none | `charge` | fails by flag | a charge or an error |
| email (`src/email`) | deliveries kept by a flag | `send_order_confirmation` | grows by flag | a confirmation per call |
| recommendation (`src/recommendation`) | a global list of ids | `ListRecommendations` | a cache that its own miss never fills | five products of the catalog |
| product catalog, product reviews, llm | none, but a database | queries; a two-round tool protocol | errors by flag; an average of nothing | answers or errors |
| load generator | a client | the same API | - | - |
| infrastructure (Envoy, image provider, collectors, flagd, Kafka, Valkey, PostgreSQL), build tooling, other generated code | configuration | - | - | - |

How they interact: the frontend, and the mobile app through it, calls cart, catalog, currency,
shipping, recommendations, ads, reviews and checkout; checkout calls cart, catalog, shipping (which
calls quote), currency, payment and email, and publishes an `OrderResult` to the topic `orders`;
accounting and fraud detection consume it. Nearly every service reads flags from flagd, whose file
the flag editor writes.

## 2. Modules

| module | models | instantiated by |
|---|---|---|
| `Money` | amounts, predicates, `Sum`, `Negate` (`money.go`) | everything about money |
| `OrderTotal` | the additions of `PlaceOrder` and `MultiplySlow`, one action per call of `Sum`, `Must` panicking | `MCAmounts` |
| `MoneyPairs` | `Sum` on pairs of amounts, exchanged by the one action | `MCAmounts` |
| `Currency` | the table, `getDouble`, `getUnitsAndNanos`, `Convert` | `Pricing` |
| `ShippingQuote` | `calculateQuote` and `create_quote_from_float`, exact in doubles | `Pricing` |
| `Pricing` | composes `Currency`, `ShippingQuote`, `Money` and the ways to a price and a total | `MCAmounts` |
| `ShoppingCart` | abstract: a cart every call changes in one step, at most once | `MCValkeyCart` |
| `ValkeyCartStore` | `CartService.cs` over `ValkeyCartStore.cs`, one action per Valkey command | `MCValkeyCart` |
| `Order` | abstract: paid, sent, told | `Checkout` |
| `Checkout` | `PlaceOrder` call by call over the services it calls, and the AddItems of the shopper beside it | `MCCheckout` |
| `OrderProducer` | `sendToPostProcessor`, overload goroutines, error drain, over sarama's channels | `FraudDetection` |
| `FraudDetection` | the poll loop of `main.kt` over the topic | `OrderTopic` |
| `OrderTopic` | composes producer, accounting consumer and fraud detection | `MCOrderTopic` |
| `FlagStorage` | the `Storage` process, editors, dashboards and the REST API | `MCFlagStorage` |
| `CpuLoad` | `CPULoad.java` under the requests of `AdService.java` | `MCCpuLoad` |
| `Storefront` | the page and its cart, in the browser, with a second tab, or in the app | `MCStorefront` |
| `ProductPage` | the assistant's panel and the figures of the reviews | `MCStorefront` |
| `MessageFields`, `FrontendMessages`, `AppMessages`, `DemoProto` | the messages and methods of both generated codecs and of `pb/demo.proto` | `Wire` |
| `Codec` | what the generated code does for every message | `Wire` |
| `Wire` | a unary call between generated code and a service that may be newer | `MCWire` |
| `MoneyProofs`, `ValkeyCartProofs`, `CheckoutProofs`, `StorefrontProofs` (with `ProductPage`), `FlagProofs` (`FlagStorage` and `CpuLoad`), `OrderTopicProofs`, `WireProofs` | theorems and their proofs | - |
| `SumTheorems` | induction over finite sets and natural numbers, and sums over a finite set | the proof modules |

`PROJECT.json` maps every definition to the lines it stands for. Operators defined next to the one
they replace and commented "Mutant" are bugs the properties are measured against; nothing else uses
them.

### How state and actions correspond to the code

**Money.** An amount is a record of units, nanos and code. `NanosMod` is 10^9 and `Int32Half` 2^31 in
the code; both are constants so that the runs can shrink them together (10 and 21, or 100 and 215),
with the one relation that matters as an assumption: two legal nanos add without overflow. Units are
int64 in the code and never near its limits; they are unbounded here. `Sum` returns the Go pair as a
record of `err` and `money`.

**OrderTotal.** `total`, `out`, `n` and `idx` are the code's variables; every `Must(Sum(...))` is a
step which ends in `"panic"` when `Sum` refuses. The assumptions on the costs (a shipping cost of one
unit, an item of half a unit) come from the quote of 8.99 per piece, the cheapest product (0.99 USD)
and the table of rates; without them two amounts below a unit can add up to an amount that the next
`Sum` refuses, which is the case `OnlyNanosLeft` of `MoneyPairs` names.

**ValkeyCartStore and MCValkeyCart.** `store[u]` is the hash field `cart` under the key `u`, `ttl` the keys with an
expiry. Each request has a `pc` that names its next command and `seen`, the cart it read. `WriteItem`
replaces whatever is stored by the cart read earlier. A command whose reply is lost takes effect and
the call ends in `"error"`; `Fail` covers every exception before a command, including the store at
`badhost` that the flag `cartFailure` uses; `Restart` ends all calls. `since`, `raced` and `tainted`
are history: what was added since the last emptying, and which calls held a cart across it.
`MCValkeyCart` adds the kind of client (`sequential`): one whose calls never overlap on a cart, for
whom the store implements `ShoppingCart`, or clients whose calls overlap on the cart of `Rival`.

**Checkout.** `pc[o]` names the next remote call. A call is answered (`Answered`, with its effect at
the service), or it fails for the caller (`Failed`): then the effect may be in `late` and happen at
any time afterwards (`ArriveLate`). `AfterFailure` is the error handling: `Internal` before and at the
charge, `Unavailable` at the shipment, and none for `EmptyCart` and the confirmation. `Cancel` ends
the context. `Panic` is the call of a nil producer, `Kill` a signal; both go through `Die`, after
which `NewProducer` may or may not exist. An empty cart stops at `Prepare` because the shipping
service answers 400 to `"items": null`. Beside the orders the shopper works on her cart: an `AddItem`
reads it into `holding` (`HashGet`) and writes it back with the item (`HashSet`), over whatever another
handler or an order has made of it meanwhile, or fails (`AddItemFails`); `ClearCart` is her own
`EmptyCart`; and since sixty minutes may pass between any two steps, a cart may `Expire` at any time.
The two commands of a write are one step here: the time to live is `ValkeyCartStore`'s subject.
`added`, `grown`, `emptied`, `missed`, `undone`, `overtaken` and `overlapped` are history: how much was
put in, by how much AddItems raised the cart an order has read, which orders emptied it, which
handlers hold a cart from before that or from before another `AddItem`, which of those have put a cart
back after an order emptied it, and which orders were in flight together. `charged`, `shipped`, `emailed`, `published` are what the other
services did; payment, shipping and email keep no state of their own in the repository, so what they
were asked to do is their state here.

**Currency and Pricing.** Amounts are in hundredths, rates are those of `server.cpp` in hundredths.
`Decimal` is the loop of `getDouble` with the decimal as an integer; `noise` stands for the last place
of the double, so that what `getUnitsAndNanos` cuts off may be one nano more or less, the same for
every conversion into a code. `LookUp` is the insertion of `operator[]`. `ViewCart` is the cart page
once its queries have answered; `PlaceOrder` is the form of that page, priced by the checkout service.  `card` is what the mobile app shows on the card of the product.

**ShippingQuote.** Amounts are cents; the double that is parsed from a decimal, and its product with
100, are computed exactly from the binary exponents, 53 significant bits rounded to nearest. Whether
the product is cut off below the whole cents depends on the amount alone: at 29 pieces the quote loses
a cent.

**OrderProducer and OrderTopic.** `successes` and `errors` are the numbers of responses in sarama's
channels; a handler that waits takes any of them, since nothing matches responses to messages.
`Written` and `NotWritten` are sarama: with `NoResponse` a success says nothing of the broker, so the
message may or may not be in `topic`. The accounting consumer stores its offset before it hands out
the message, so `Commit` may be ahead of `Save`; `Save` of an order that is there already violates a
primary key and is caught. A consumer that dies restarts at `committed`.
`FraudDetection` has no offset at first and then begins behind the last message (`Assign`, the client's
default); `Poll` may commit what the polls before it returned; a batch that takes too long gets the
consumer expelled, and a death counts the last batches again. The two groups only read the topic, so
a behaviour follows one of them (`watched`) and the other does not take a step.

**FlagStorage.** `storage` is the state of the GenServer (`Down` without one), `mailbox` its messages,
`file` the file (`Torn` when a write ended half way). Documents are the default variants of flags, an
object without flags, or JSON that is no object; an editor that holds invalid JSON cannot save it and
is not told apart from one that does not save. Editors and dashboards read once when they are mounted.
`HandlerRaises`, `WriteFails` and `Kill` end the GenServer or the container; `Start` is `init` under
the supervisor or the container's restart policy.

**CpuLoad.** One action per access to a shared field of `CPULoad`, and one per locked method; a thread
makes at most one instance, which is named after it, so an instance that was replaced stays
distinguishable. `load` counts workers instead of keeping a list. Fields are read and written in the
order of the program; the stale reads that Java's memory model would allow as well are left out.

**Storefront.** `client` is the kind of page: the app, a browser whose shopper uses the selector of
currencies, or one with a second tab. A query is a record of its status, the data it shows and the
cart that the fetch under way has read; `Fetched` and `Invalidated` are TanStack's rules for a fetch
that finds another under way (joined unless there is data and the caller asked to cancel). `me` is the
user of `Api.gateway.ts`, read when the module is loaded, and `orderer` that of `CartDetail.tsx` or of
the app's cart; both come from `stored`, the session in the browser's storage, which `Look` reads and
`Open` writes, as two tabs of a new browser do one after the other. A request is sent, applied (with
its effect at the server), answered, abandoned (and may still be applied), or lost. `late`, `excused`
and `overtaken` are history: which fetch a success could not restart, and which order was sent or
overtaken by something the page was not told of. What the services do with a request is one step;
`ValkeyCartStore` and `Checkout` take it apart. The carts at the server do not expire here: to the page
an expired cart is a change it was not told of, like one made by a request given up on.

**ProductPage.** A question is a mutation; the panel observes one and drops it on a reset, which a
change of the product does. `NormalizedPercents` and the average are those of `ProductReviews.tsx`
and `database.py`; a product without reviews never gets an average, because the service raises.

**Wire and Codec.** The generated code repeats the same five functions for every message, so `Codec`
has them once, over a table of fields, and `FrontendMessages`, `AppMessages` and `DemoProto` are the
tables. Each is a recursive function over the types of messages: a field that holds a message is
written and read by the function of that type. The wire is a sequence of units: what the code reads
or writes in one call (a tag, a length, a number) is one unit, however many bytes it has. A codec's
`safe` is `Number.MAX_SAFE_INTEGER`, scaled down by `MCWire` so that samples straddle it;
`longToNumber` raises outside it. The service at the other end may be newer: it adds fields of every
wire type, groups and retyped fields (`Additions`) at every level, and writes in either order.
The app's `fromJSON` has no alias for a field; the frontend's reads the name of the protocol as well.
The codecs, the protocol and the messages are constants of `Wire`. `WireAssumption` says what the
generators guarantee of them: numbers and names of the fields of a message are distinct, messages do
not nest in themselves, a message has its fields with values of their kinds, the codecs agree with
the protocol, and the methods they call are offered. TLC evaluates it on the tables of this repository.

## 3. What the runs check

Passing runs:

| run | bounds | distinct states | shows |
|---|---|---|---|
| `Amounts` | 3 shipping costs, 4 item costs, 2 lines of 1 to 4 pieces; all pairs of 135 amounts from -2 to 2 units, legal and illegal, in 3 codes; 4 prices of the catalog, 3 quantities, 3 currencies and an unknown code, every noise; 300 quotes; 100 nanos a unit | 581 thousand | the total is exact, legal and never panics; `Sum` against exact arithmetic, inverse and commutativity; shown is charged; quotes are at most a cent short |
| `Cart` | 2 users, 2 products, 3 calls of any kind, sequential or overlapping | 356 thousand | what survives of a cart when calls race, fail, expire and restart; to a sequential client it implements `ShoppingCart`: each call takes effect in one step, once if answered OK, at most once if it fails |
| `Checkout` | 1 user, 1 product, 2 orders, 2 handlers of AddItem, 1 piece at a time, none started once 2 pieces were put in (`MaxAdds`) | 2.86 million | the saga's promises, beside AddItems, emptying and expiry of the cart, and that it implements `Order` |
| `OrderTopic` | 2 orders, channels of 1, 1 overload message, 3 messages, 1 death | 65 thousand | who waits for a response, and which orders are lost or missed |
| `FlagStorage` | 1 editor, 1 dashboard, the API, 2 flags, 4 documents, a mailbox of 2, 1 fault | 816 thousand | what is kept through raises, torn files and restarts |
| `CpuLoad` | 3 requests at a time, 4 workers a start | 867 thousand | no start that races a stop leaves workers behind, and a flag that stays off stops them |
| `Storefront` | 2 currencies, 2 requests, 2 changes of a cart, 2 tabs; 2 products, 2 questions, 5 lists of reviews | 468 thousand | the page catches up with what was confirmed, orders are for the cart that is shown, answers fit questions |
| `Wire` | every method of both codecs, 6 sample messages of each type, 6 additions by a newer service, 2 orders of fields | 22 thousand | messages arrive, unsafe amounts raise, JSON reads back |

Why the bounds are enough: a second and a third party is what races need (two orders and two AddItems; three cart
calls or ad requests: two that race and one that interferes; two requests of a page beside its
fetches); a channel of one and three messages make the producer block, a response go to a stranger
and the overload goroutines compete; a hundred nanos to the unit, with the samples, give every
combination of carry, borrow and sign; the sample of prices has every position of zero digits that
the catalog has; the lists of reviews have no review, one, ties, and shares that round down twice. `Checkout` has one
user, since every step of an order or an `AddItem` touches the cart of its own user only (the theorems
are about any number); two handlers of AddItem at a time can go on to three pieces, so an order can
charge for what another one has emptied and an AddItem put back.
`Amounts` and `Storefront` put together parts that share no variable: a behaviour works on one of them
(`checking`, `busyWith`), because the interleavings of independent parts show nothing new. The costs,
quantities and quotes are those of `postgresql/init.sql`, the storefront (1 to 10 pieces a line) and
`calculateQuote`, cut down as the tables say.

`CHECK_DEADLOCK` is off where the modelled clients come to their end: every call made, every order
done, every message sent, every answer read. It is on for `CpuLoad`.

Runs that TLC must find violated; each is a line of the repository that the code does not keep:

* `CartUserId`: `CartServiceTests.cs:95` expects the user's id in a cart that items were added to; a
  cart that was emptied before has none.
* `PricingPrice`: `demo.proto:193` says what nanos are; `getDouble` reads 57.08 as 57.8. A shopper who
  pays in USD sees 57.08, which the frontend does not convert, and is charged 57.80.
* `AppPrice`: the same line; the product card of the app divides the nanos by 10^8, so 0.99 USD is
  shown as 9.90.
* `FlagConflicts`: `storage.ex:7` claims to prevent last-writer-wins; an editor that was opened before a
  dashboard change undoes it by saving.

Things the passing properties state with their exceptions, because the code has them: a sum of which
only nanos are left may have more of them than a unit has (-2.9 + 2.0), against the comment at
`money.go:95`; `OnlyNanosLeft` names the case, and no order of the shop adds such a pair (theorem
`TotalNeverPanics`). An order that accounting had committed but not saved at a death is lost, and so
is one whose `SaveChanges` threw (`OnlyFaultsLoseOrders`); fraud detection never sees what was sent
before its group had an offset (`EventuallyCounted`); a handler without a deadline may wait for ever
once the error drain has taken its response (`HandlersReturn`); what is put into a cart between the
read and the emptying is lost, and so is what one `AddItem` put in while another one held the cart
(`EveryLossHasACause`); a cart may be charged twice when orders overlap, when `EmptyCart` fails, or when
an `AddItem` that had read the cart before an order emptied it writes it back (`ChargedOnce`); a failed
call may leave a cart that never expires
(`EventuallyForgotten`); a torn file keeps the flag editor down (`ComesBack`); a success that finds the
first fetch of the cart under way, or the query of another currency, does not restart it
(`ChangesAreShown`, `ConfirmedIsShown`); two tabs of a new browser may order for different users
(`OneShopper`); an order can be sent for a cart that another change has just emptied
(`EmptyOrderIsOvertaken`); the workers of an ad instance that was replaced are never stopped
(`FlagOffStopsLoad`); a quote may be a cent short (`QuoteWithinACent`).

### Fairness

* `ValkeyCartStore` (`Fairness`): a handler that runs goes on to its next command, and Valkey expires
  keys. Clients need not call.
* `OrderProducer`: sarama works off its queue (it retries and then reports), and a goroutine that can
  receive does; nothing forces a context to end, because the storefront calls without a deadline, and
  nothing forces the error drain to run.
* `OrderTopic` and `FraudDetection`: the loop of the consumer that is watched runs on; a save succeeds
  or fails but returns.
* `FlagStorage`: a GenServer works off its mailbox, and supervisor or container restart it.
* `Storefront`: a fetch under way is answered or fails. Nothing makes the shopper or a request go on.
* `CpuLoad`: threads run on, and there is always another request, since the pages of the shop ask for
  ads and the load generator for pages.

All are weak fairness; no property depends on a fault happening or not happening more than the bound
says.

## 4. What is proved

All theorems hold for every value of the constants that the assumptions of the modules allow; TLAPS
checks every step with Z3, Zenon and, for the temporal ones, LS4. Every strengthened invariant below
has been model-checked on the bounds of its run as well.

* `SumTheorems`: what the other modules need of sums and of recursive functions. The induction
  theorems of the library take an operator as a parameter, which the provers cannot instantiate; here
  induction is a fact about sets: a set of natural numbers that holds 0 and every successor holds them
  all (`NatInductionSet`), and a non-empty set of subsets of a finite set has a smallest one
  (`SmallestSubset`), both from well-foundedness. With them a recursive function is shown to have a
  solution, by growing one, and to satisfy its equation; and a sum over a set is shown to be the same
  whichever element is taken out first, to be a natural number, and to change by what one element
  changes.
* `MoneyProofs`, pairs of amounts: `SumCorrect` and `SumReversible`. The lemmas: two's complement is
  the identity on the sums that occur, division towards zero splits an amount exactly, normalisation
  keeps the value and makes a legal amount outside `OnlyNanosLeft`; and a legal amount is determined by
  its value, because units and nanos agree in sign, so that an exact sum taken back is the amount it
  was.
* `MoneyProofs`, the total of an order: `TypeCorrect`, `TotalNeverPanics`, `ProductExact`,
  `LinesAddExactly`, `ChargeExact`. The inductive invariant says that the running total is legal, in
  the user's currency and of at least one unit once shipping is in, that the partial product is legal
  and of at least half a unit, and is the exact multiple; so `OnlyNanosLeft` cannot occur and `Sum`
  refuses nothing. `ChargeExact` adds that the total is worth shipping plus the lines that are in.
* `MoneyProofs`, prices: `OrdersAreMoney` and `ShownCharged`, for every catalog, table of rates and
  number of pieces. `DecimalReads` shows by induction over the digits that the loop of `getDouble`
  reads the nanos as they are when the first digit is not zero, and otherwise less than a unit
  (`DecimalFits`); `ChargedIsExact` by induction over the pieces that one `Sum` after the other, and
  `ShownIsExact` that units and nanos added apart, make the one legal amount of shipping and pieces
  together. The invariant `PriceInv` says that no client changes a rate (`operator[]` only adds codes)
  and that page and order hold the prices of those rates. `RatesAssumption` is what this rests on: no
  rate takes a price below half a unit or a quote below one. In the code the lowest rate against USD is
  that of GBP, 0.8597 to 1.1305, the cheapest product costs 0.99 and the quote of one piece is 8.99.
* `MoneyProofs`, quotes: `QuoteLosesACentAtMost`, for every price of a dollar and more and every number
  of pieces whose quote a double holds to the cent. A whole number of dollars is exact as a double,
  so the cent that is cut off always comes off cents that are there, and never turns 0 into 99.
* `ValkeyCartProofs`: `TypeCorrect`, `CartsStayTidy`, `EmptiedStaysEmptied`, `NoTtlIsUnfinished`,
  `StoreImplementsCart`. The invariant for the second relates carts held by calls as well as those
  stored; that for the third adds that a cart held by a call that did not race is bounded by what was
  added since. The last is the refinement of `ShoppingCart`, for clients whose calls do not overlap on
  a cart: no two calls run on one, and the cart an `AddItem` holds is the one stored unless its key
  has expired (`Undisturbed`), so that writing it back adds exactly the item. A call takes effect at the
  command that writes, before it is answered; the restart of the service and the expiry of keys, which
  touch several carts and calls at once, are the abstract failures and losses of each. To other clients
  `ShoppingCart` promises nothing (`EmptiedStaysEmptied` is what is left to them).
* `CheckoutProofs`: `TypeCorrect`, `OrdersDoNotMix`, `StatusTrue`, `NeverForNothing`,
  `CheckoutImplementsOrder`, `NothingIsChargedTwice`, `LossesHaveCauses`. The properties are not
  inductive: that what is shipped is what was charged needs to know which calls can still arrive late
  and with what. The inductive invariant `IInv` says per order that what services hold is the items the
  order read (`Agree`), that each program counter implies the effects before it (`Done`), that late
  calls are of steps already left (`Pending`), and that the cart is covered by what the order read and
  what AddItems raised it by since (`Covered`). The refinement shows that each action is a step of
  `Order` or a stutter. For `NothingIsChargedTwice`, `BooksInv` keeps books per user (`Balanced`): while
  each of her charged orders has emptied the cart for good or may still do so, what was charged for was
  put in; once they all have, what was charged for fits into what was put in together with each of
  these: what is in the cart, what an `AddItem` that read it since is to write back, and what the next
  order has read. It needs that of two orders in flight each is known to overlap (`Apart`) and that an
  order empties the cart once and after its charge (`EmptiesOnce`). For `LossesHaveCauses`, `AllCurrent`
  says that an `AddItem` that no other one has overtaken holds no less than is in the cart, because the
  cart has only been emptied since; the emptying by an order is bounded by `Covered`.
* `StorefrontProofs`, the cart: `TypeCorrect`, `ConfirmedChangesAreShown`, `OrdersAreForOneShopper`,
  `KnownOrdersAreFull`, for any number of currencies, requests and changes. The inductive invariant has
  three parts: the user ids agree with what is stored unless it was overwritten (`SessionInv`); every
  cart that was read, shown or confirmed is the server's or an earlier version of it, and a fetch that
  is not late reads at least what was confirmed (`CartInv`); an order that nothing has
  overtaken orders a full cart (`OrderInv`).
* `StorefrontProofs`, the product page: `AnswersFit` and `FiguresAreRight`. The mutation the panel
  observes is of the product of the page and the last question, and only it can settle the panel. The
  figures hold for every list of reviews: each is counted under one score, the fractions cut off make
  as many whole points as are given away, and no more than there are fractions above zero, and a
  larger fraction comes before a smaller one.
* `FlagProofs`, the CPU load: `LoadTypeCorrect`, `NoLoadIsLeftBehind`, for any number of threads. The strengthening
  `LoadIsSettled`: workers of an instance that does not know of them are about to be known (a start
  before `running = true`) or stopped (a stop before `stopWorkers`).
* `OrderTopicProofs`: `OnlyTheseAreLost`, `FraudMissesOnlyTheStart` and `NobodyWaitsForNothing`, for
  any number of orders, messages and faults. The first needs that accounting works on the message
  before its position and commits nothing ahead of it; the second, which is the safety half of
  `EventuallyCounted`, that what a poll or a commit passes over has been counted or is in the batch.
  The third is inductive as it stands; its proof is about the sum of the messages inside the producer,
  which every step changes at one order.
* `FlagProofs`, the editor: `TypeCorrect`, `FileIsKept`, `FreshSavesChangeNothing`, `OtherFlagsAreKept`, for
  any number of flags, pages and faults. That saving a fresh page changes nothing needs two facts
  beside the file's: a fresh page, and what it has posted, is what the file holds, Storage running or
  not (`FreshIsFile`); and behind the read of a page that waits for its document there is nothing else
  of that page in the mailbox (`ReadsComeLast`), so that no save of an earlier visit is left when the
  page becomes fresh again.
* `WireProofs`, the codec: `DecodeReadsWhatEncodeWrote` and `JsonReadsBack`, for every table of
  messages that `WireAssumption` allows, every message of it and every nesting. The five functions of
  `Codec` and the loops in them recurse over types, positions and depths; a recursive function whose
  steps look only at what has a smaller rank is shown once to have a solution and to satisfy its
  equation (`Solves`), and each of them is an instance of it. Then one level at a time: where a field
  starts on the wire (`Occurs`) the loop of `decode` reads its values and goes on behind them, it skips
  each of `Additions` as a whole, and by induction over the fields that are left it ends at the end of
  the message with every field as it was, or with its default. A field inside the message is read by
  what is assumed of the smaller depth (`ReadsMessages`), and induction over `Depth` closes the
  argument. That a number is beyond `safe` is carried along, so that the reader raises exactly then.
  For JSON the keys of an object are distinct because names and aliases are.
* `WireProofs`, the call: `RequestsArriveAlways`, `AnswersArriveAlways`, `OnlyUnsafeAmountsRaiseAlways`,
  `JsonKeepsMessagesAlways`. The inductive invariant says for each stage what is on the wire or in the
  document: what the caller, or a service of any additions and order, encodes of the message that was
  asked, answered or seen.

Only model-checked:

* liveness (`EventuallyForgotten`, `HandlersReturn`, `EventuallyAccounted`, `EventuallyCounted`,
  `ComesBack`, `ConfirmedIsShown`, `FlagOffStopsLoad`) and with it `ENABLED`, which are out of the
  prover's reach;
* `QuoteWithinACent`: that a quote is a cent short at most is proved for any price, but that the first
  28 quotes are exact is a matter of the one price of 8.99 and of the binary digits of 28 amounts, which
  TLC computes; no constant but that price has the property. That `Below` is the error of the double
  rests on `Log2` and `PowerMod`, whose values the theorem does not need.

## 5. What is not modelled

* Telemetry, logging and wording; authentication there is none.
* The unlocked sharing of the currency table between threads: the insertion of `operator[]` is modelled
  as a step; two at once are undefined behaviour of C++ without a useful set of outcomes.
* `EnsureRedisConnected` and the health check of the cart: every call without a connection is the
  `Fail` of `ValkeyCartStore`; whether a connection comes back is up to the client library.
* `ListRecommendations`: one request decides its outcome. With its cache flag on, a miss calls
  `GetProduct` with an `Empty` and raises before it fills the cache, so the list that threads would
  share stays empty.
* Card validation, product search, the choice of ads, the garbage collections of the ad service, the
  emails kept by a flag, and the two rounds of the assistant's tool protocol: nothing is kept between
  requests that a later step reads, or nothing but a count.
* The other pages and components of the frontend and the app, which show what they fetch, and the load
  generator, whose tasks are inputs the models cover.
* Configuration, build tooling, and generated code other than the two codecs.

`PROJECT.json` gives the reason for each component, and lists every hazard found with the properties
that cover it.

## 6. Plan

In order of weight for the shop; all of it is done.

1. `Money`, `OrderTotal`, `MoneyPairs` and their proofs.
2. `ValkeyCartStore` over `ShoppingCart`, and its proofs.
3. `Checkout` over `Order`, and its proofs.
4. `Currency`, `ShippingQuote` and `Pricing`.
5. `OrderProducer`, `FraudDetection` and `OrderTopic`, and the proofs of what is lost or missed.
6. `FlagStorage`, and its proofs.
7. `Codec`, its tables and `Wire`.
8. `Storefront` and `ProductPage`, and their proofs.
9. `CpuLoad`, and its proofs.
10. The findings as runs; hazards, each with a property or a reason.
11. The invariants that add up or recurse, and the refinement of `ShoppingCart`: `SumTheorems`,
    `ChargeExact`, `OrdersAreMoney`, `ShownCharged`, `NothingIsChargedTwice`, `NobodyWaitsForNothing`,
    `FiguresAreRight`, `StoreImplementsCart`.
12. `Codec` with recursive functions, and from it that JSON and the wire keep a message of any table
    (`WireProofs`); the cent of a quote for any price.
