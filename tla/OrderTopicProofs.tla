-------------------------- MODULE OrderTopicProofs --------------------------
(***************************************************************************)
(* Which orders the accounting service can lose, which messages fraud      *)
(* detection counts and who is owed a response, for any number of orders,  *)
(* messages and deaths.                                                    *)
(***************************************************************************)
EXTENDS OrderTopic, SumTheorems, TLAPS

\* What accounting works on is the message before its position, and the offset
\* it would start from again is not ahead of it.
AccountingInv ==
    /\ topic \in Seq(Orders)
    /\ position \in 1 .. Len(topic) + 1
    /\ committed \in 1 .. position
    /\ current # NoOrder => position > 1 /\ current = topic[position - 1]

IInv == AccountingInv /\ OnlyFaultsLoseOrders

LEMMA InitIInv == Init => IInv
    BY DEF Init, ProducerInit, IInv, AccountingInv, OnlyFaultsLoseOrders, Done

\* The topic only grows.
LEMMA ProducerIInv ==
    ASSUME IInv, ProducerNext, UNCHANGED accounting PROVE IInv'
    <1>1. topic' = topic \/ \E o \in Orders : topic' = Append(topic, o)
        BY DEF ProducerNext, Send, SendNothing, Resolve, Written, NotWritten, Answer,
               TakeSuccess, TakeError, GiveUp, LoaderReturns, DrainError, CheckoutDies
    <1>2. CASE topic' = topic
        BY <1>2 DEF IInv, AccountingInv, OnlyFaultsLoseOrders, Done, accounting
    <1>3. ASSUME NEW o \in Orders, topic' = Append(topic, o) PROVE IInv'
        <2>1. topic' \in Seq(Orders) /\ Len(topic') = Len(topic) + 1
              /\ \A i \in 1 .. Len(topic) : topic'[i] = topic[i]
            BY <1>3 DEF IInv, AccountingInv
        <2>2. AccountingInv'
            BY <2>1 DEF IInv, AccountingInv, accounting
        <2>3. OnlyFaultsLoseOrders'
            BY <2>1 DEF IInv, AccountingInv, OnlyFaultsLoseOrders, Done, accounting
        <2> QED
            BY <2>2, <2>3 DEF IInv
    <1> QED
        BY <1>1, <1>2, <1>3

LEMMA ConsumeIInv ==
    ASSUME IInv, Consume, UNCHANGED producer PROVE IInv'
    <1>1. AccountingInv'
        BY DEF IInv, AccountingInv, Consume, producer
    <1>2. Done' \subseteq Done
        <2>1. current' \in Orders /\ current' # NoOrder
            BY TopicAssumption DEF IInv, AccountingInv, Consume
        <2> QED
            BY <2>1 DEF IInv, AccountingInv, Done, Consume
    <1>3. OnlyFaultsLoseOrders'
        BY <1>2 DEF IInv, OnlyFaultsLoseOrders, Consume, producer
    <1> QED
        BY <1>1, <1>3 DEF IInv

LEMMA CommitIInv ==
    ASSUME IInv, Commit, UNCHANGED producer PROVE IInv'
    BY DEF IInv, AccountingInv, OnlyFaultsLoseOrders, Done, Commit, producer

\* The message that is done now is the one before the position: it is in the
\* database, or its SaveChanges threw.
LEMMA SaveIInv ==
    ASSUME IInv, Save \/ SaveFails, UNCHANGED producer PROVE IInv'
    <1>1. AccountingInv'
        BY DEF IInv, AccountingInv, Save, SaveFails, producer
    <1>2. OnlyFaultsLoseOrders'
        BY DEF IInv, AccountingInv, OnlyFaultsLoseOrders, Done, Save, SaveFails, producer
    <1> QED
        BY <1>1, <1>2 DEF IInv

\* What is behind the committed offset was done before the death, but for the
\* message that was taken and committed and is not saved: that one is skipped.
LEMMA DeathIInv ==
    ASSUME IInv, AccountingDies, UNCHANGED producer PROVE IInv'
    <1>1. AccountingInv'
        BY DEF IInv, AccountingInv, AccountingDies, producer
    <1>2. ASSUME NEW i \in Done' PROVE topic[i] \in db \/ i \in unsaved \cup skipped'
        <2>1. i \in 1 .. committed - 1
            BY <1>2 DEF Done, AccountingDies
        <2>2. CASE i = position - 1 /\ current # NoOrder
            BY <2>1, <2>2 DEF IInv, AccountingInv, AccountingDies
        <2>3. CASE ~(i = position - 1 /\ current # NoOrder)
            BY <2>1, <2>3 DEF IInv, AccountingInv, OnlyFaultsLoseOrders, Done, AccountingDies
        <2> QED
            BY <2>2, <2>3
    <1>3. OnlyFaultsLoseOrders'
        BY <1>2 DEF OnlyFaultsLoseOrders, AccountingDies, producer
    <1> QED
        BY <1>1, <1>3 DEF IInv

\* Commits, deaths and redeliveries lose no order but those whose SaveChanges
\* threw and those committed and not saved at a death (Consumer.cs).
THEOREM OnlyTheseAreLost == Spec => []OnlyFaultsLoseOrders
    <1>1. Init => IInv
        BY InitIInv
    <1>2. IInv /\ [Next]_vars => IInv'
        <2> SUFFICES ASSUME IInv, [Next]_vars PROVE IInv'
            OBVIOUS
        <2>1. CASE ProducerNext /\ UNCHANGED <<accounting, fraud>>
            BY <2>1, ProducerIInv
        <2>2. CASE AccountingNext
            BY <2>2, ConsumeIInv, CommitIInv, SaveIInv, DeathIInv DEF AccountingNext
        <2>3. CASE FraudNext /\ UNCHANGED accounting
            BY <2>3 DEF FraudNext, IInv, AccountingInv, OnlyFaultsLoseOrders, Done,
                        accounting, producer
        <2>4. CASE UNCHANGED vars
            BY <2>4 DEF vars, IInv, AccountingInv, OnlyFaultsLoseOrders, Done,
                        accounting, producer
        <2> QED
            BY <2>1, <2>2, <2>3, <2>4 DEF Next
    <1>3. IInv => OnlyFaultsLoseOrders
        BY DEF IInv
    <1> QED
        BY <1>1, <1>2, <1>3, PTL DEF Spec

----------------------------------------------------------------------------
(* Fraud detection                                                         *)

\* What the group is past has been counted, is in the batch, or was there when
\* the group started without an offset; of what it has committed nothing is in
\* a batch.
NothingPassedOver ==
    /\ \A i \in 1 .. fetched - 1 : i \in counted \cup jumped \cup batch
    /\ \A i \in 1 .. stored - 1 : i \in counted \cup jumped

FraudInv ==
    /\ topic \in Seq(Orders)
    /\ fetched \in Nat /\ stored \in Nat
    /\ NothingPassedOver

\* Deaths, expulsions and late commits never make the group pass over a message
\* that came after it started (main of fraud detection).
THEOREM FraudMissesOnlyTheStart == Spec => []NothingPassedOver
    <1> USE DEF FraudInv, NothingPassedOver
    <1>1. Init => FraudInv
        BY DEF Init, ProducerInit, FraudInit
    <1>2. FraudInv /\ [Next]_vars => FraudInv'
        <2> SUFFICES ASSUME FraudInv, [Next]_vars PROVE FraudInv'
            OBVIOUS
        <2>1. CASE ProducerNext /\ UNCHANGED <<accounting, fraud>>
            <3>1. topic' = topic \/ \E o \in Orders : topic' = Append(topic, o)
                BY <2>1 DEF ProducerNext, Send, SendNothing, Resolve, Written, NotWritten,
                       Answer, TakeSuccess, TakeError, GiveUp, LoaderReturns, DrainError,
                       CheckoutDies
            <3> QED
                BY <2>1, <3>1 DEF fraud
        <2>2. CASE AccountingNext /\ UNCHANGED fraud
            BY <2>2 DEF AccountingNext, producer, fraud
        <2>3. CASE FraudNext
            <3>1. topic' = topic
                BY <2>3 DEF FraudNext, producer
            <3>2. CASE Assign
                BY <3>1, <3>2 DEF Assign
            <3>3. ASSUME NEW last \in Nat, last >= fetched - 1, Poll(last)
                  PROVE  FraudInv'
                <4>1. \A i \in 1 .. fetched - 1 : i \in counted \cup jumped
                    BY <3>3 DEF Poll
                <4>2. fetched' = last + 1 /\ batch' = fetched .. last
                      /\ counted' = counted /\ jumped' = jumped
                    BY <3>3 DEF Poll
                <4>3. stored' = stored \/ stored' = fetched
                    BY <3>3 DEF Poll
                <4>4. \A i \in 1 .. fetched' - 1 : i \in counted' \cup jumped' \cup batch'
                    <5> SUFFICES ASSUME NEW i \in 1 .. last
                                 PROVE  i \in counted \cup jumped \cup fetched .. last
                        BY <4>2
                    <5>1. CASE i < fetched
                        BY <4>1, <5>1
                    <5> QED
                        BY <5>1
                <4>5. stored' \in Nat /\ \A i \in 1 .. stored' - 1 : i \in counted' \cup jumped'
                    BY <4>1, <4>2, <4>3
                <4>6. topic' \in Seq(Orders) /\ fetched' \in Nat
                    BY <3>1, <4>2
                <4> QED
                    BY <4>4, <4>5, <4>6 DEF FraudInv, NothingPassedOver
            <3>4. CASE PollSome
                BY <3>3, <3>4 DEF PollSome
            <3>5. CASE Poll(fetched - 1)
                <4>1. fetched - 1 \in Nat
                    BY <3>5 DEF Poll
                <4> QED
                    BY <3>3, <3>5, <4>1
            <3>6. CASE Count
                BY <3>1, <3>6 DEF Count
            <3>7. CASE FraudDies
                BY <3>1, <3>7 DEF FraudDies
            <3>8. CASE Expelled
                BY <3>1, <3>8 DEF Expelled
            <3> QED
                BY <2>3, <3>2, <3>4, <3>5, <3>6, <3>7, <3>8 DEF FraudNext
        <2>4. CASE UNCHANGED vars
            BY <2>4 DEF vars, producer, fraud
        <2> QED
            BY <2>1, <2>2, <2>3, <2>4 DEF Next
    <1> QED
        BY <1>1, <1>2, PTL DEF Spec

----------------------------------------------------------------------------
(* Responses                                                               *)

OwedInv == ProducerOK /\ WaitersAreOwed

LEMMA InProducerIsSum == InProducer = SumOver(inflight, Orders)
    BY Zenon DEF InProducer, SumOver, MapThenSumSet, MapThenFoldSet

LEMMA InProducerIsSumNext == InProducer' = SumOver(inflight', Orders)
    BY Zenon DEF InProducer, SumOver, MapThenSumSet, MapThenFoldSet

LEMMA InProducerIsNat == ProducerOK => InProducer \in Nat
    BY InProducerIsSum, SumIsNat, ProducerAssumption DEF ProducerOK

LEMMA InProducerIsNatNext == ProducerOK' => InProducer' \in Nat
    BY InProducerIsSumNext, SumIsNat, ProducerAssumption DEF ProducerOK

LEMMA InProducerStays == UNCHANGED inflight => InProducer' = InProducer
    BY InProducerIsSum, InProducerIsSumNext, Zenon

LEMMA SumChangesAtOrder ==
    ASSUME NEW o \in Orders, inflight \in [Orders -> Int], inflight' \in [Orders -> Int],
           \A x \in Orders \ {o} : inflight[x] = inflight'[x]
    PROVE  SumOver(inflight', Orders) = SumOver(inflight, Orders) - inflight[o] + inflight'[o]
    BY SumChangesAt, ProducerAssumption

LEMMA InProducerChanges ==
    ASSUME ProducerOK, NEW o \in Orders, NEW v \in Nat,
           inflight' = [inflight EXCEPT ![o] = v]
    PROVE  InProducer' = InProducer - inflight[o] + v
    <1>1. /\ inflight \in [Orders -> Int] /\ inflight' \in [Orders -> Int]
          /\ \A x \in Orders \ {o} : inflight[x] = inflight'[x]
          /\ inflight'[o] = v
        BY DEF ProducerOK
    <1> QED
        BY <1>1, SumChangesAtOrder, InProducerIsSum, InProducerIsSumNext

\* Who waits.
LEMMA WaitingIsFinite ==
    /\ IsFiniteSet(Waiting) /\ Cardinality(Waiting) \in Nat
    /\ Cardinality(Waiting') \in Nat
    BY FS_Subset, FS_CardinalityType, ProducerAssumption DEF Waiting

LEMMA WaitingGains ==
    ASSUME ProducerOK, NEW o \in Orders, handler[o] = "idle",
           handler' = [handler EXCEPT ![o] = "waiting"]
    PROVE  Cardinality(Waiting') = Cardinality(Waiting) + 1
    <1>1. Waiting' = Waiting \cup {o} /\ o \notin Waiting
        BY DEF Waiting, ProducerOK
    <1> QED
        BY <1>1, WaitingIsFinite, FS_AddElement

LEMMA WaitingLoses ==
    ASSUME ProducerOK, NEW o \in Orders, handler[o] = "waiting",
           handler' = [handler EXCEPT ![o] = "done"]
    PROVE  Cardinality(Waiting') = Cardinality(Waiting) - 1
    <1>1. Waiting' = Waiting \ {o} /\ o \in Waiting
        BY DEF Waiting, ProducerOK
    <1> QED
        BY <1>1, WaitingIsFinite, FS_RemoveElement

LEMMA InitOwed == Init => OwedInv
    <1> SUFFICES ASSUME ProducerInit PROVE OwedInv
        BY DEF Init
    <1>1. ProducerOK
        BY ProducerAssumption DEF ProducerInit, ProducerOK
    <1>2. Waiting = {} /\ Cardinality(Waiting) = 0
        <2>1. Waiting = {}
            BY DEF ProducerInit, Waiting
        <2> QED
            BY <2>1, FS_EmptySet, Zenon
    <1> QED
        BY <1>1, <1>2, InProducerIsNat DEF OwedInv, WaitersAreOwed, ProducerInit

LEMMA ProducerStaysOK == ProducerOK /\ ProducerNext => ProducerOK'
    <1> SUFFICES ASSUME ProducerOK, ProducerNext PROVE ProducerOK'
        OBVIOUS
    <1>1. ASSUME NEW o \in Orders, Send(o) \/ SendNothing(o) PROVE ProducerOK'
        <2>1. handler' \in [Orders -> {"idle", "waiting", "done"}]
            BY <1>1 DEF Send, SendNothing, ProducerOK
        <2>2. inflight' \in [Orders -> Nat] /\ sent' \in Nat
            <3>1. inflight[o] + 1 \in Nat
                BY DEF ProducerOK
            <3>2. \/ UNCHANGED <<inflight, sent>>
                  \/ inflight' = [inflight EXCEPT ![o] = inflight[o] + 1] /\ sent' = sent + 1
                BY <1>1 DEF Send, SendNothing
            <3> QED
                BY <3>1, <3>2 DEF ProducerOK
        <2> QED
            BY <1>1, <2>1, <2>2 DEF Send, SendNothing, ProducerOK
    <1>2. ASSUME NEW o \in Orders, Resolve(o) PROVE ProducerOK'
        <2>1. inflight' \in [Orders -> Nat]
            <3>1. inflight[o] - 1 \in Nat /\ inflight' = [inflight EXCEPT ![o] = inflight[o] - 1]
                BY <1>2 DEF Resolve, Written, NotWritten, ProducerOK
            <3> QED
                BY <3>1 DEF ProducerOK
        <2>2. topic' \in Seq(Orders)
            <3>1. topic' = topic \/ topic' = Append(topic, o)
                BY <1>2 DEF Resolve, Written, NotWritten
            <3>2. topic \in Seq(Orders)
                BY DEF ProducerOK
            <3> QED
                BY <3>1, <3>2
        <2>3. {successes', errors'} \subseteq 0 .. ChannelSize
            BY <1>2, ProducerAssumption DEF Resolve, Written, NotWritten, ProducerOK
        <2> QED
            BY <1>2, <2>1, <2>2, <2>3 DEF Resolve, Written, NotWritten, ProducerOK
    <1>3. ASSUME NEW o \in Orders, Answer(o) \/ GiveUp(o) PROVE ProducerOK'
        <2>1. Return(o)
            BY <1>3 DEF Answer, TakeSuccess, TakeError, GiveUp
        <2>2. handler' \in [Orders -> {"idle", "waiting", "done"}]
            BY <2>1 DEF Return, ProducerOK
        <2>3. inflight' \in [Orders -> Nat] /\ loaders' \in Nat /\ sent' \in Nat
            <3>1. inflight[o] + Overload \in Nat
                BY ProducerAssumption DEF ProducerOK
            <3>2. \/ UNCHANGED <<loaders, inflight, sent>>
                  \/ /\ loaders' = loaders + Overload /\ sent' = sent + Overload
                     /\ inflight' = [inflight EXCEPT ![o] = inflight[o] + Overload]
                BY <2>1 DEF Return
            <3>3. {loaders, sent} \subseteq Nat /\ inflight \in [Orders -> Nat] /\ Overload \in Nat
                BY ProducerAssumption DEF ProducerOK
            <3> QED
                BY <3>1, <3>2, <3>3
        <2>4. {successes', errors'} \subseteq 0 .. ChannelSize /\ UNCHANGED <<topic, drained>>
            BY <1>3, ProducerAssumption DEF Answer, TakeSuccess, TakeError, GiveUp, ProducerOK
        <2> QED
            BY <2>2, <2>3, <2>4 DEF ProducerOK
    <1>4. CASE LoaderReturns \/ DrainError
        BY <1>4, ProducerAssumption DEF LoaderReturns, DrainError, ProducerOK
    <1>5. CASE CheckoutDies
        BY <1>5, ProducerAssumption DEF CheckoutDies, ProducerOK
    <1> QED
        BY <1>1, <1>2, <1>3, <1>4, <1>5 DEF ProducerNext

\* What Return adds to those who wait it adds to the producer.
LEMMA ReturnOwes ==
    ASSUME ProducerOK, NEW o \in Orders, handler[o] = "waiting", Return(o)
    PROVE  /\ Cardinality(Waiting') = Cardinality(Waiting) - 1
           /\ InProducer' - loaders' = InProducer - loaders
    <1>1. Cardinality(Waiting') = Cardinality(Waiting) - 1
        BY WaitingLoses DEF Return
    <1>2. CASE UNCHANGED <<loaders, inflight, sent>>
        BY <1>1, <1>2, InProducerStays
    <1>3. CASE loaders' = loaders + Overload /\ inflight' = [inflight EXCEPT ![o] = @ + Overload]
        <2>1. InProducer' = InProducer + Overload
            <3>1. inflight[o] \in Nat /\ inflight[o] + Overload \in Nat
                BY ProducerAssumption DEF ProducerOK
            <3>2. InProducer' = InProducer - inflight[o] + (inflight[o] + Overload)
                BY <1>3, <3>1, InProducerChanges
            <3> QED
                BY <3>1, <3>2, InProducerIsNat, ProducerAssumption
        <2> QED
            BY <1>1, <1>3, <2>1, InProducerIsNat, ProducerAssumption DEF ProducerOK
    <1> QED
        BY <1>1, <1>2, <1>3 DEF Return

LEMMA ProducerOwes == OwedInv /\ ProducerNext => OwedInv'
    <1> SUFFICES ASSUME OwedInv, ProducerNext PROVE WaitersAreOwed'
        BY ProducerStaysOK DEF OwedInv
    <1>1. /\ ProducerOK /\ ProducerOK' /\ WaitersAreOwed
          /\ InProducer \in Nat /\ InProducer' \in Nat
          /\ Cardinality(Waiting) \in Nat /\ Cardinality(Waiting') \in Nat
          /\ {loaders, loaders', successes, successes', errors, errors', drained, drained'}
                \subseteq Nat
        <2>1. ProducerOK /\ ProducerOK' /\ WaitersAreOwed
            BY ProducerStaysOK DEF OwedInv
        <2>2. InProducer' \in Nat /\ Cardinality(Waiting') \in Nat
            BY <2>1, InProducerIsNatNext, WaitingIsFinite
        <2>3. InProducer \in Nat /\ Cardinality(Waiting) \in Nat
            BY <2>1, InProducerIsNat, WaitingIsFinite
        <2>4. {successes, errors, loaders, drained} \subseteq Nat
            BY <2>1, ProducerAssumption DEF ProducerOK
        <2>5. {successes', errors', loaders', drained'} \subseteq Nat
            BY <2>1, ProducerAssumption DEF ProducerOK
        <2> QED
            BY <2>1, <2>2, <2>3, <2>4, <2>5
    <1>2. ASSUME NEW o \in Orders, Send(o) PROVE WaitersAreOwed'
        <2>1. Cardinality(Waiting') = Cardinality(Waiting) + 1
            BY <1>1, <1>2, WaitingGains DEF Send
        <2>2. InProducer' = InProducer + 1
            <3>1. inflight' = [inflight EXCEPT ![o] = inflight[o] + 1] /\ inflight[o] + 1 \in Nat
                BY <1>1, <1>2 DEF Send, ProducerOK
            <3>2. InProducer' = InProducer - inflight[o] + (inflight[o] + 1)
                BY <1>1, <3>1, InProducerChanges
            <3>3. inflight[o] \in Nat
                BY <1>1 DEF ProducerOK
            <3> QED
                BY <1>1, <3>2, <3>3
        <2> QED
            BY <1>1, <1>2, <2>1, <2>2 DEF Send, WaitersAreOwed
    <1>3. ASSUME NEW o \in Orders, SendNothing(o) PROVE WaitersAreOwed'
        <2>1. Waiting' = Waiting /\ InProducer' = InProducer
            BY <1>1, <1>3, InProducerStays DEF SendNothing, Waiting, ProducerOK
        <2> QED
            BY <1>1, <1>3, <2>1 DEF SendNothing, WaitersAreOwed
    <1>4. ASSUME NEW o \in Orders, Resolve(o) PROVE WaitersAreOwed'
        <2>1. Waiting' = Waiting
            BY <1>4 DEF Resolve, Written, NotWritten, Waiting
        <2>2. InProducer' = InProducer - 1
            <3>1. inflight' = [inflight EXCEPT ![o] = inflight[o] - 1] /\ inflight[o] - 1 \in Nat
                BY <1>1, <1>4 DEF Resolve, Written, NotWritten, ProducerOK
            <3>2. InProducer' = InProducer - inflight[o] + (inflight[o] - 1)
                BY <1>1, <3>1, InProducerChanges
            <3>3. inflight[o] \in Nat
                BY <1>1 DEF ProducerOK
            <3> QED
                BY <1>1, <3>2, <3>3
        <2>3. /\ successes' + errors' >= successes + errors + 1
              /\ loaders' = loaders /\ drained' = drained
            BY <1>1, <1>4 DEF Resolve, Written, NotWritten
        <2> QED
            BY <1>1, <2>1, <2>2, <2>3 DEF WaitersAreOwed
    <1>5. ASSUME NEW o \in Orders, Answer(o) \/ GiveUp(o) PROVE WaitersAreOwed'
        <2>1. /\ Cardinality(Waiting') = Cardinality(Waiting) - 1
              /\ InProducer' - loaders' = InProducer - loaders
            BY <1>1, <1>5, ReturnOwes DEF Answer, TakeSuccess, TakeError, GiveUp
        <2>2. successes' + errors' + drained' >= successes + errors + drained - 1
            BY <1>1, <1>5 DEF Answer, TakeSuccess, TakeError, GiveUp
        <2> QED
            BY <1>1, <2>1, <2>2 DEF WaitersAreOwed
    <1>6. CASE LoaderReturns \/ DrainError
        <2>1. Waiting' = Waiting /\ InProducer' = InProducer
            BY <1>6, InProducerStays DEF LoaderReturns, DrainError, Waiting
        <2> QED
            BY <1>1, <1>6, <2>1 DEF LoaderReturns, DrainError, WaitersAreOwed
    <1>7. CASE CheckoutDies
        <2>1. Waiting' = {}
            BY <1>7 DEF CheckoutDies, Waiting
        <2>2. Cardinality(Waiting') = 0
            BY <2>1, FS_EmptySet, Zenon
        <2> QED
            BY <1>1, <1>7, <2>2 DEF CheckoutDies, WaitersAreOwed
    <1> QED
        BY <1>2, <1>3, <1>4, <1>5, <1>6, <1>7 DEF ProducerNext

\* However responses are taken from those they are for, contexts end and overload is switched on,
\* nobody waits for a response that nothing will give, but for the errors the logging goroutine
\* took (src/checkout/main.go, src/checkout/kafka/producer.go).
THEOREM NobodyWaitsForNothing == Spec => []WaitersAreOwed
    <1>1. Init => OwedInv
        BY InitOwed
    <1>2. OwedInv /\ [Next]_vars => OwedInv'
        <2> SUFFICES ASSUME OwedInv, [Next]_vars PROVE OwedInv'
            OBVIOUS
        <2>1. CASE ProducerNext
            BY <2>1, ProducerOwes
        <2>2. CASE UNCHANGED producer
            <3>1. Waiting' = Waiting /\ InProducer' = InProducer
                BY <2>2, InProducerStays DEF Waiting, producer
            <3> QED
                BY <2>2, <3>1 DEF OwedInv, ProducerOK, WaitersAreOwed, producer
        <2> QED
            BY <2>1, <2>2 DEF Next, AccountingNext, FraudNext, vars
    <1>3. OwedInv => WaitersAreOwed
        BY DEF OwedInv
    <1> QED
        BY <1>1, <1>2, <1>3, PTL DEF Spec

=============================================================================
