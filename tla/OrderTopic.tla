---------------------------- MODULE OrderTopic ----------------------------
(***************************************************************************)
(* The orders topic from end to end: the checkout service that writes it   *)
(* (OrderProducer), the accounting service (src/accounting/Consumer.cs)    *)
(* that keeps the orders in a database, and FraudDetection.  Accounting's  *)
(* offset is ready to be committed as soon as a message is taken, before   *)
(* the order is saved.  The two consumer groups share nothing but the      *)
(* topic, which they only read: a behaviour follows one of them, and the   *)
(* other does not take a step.                                             *)
(***************************************************************************)
EXTENDS FraudDetection

CONSTANT NoOrder

ASSUME TopicAssumption == NoOrder \notin Orders

VARIABLES watched,   \* the consumer group that takes steps
          position,  \* accounting: the offset Consume() returns next
          committed, \* accounting: the offset it starts from after a restart
          current,   \* accounting: the order in ProcessMessage
          db,        \* the orders in the database
          faults,    \* deaths of accounting
          \* History, for the properties only:
          unsaved,   \* offsets whose SaveChanges threw
          skipped    \* offsets in ProcessMessage at a death, already committed

accounting == <<position, committed, current, db, faults, unsaved, skipped>>
vars       == <<producer, watched, accounting, fraud>>

Offsets == 1 .. MaxLength

\* The offsets stay in the topic: committed is never ahead of position.
TypeOK ==
    /\ ProducerOK
    /\ watched \in {"accounting", "fraud-detection"}
    /\ position \in 1 .. Len(topic) + 1
    /\ committed \in 1 .. position
    /\ current \in Orders \cup {NoOrder}
    /\ db \subseteq Orders
    /\ faults \in 0 .. MaxFaults
    /\ unsaved \cup skipped \cup batch \cup counted \cup jumped \subseteq Offsets
    /\ {fetched, stored} \subseteq 0 .. Len(topic) + 1
    /\ deaths \in 0 .. MaxFaults

Init ==
    /\ ProducerInit /\ FraudInit
    /\ watched \in {"accounting", "fraud-detection"}
    /\ position = 1 /\ committed = 1
    /\ current = NoOrder
    /\ db = {}
    /\ faults = 0
    /\ unsaved = {} /\ skipped = {}

----------------------------------------------------------------------------
(* Accounting                                                              *)

\* _consumer.Consume(): librdkafka stores the offset behind the message for
\* the next automatic commit before it hands the message out.
Consume ==
    /\ current = NoOrder /\ position <= Len(topic)
    /\ current' = topic[position]
    /\ position' = position + 1
    /\ UNCHANGED <<committed, db, unsaved, skipped, faults>>

\* The automatic commit of the client's own thread.
Commit ==
    /\ committed # position
    /\ committed' = position
    /\ UNCHANGED <<position, current, db, unsaved, skipped, faults>>

\* SaveChanges is one transaction.  An order that is there already violates
\* the primary key; that exception and any other is caught and logged.
Save ==
    /\ current # NoOrder
    /\ db' = db \cup {current}
    /\ current' = NoOrder
    /\ UNCHANGED <<position, committed, unsaved, skipped, faults>>

SaveFails ==
    /\ current # NoOrder /\ current \notin db
    /\ unsaved' = unsaved \cup {position - 1}
    /\ current' = NoOrder
    /\ UNCHANGED <<position, committed, db, skipped, faults>>

\* Mutant: the consumer goes on behind the last message after a restart.
RestartAtEnd ==
    /\ faults < MaxFaults
    /\ position' = Len(topic) + 1
    /\ committed' = Len(topic) + 1
    /\ current' = NoOrder
    /\ skipped' = IF current # NoOrder /\ committed = position
                  THEN skipped \cup {position - 1} ELSE skipped
    /\ faults' = faults + 1
    /\ UNCHANGED <<db, unsaved>>

\* The process dies and starts again from the committed offset.
AccountingDies ==
    /\ faults < MaxFaults
    /\ position' = committed
    /\ current' = NoOrder
    /\ skipped' = IF current # NoOrder /\ committed = position
                  THEN skipped \cup {position - 1} ELSE skipped
    /\ faults' = faults + 1
    /\ UNCHANGED <<committed, db, unsaved>>

AccountingNext ==
    /\ Consume \/ Commit \/ Save \/ SaveFails \/ AccountingDies
    /\ UNCHANGED producer

Next ==
    /\ UNCHANGED watched
    /\ \/ ProducerNext /\ UNCHANGED <<accounting, fraud>>
       \/ watched = "accounting" /\ AccountingNext /\ UNCHANGED fraud
       \/ watched = "fraud-detection" /\ FraudNext /\ UNCHANGED accounting

\* The loop of the consumer that is watched runs on.
Fairness ==
    /\ ProducerFairness
    /\ watched = "accounting" =>
           WF_accounting(Consume) /\ WF_accounting(Save \/ SaveFails)
    /\ watched = "fraud-detection" => FraudFairness

Spec == Init /\ [][Next]_vars /\ Fairness

----------------------------------------------------------------------------
\* Nobody waits for a response that will not come, but for the errors that the
\* logging goroutine took: every other message given to the producer has its
\* response in the producer or in a channel, even if not for its sender.
WaitersAreOwed ==
    Cardinality(Waiting) + loaders <= InProducer + successes + errors + drained

\* So every handler returns, unless an error has been taken from the handlers.
HandlersReturn ==
    \A o \in Orders : handler[o] = "waiting" ~> handler[o] # "waiting" \/ drained > 0

Done == {i \in 1 .. position - 1 : i = position - 1 => current = NoOrder}

\* An order that accounting is past is in the database, unless its SaveChanges
\* threw or the process died between the commit and it: nothing else, however
\* commits, deaths and redeliveries fall, loses an order.
OnlyFaultsLoseOrders ==
    \A i \in Done : topic[i] \in db \/ i \in unsaved \cup skipped

\* Every message is accounted for in the end, with the same exceptions.
EventuallyAccounted ==
    \A i \in Offsets :
        watched = "accounting" /\ i \in DOMAIN topic ~>
            i \in unsaved \cup skipped \/ (i \in DOMAIN topic /\ topic[i] \in db)

\* Fraud detection counts every message in the end, through deaths and late
\* commits (at least once), unless the message was there already when the group
\* started without an offset (main.kt sets no auto.offset.reset).
EventuallyCounted ==
    \A i \in Offsets :
        watched = "fraud-detection" /\ i \in DOMAIN topic ~> i \in counted \cup jumped

=============================================================================
