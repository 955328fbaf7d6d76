--------------------------- MODULE OrderProducer ---------------------------
(***************************************************************************)
(* The producer half of the orders topic: sendToPostProcessor              *)
(* (src/checkout/main.go) over the sarama AsyncProducer that               *)
(* CreateKafkaProducer (src/checkout/kafka/producer.go) makes.  All the    *)
(* handlers share one channel of successes and one of errors, and whoever  *)
(* reads a response takes it from the others: a handler takes any success  *)
(* or error, the goroutine of CreateKafkaProducer takes any error, and so  *)
(* do the goroutines that the flag kafkaQueueProblems starts with any      *)
(* success.                                                                *)
(***************************************************************************)
EXTENDS Naturals, SequencesExt, FiniteSetsExt

CONSTANTS Orders,       \* the orders, each with one handler
          ChannelSize,  \* capacity of each of the response channels
          Overload,     \* value of kafkaQueueProblems while it is on
          MaxLength     \* bound: messages ever sent

ASSUME ProducerAssumption ==
    /\ IsFiniteSet(Orders)
    /\ ChannelSize \in Nat \ {0} /\ Overload \in Nat /\ MaxLength \in Nat

VARIABLES handler,   \* handler[o]: "idle", "waiting" for a response, "done"
          loaders,   \* overload goroutines that wait for a success
          inflight,  \* inflight[o]: messages of o in the producer
          successes, \* responses in the channel Successes()
          errors,    \* responses in the channel Errors()
          topic,     \* the orders topic (one partition)
          \* History, for the properties only:
          drained,   \* errors taken by the goroutine that logs them
          sent       \* messages ever given to the producer

producer == <<handler, loaders, inflight, successes, errors, topic, drained, sent>>

Waiting == {o \in Orders : handler[o] = "waiting"}

InProducer == MapThenSumSet(LAMBDA o : inflight[o], Orders)

ProducerOK ==
    /\ handler \in [Orders -> {"idle", "waiting", "done"}]
    /\ inflight \in [Orders -> Nat]
    /\ {successes, errors} \subseteq 0 .. ChannelSize
    /\ topic \in Seq(Orders)
    /\ {loaders, drained, sent} \subseteq Nat

ProducerInit ==
    /\ handler = [o \in Orders |-> "idle"]
    /\ loaders = 0
    /\ inflight = [o \in Orders |-> 0]
    /\ successes = 0
    /\ errors = 0
    /\ topic = << >>
    /\ drained = 0
    /\ sent = 0

----------------------------------------------------------------------------
\* case cs.KafkaProducerClient.Input() <- &msg
Send(o) ==
    /\ handler[o] = "idle" /\ sent < MaxLength
    /\ handler' = [handler EXCEPT ![o] = "waiting"]
    /\ inflight' = [inflight EXCEPT ![o] = @ + 1]
    /\ sent' = sent + 1
    /\ UNCHANGED <<loaders, successes, errors, topic, drained>>

\* The outer case <-ctx.Done(): nothing is sent.
SendNothing(o) ==
    /\ handler[o] = "idle"
    /\ handler' = [handler EXCEPT ![o] = "done"]
    /\ UNCHANGED <<loaders, inflight, successes, errors, topic, drained, sent>>

\* The producer has written the message.  RequiredAcks is NoResponse: that is
\* a success whether the broker keeps it or not.
Written(o) ==
    /\ inflight[o] > 0 /\ successes < ChannelSize
    /\ inflight' = [inflight EXCEPT ![o] = @ - 1]
    /\ successes' = successes + 1
    /\ topic' \in {topic, Append(topic, o)}
    /\ UNCHANGED <<handler, loaders, errors, drained, sent>>

\* The producer could not write it.
NotWritten(o) ==
    /\ inflight[o] > 0 /\ errors < ChannelSize
    /\ inflight' = [inflight EXCEPT ![o] = @ - 1]
    /\ errors' = errors + 1
    /\ UNCHANGED <<handler, loaders, successes, topic, drained, sent>>

\* Mutant: an overload goroutine that sends nothing and waits all the same.
WaitForNothing(o) ==
    /\ handler' = [handler EXCEPT ![o] = "done"]
    /\ \/ UNCHANGED <<loaders, inflight, sent>>
       \/ /\ sent + Overload <= MaxLength
          /\ loaders' = loaders + Overload + 1
          /\ inflight' = [inflight EXCEPT ![o] = @ + Overload]
          /\ sent' = sent + Overload

\* The end of sendToPostProcessor: with the flag on, goroutines send the same
\* message again, and each waits for a success.
Return(o) ==
    /\ handler' = [handler EXCEPT ![o] = "done"]
    /\ \/ UNCHANGED <<loaders, inflight, sent>>
       \/ /\ sent + Overload <= MaxLength
          /\ loaders' = loaders + Overload
          /\ inflight' = [inflight EXCEPT ![o] = @ + Overload]
          /\ sent' = sent + Overload

\* case successMsg := <-cs.KafkaProducerClient.Successes()
TakeSuccess(o) ==
    /\ handler[o] = "waiting" /\ successes > 0
    /\ successes' = successes - 1
    /\ Return(o)
    /\ UNCHANGED <<errors, topic, drained>>

\* case errMsg := <-cs.KafkaProducerClient.Errors()
TakeError(o) ==
    /\ handler[o] = "waiting" /\ errors > 0
    /\ errors' = errors - 1
    /\ Return(o)
    /\ UNCHANGED <<successes, topic, drained>>

\* The inner case <-ctx.Done(): the response stays behind for somebody else.
GiveUp(o) ==
    /\ handler[o] = "waiting"
    /\ Return(o)
    /\ UNCHANGED <<successes, errors, topic, drained>>

\* An overload goroutine: _ = <-cs.KafkaProducerClient.Successes()
LoaderReturns ==
    /\ loaders > 0 /\ successes > 0
    /\ loaders' = loaders - 1
    /\ successes' = successes - 1
    /\ UNCHANGED <<handler, inflight, errors, topic, drained, sent>>

\* The goroutine of CreateKafkaProducer: for err := range producer.Errors()
DrainError ==
    /\ errors > 0
    /\ errors' = errors - 1
    /\ drained' = drained + 1
    /\ UNCHANGED <<handler, loaders, inflight, successes, topic, sent>>

\* The checkout process dies with everything in it.
CheckoutDies ==
    /\ Waiting # {}
    /\ handler' = [o \in Orders |-> IF o \in Waiting THEN "done" ELSE handler[o]]
    /\ loaders' = 0 /\ successes' = 0 /\ errors' = 0
    /\ inflight' = [o \in Orders |-> 0]
    /\ UNCHANGED <<topic, drained, sent>>

Resolve(o) == Written(o) \/ NotWritten(o)

Answer(o) == TakeSuccess(o) \/ TakeError(o)

ProducerNext ==
    \/ \E o \in Orders : \/ Send(o) \/ SendNothing(o)
                         \/ Resolve(o) \/ Answer(o) \/ GiveUp(o)
    \/ LoaderReturns \/ DrainError
    \/ CheckoutDies

\* Sarama works off its queue and the goroutines are scheduled.  No context
\* has to end: the storefront calls without a deadline.
ProducerFairness ==
    /\ \A o \in Orders : WF_producer(Resolve(o)) /\ WF_producer(Answer(o))
    /\ WF_producer(LoaderReturns)

=============================================================================
