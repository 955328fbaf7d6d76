--------------------------- MODULE FraudDetection ---------------------------
(***************************************************************************)
(* The fraud detection service (src/fraud-detection/.../main.kt): one loop *)
(* that polls the orders topic and folds over the batch.  Its properties   *)
(* leave the rest to the Kafka client's defaults: the offset behind a      *)
(* batch is committed by a later poll, at most every five seconds, and a   *)
(* group without a committed offset starts behind the last message         *)
(* (auto.offset.reset is "latest").  A signal kills it without a last      *)
(* commit: nothing closes the consumer.                                    *)
(***************************************************************************)
EXTENDS OrderProducer

CONSTANT MaxFaults  \* bound: deaths and expulsions of a consumer

ASSUME FraudAssumption == MaxFaults \in Nat

VARIABLES fetched,  \* the offset that poll fetches next, 0 before it has one
          batch,    \* the offsets of the batch that are still to be counted
          stored,   \* the committed offset of the group, 0 before the first
          deaths,   \* deaths of the process, and its expulsions from the group
          \* History, for the properties only:
          counted,  \* offsets that have been counted, by any process
          jumped    \* offsets behind which the group started

fraud == <<fetched, batch, stored, deaths, counted, jumped>>

FraudInit ==
    /\ fetched = 0 /\ batch = {} /\ stored = 0 /\ deaths = 0
    /\ counted = {} /\ jumped = {}

\* The first poll in the group: the committed offset, or the end of the log.
Assign ==
    /\ fetched = 0 /\ batch = {}
    /\ fetched' = IF stored = 0 THEN Len(topic) + 1 ELSE stored
    /\ jumped' = IF stored = 0 THEN jumped \cup DOMAIN topic ELSE jumped
    /\ UNCHANGED <<batch, stored, deaths, counted>>

\* Mutant: what is committed is the offset behind the new batch.
PollAndCommit(last) ==
    /\ fetched # 0 /\ batch = {}
    /\ batch' = fetched .. last
    /\ fetched' = last + 1
    /\ stored' \in {stored, last + 1}
    /\ UNCHANGED <<deaths, counted, jumped>>

\* consumer.poll: commits what the polls before it returned, if it is time and
\* the commit succeeds, and returns what there is up to some offset.
Poll(last) ==
    /\ fetched # 0 /\ batch = {}
    /\ batch' = fetched .. last
    /\ fetched' = last + 1
    /\ stored' \in {stored, fetched}
    /\ UNCHANGED <<deaths, counted, jumped>>

\* The fold: newCount, one record after the other.
Count ==
    /\ batch # {}
    /\ batch' = batch \ {Min(batch)}
    /\ counted' = counted \cup {Min(batch)}
    /\ UNCHANGED <<fetched, stored, deaths, jumped>>

FraudDies ==
    /\ deaths < MaxFaults
    /\ deaths' = deaths + 1
    /\ fetched' = 0 /\ batch' = {}
    /\ UNCHANGED <<stored, counted, jumped>>

\* Counting takes longer than max.poll.interval.ms (a second per record while
\* kafkaQueueProblems is on): the process leaves the group, goes on with its
\* batch, and can commit nothing of it.
Expelled ==
    /\ deaths < MaxFaults
    /\ fetched # 0 /\ batch # {}
    /\ deaths' = deaths + 1
    /\ fetched' = 0
    /\ UNCHANGED <<batch, stored, counted, jumped>>

PollSome == \E last \in DOMAIN topic : last >= fetched /\ Poll(last)

FraudNext ==
    /\ \/ Assign \/ PollSome \/ Poll(fetched - 1) \/ Count \/ FraudDies \/ Expelled
    /\ UNCHANGED producer

\* while (true): the loop runs on.
FraudFairness ==
    /\ WF_fraud(Assign) /\ WF_fraud(PollSome) /\ WF_fraud(Count)

=============================================================================
