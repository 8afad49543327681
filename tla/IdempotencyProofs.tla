------------------------- MODULE IdempotencyProofs -------------------------
(* Proofs about Idempotency, for any set of attempts, keys, bodies and faults. *)
EXTENDS Idempotency, TLAPS

Working == {"handling", "forwarding", "settling", "cleanup"}

\* Where an attempt stands tells what portfolio-service has seen of it.
CallOrder ==
  \A r \in Requests :
    /\ pc[r] \in {"arriving", "claiming", "looking", "handling"} => down[r] = "none"
    /\ pc[r] = "forwarding" => down[r] # "none"
    /\ pc[r] = "settling" => down[r] \in {"bought", "refused", "broken"}
    /\ pc[r] \in {"claiming", "looking"} => Keyed(r) /\ ~ claimed[r]
    /\ pc[r] \in {"settling", "cleanup"} => claimed[r]
    /\ claimed[r] => Keyed(r)
    /\ pc[r] = "arriving" => ~ claimed[r]

\* A record belongs to an attempt with its key; a stored result to one that succeeded.
RecordOwner ==
  \A k \in Keys : Live(k) =>
    /\ KeyOf[record[k].owner] = k
    /\ record[k].state = "done" => down[record[k].owner] = "bought"

\* On a key that has not lapsed, whoever works on it or was executed still owns its record.
Protected ==
  \A r \in Requests : (Keyed(r) /\ KeyOf[r] \notin lapsed) =>
    /\ pc[r] \in Working => claimed[r] /\ record[KeyOf[r]] = InFlight(r)
    /\ pc[r] = "cleanup" => down[r] = "none"
    /\ down[r] \in {"queued", "bought"} => record[KeyOf[r]] \in {InFlight(r), Done(r)}
    /\ down[r] # "broken"

IInv == TypeOK /\ CallOrder /\ RecordOwner /\ Protected /\ ReplayFidelity

LEMMA RecordFields ==
  /\ \A r \in Requests : InFlight(r) \in Record /\ Done(r) \in Record
  /\ \A r \in Requests : InFlight(r) # NoRecord /\ Done(r) # NoRecord
BY IdemAssumption DEF Record, InFlight, Done

LEMMA GotoType ==
  ASSUME NEW r \in Requests, NEW l \in PCs, TypeOK, Goto(r, l)
  PROVE  pc' \in [Requests -> PCs]
BY DEF TypeOK, Goto

LEMMA AnswerType ==
  ASSUME NEW r \in Requests, NEW o \in Requests, TypeOK,
         NEW kind \in {"none", "invalid", "mismatch", "conflict", "error", "ok", "replay"},
         Answer(r, kind, o)
  PROVE  reply' \in [Requests -> Replies]
BY DEF TypeOK, Answer, Replies

LEMMA RedisType ==
  ASSUME NEW k, NEW v \in Record \cup {NoRecord}, TypeOK, Redis(k, v)
  PROVE  record' \in [Keys -> Record \cup {NoRecord}]
BY DEF TypeOK, Redis

LEMMA LapseType ==
  ASSUME NEW r \in Requests, TypeOK, Lapse(r)
  PROVE  lapsed' \subseteq Keys
BY DEF TypeOK, Lapse

LEMMA StepType == TypeOK /\ CallOrder /\ [Next]_vars => TypeOK'
<1> SUFFICES ASSUME TypeOK, CallOrder, [Next]_vars PROVE TypeOK'
  OBVIOUS
<1> USE IdemAssumption, RecordFields, GotoType, AnswerType, RedisType, LapseType
    DEF TypeOK, PCs, Downs
<1>1. ASSUME NEW r \in Requests, Intercept(r) PROVE TypeOK'
  BY <1>1 DEF Intercept, Keyed
<1>2. ASSUME NEW r \in Requests, Claim(r) PROVE TypeOK'
  BY <1>2 DEF Claim
<1>3. ASSUME NEW r \in Requests, ClaimThrows(r) PROVE TypeOK'
  BY <1>3 DEF ClaimThrows
<1>4. ASSUME NEW r \in Requests, Lookup(r) PROVE TypeOK'
  <2>1. KeyOf[r] \in Keys
    BY <1>4 DEF Lookup, CallOrder, Keyed
  <2>2. ~ Rejects(r) => record[KeyOf[r]].owner \in Requests
    BY <2>1 DEF Rejects, Live, Record
  <2>3. reply' \in [Requests -> Replies]
    BY <1>4, <2>2 DEF Lookup
  <2> QED BY <1>4, <2>3 DEF Lookup
<1>5. ASSUME NEW r \in Requests, LookupThrows(r) PROVE TypeOK'
  BY <1>5 DEF LookupThrows
<1>6. ASSUME NEW r \in Requests, UnknownSymbol(r) PROVE TypeOK'
  BY <1>6 DEF UnknownSymbol, Throws
<1>7. ASSUME NEW r \in Requests, Forward(r) PROVE TypeOK'
  BY <1>7 DEF Forward
<1>8. ASSUME NEW r \in Requests, Downstream(r) PROVE TypeOK'
  BY <1>8 DEF Downstream
<1>9. ASSUME NEW r \in Requests, Answered(r) PROVE TypeOK'
  BY <1>9 DEF Answered
<1>10. ASSUME NEW r \in Requests, TimesOut(r) PROVE TypeOK'
  BY <1>10 DEF TimesOut, Throws
<1>11. ASSUME NEW r \in Requests, Persist(r) PROVE TypeOK'
  BY <1>11 DEF Persist
<1>12. ASSUME NEW r \in Requests, PersistFails(r) PROVE TypeOK'
  BY <1>12 DEF PersistFails
<1>13. ASSUME NEW r \in Requests, Cleanup(r) PROVE TypeOK'
  BY <1>13 DEF Cleanup
<1>14. ASSUME NEW r \in Requests, Crash(r) PROVE TypeOK'
  BY <1>14 DEF Crash
<1>15. ASSUME NEW k \in Keys, Expire(k) PROVE TypeOK'
  BY <1>15 DEF Expire
<1>16. CASE UNCHANGED vars
  BY <1>16 DEF vars
<1> QED
  BY <1>1, <1>2, <1>3, <1>4, <1>5, <1>6, <1>7, <1>8,
     <1>9, <1>10, <1>11, <1>12, <1>13, <1>14, <1>15, <1>16 DEF Next, Step

LEMMA StepOrder == TypeOK /\ CallOrder /\ [Next]_vars => CallOrder'
<1> SUFFICES ASSUME TypeOK, CallOrder, [Next]_vars PROVE CallOrder'
  OBVIOUS
<1> USE IdemAssumption DEF TypeOK, PCs, Downs, CallOrder, Goto, Keyed
<1>1. ASSUME NEW r \in Requests, Intercept(r) PROVE CallOrder'
  BY <1>1 DEF Intercept
<1>2. ASSUME NEW r \in Requests, Claim(r) PROVE CallOrder'
  BY <1>2 DEF Claim
<1>3. ASSUME NEW r \in Requests, ClaimThrows(r) PROVE CallOrder'
  BY <1>3 DEF ClaimThrows
<1>4. ASSUME NEW r \in Requests, Lookup(r) PROVE CallOrder'
  BY <1>4 DEF Lookup
<1>5. ASSUME NEW r \in Requests, LookupThrows(r) PROVE CallOrder'
  BY <1>5 DEF LookupThrows
<1>6. ASSUME NEW r \in Requests, UnknownSymbol(r) PROVE CallOrder'
  BY <1>6 DEF UnknownSymbol, Throws
<1>7. ASSUME NEW r \in Requests, Forward(r) PROVE CallOrder'
  BY <1>7 DEF Forward
<1>8. ASSUME NEW r \in Requests, Downstream(r) PROVE CallOrder'
  BY <1>8 DEF Downstream
<1>9. ASSUME NEW r \in Requests, Answered(r) PROVE CallOrder'
  BY <1>9 DEF Answered
<1>10. ASSUME NEW r \in Requests, TimesOut(r) PROVE CallOrder'
  BY <1>10 DEF TimesOut, Throws
<1>11. ASSUME NEW r \in Requests, Persist(r) PROVE CallOrder'
  BY <1>11 DEF Persist
<1>12. ASSUME NEW r \in Requests, PersistFails(r) PROVE CallOrder'
  BY <1>12 DEF PersistFails
<1>13. ASSUME NEW r \in Requests, Cleanup(r) PROVE CallOrder'
  BY <1>13 DEF Cleanup
<1>14. ASSUME NEW r \in Requests, Crash(r) PROVE CallOrder'
  BY <1>14 DEF Crash
<1>15. ASSUME NEW k \in Keys, Expire(k) PROVE CallOrder'
  BY <1>15 DEF Expire
<1>16. CASE UNCHANGED vars
  BY <1>16 DEF vars
<1> QED
  BY <1>1, <1>2, <1>3, <1>4, <1>5, <1>6, <1>7, <1>8,
     <1>9, <1>10, <1>11, <1>12, <1>13, <1>14, <1>15, <1>16 DEF Next, Step

LEMMA StepRecordOwner == TypeOK /\ CallOrder /\ RecordOwner /\ Protected /\ [Next]_vars => RecordOwner'
<1> SUFFICES ASSUME TypeOK, CallOrder, RecordOwner, Protected, [Next]_vars PROVE RecordOwner'
  OBVIOUS
<1> USE IdemAssumption, RecordFields
    DEF TypeOK, Downs, CallOrder, RecordOwner, Goto, Keyed, Live, Redis, InFlight, Done
<1>1. ASSUME NEW r \in Requests, Intercept(r) PROVE RecordOwner'
  BY <1>1 DEF Intercept
<1>2. ASSUME NEW r \in Requests, Claim(r) PROVE RecordOwner'
  BY <1>2 DEF Claim
<1>3. ASSUME NEW r \in Requests, ClaimThrows(r) PROVE RecordOwner'
  BY <1>3 DEF ClaimThrows
<1>4. ASSUME NEW r \in Requests, Lookup(r) PROVE RecordOwner'
  BY <1>4 DEF Lookup
<1>5. ASSUME NEW r \in Requests, LookupThrows(r) PROVE RecordOwner'
  BY <1>5 DEF LookupThrows
<1>6. ASSUME NEW r \in Requests, UnknownSymbol(r) PROVE RecordOwner'
  BY <1>6 DEF UnknownSymbol, Throws
<1>7. ASSUME NEW r \in Requests, Forward(r) PROVE RecordOwner'
  BY <1>7 DEF Forward, Record
<1>8. ASSUME NEW r \in Requests, Downstream(r) PROVE RecordOwner'
  BY <1>8 DEF Downstream, Record
<1>9. ASSUME NEW r \in Requests, Answered(r) PROVE RecordOwner'
  BY <1>9 DEF Answered
<1>10. ASSUME NEW r \in Requests, TimesOut(r) PROVE RecordOwner'
  BY <1>10 DEF TimesOut, Throws
<1>11. ASSUME NEW r \in Requests, Persist(r) PROVE RecordOwner'
  BY <1>11 DEF Persist
<1>12. ASSUME NEW r \in Requests, PersistFails(r) PROVE RecordOwner'
  BY <1>12 DEF PersistFails
<1>13. ASSUME NEW r \in Requests, Cleanup(r) PROVE RecordOwner'
  BY <1>13 DEF Cleanup
<1>14. ASSUME NEW r \in Requests, Crash(r) PROVE RecordOwner'
  BY <1>14 DEF Crash
<1>15. ASSUME NEW k \in Keys, Expire(k) PROVE RecordOwner'
  BY <1>15 DEF Expire
<1>16. CASE UNCHANGED vars
  BY <1>16 DEF vars
<1> QED
  BY <1>1, <1>2, <1>3, <1>4, <1>5, <1>6, <1>7, <1>8,
     <1>9, <1>10, <1>11, <1>12, <1>13, <1>14, <1>15, <1>16 DEF Next, Step

LEMMA StepProtected == IInv /\ [Next]_vars => Protected'
<1> SUFFICES ASSUME TypeOK, CallOrder, RecordOwner, Protected, [Next]_vars PROVE Protected'
  BY DEF IInv
<1> USE IdemAssumption, RecordFields
    DEF TypeOK, Downs, CallOrder, Protected, Working, Goto, Keyed, Live, Redis, InFlight, Done
<1>1. ASSUME NEW r \in Requests, Intercept(r) PROVE Protected'
  BY <1>1 DEF Intercept
<1>2. ASSUME NEW r \in Requests, Claim(r) PROVE Protected'
  BY <1>2 DEF Claim, Acquires
<1>3. ASSUME NEW r \in Requests, ClaimThrows(r) PROVE Protected'
  BY <1>3 DEF ClaimThrows, Acquires, Lapse
<1>4. ASSUME NEW r \in Requests, Lookup(r) PROVE Protected'
  BY <1>4 DEF Lookup, Rejects
<1>5. ASSUME NEW r \in Requests, LookupThrows(r) PROVE Protected'
  BY <1>5 DEF LookupThrows
<1>6. ASSUME NEW r \in Requests, UnknownSymbol(r) PROVE Protected'
  BY <1>6 DEF UnknownSymbol, Throws
<1>7. ASSUME NEW r \in Requests, Forward(r) PROVE Protected'
  BY <1>7 DEF Forward
<1>8. ASSUME NEW r \in Requests, Downstream(r) PROVE Protected'
  BY <1>8 DEF Downstream, Lapse
<1>9. ASSUME NEW r \in Requests, Answered(r) PROVE Protected'
  BY <1>9 DEF Answered
<1>10. ASSUME NEW r \in Requests, TimesOut(r) PROVE Protected'
  BY <1>10 DEF TimesOut, Throws, Lapse
<1>11. ASSUME NEW r \in Requests, Persist(r) PROVE Protected'
  BY <1>11 DEF Persist
<1>12. ASSUME NEW r \in Requests, PersistFails(r) PROVE Protected'
  BY <1>12 DEF PersistFails
<1>13. ASSUME NEW r \in Requests, Cleanup(r) PROVE Protected'
  BY <1>13 DEF Cleanup
<1>14. ASSUME NEW r \in Requests, Crash(r) PROVE Protected'
  BY <1>14 DEF Crash
<1>15. ASSUME NEW k \in Keys, Expire(k) PROVE Protected'
  BY <1>15 DEF Expire, RecordOwner
<1>16. CASE UNCHANGED vars
  BY <1>16 DEF vars
<1> QED
  BY <1>1, <1>2, <1>3, <1>4, <1>5, <1>6, <1>7, <1>8,
     <1>9, <1>10, <1>11, <1>12, <1>13, <1>14, <1>15, <1>16 DEF Next, Step

LEMMA StepReplay == IInv /\ [Next]_vars => ReplayFidelity'
<1> SUFFICES ASSUME TypeOK, CallOrder, RecordOwner, ReplayFidelity, [Next]_vars
             PROVE  ReplayFidelity'
  BY DEF IInv
<1> USE IdemAssumption DEF TypeOK, Downs, Replies, CallOrder, ReplayFidelity, Answer, Keyed
<1>1. ASSUME NEW r \in Requests, Intercept(r) PROVE ReplayFidelity'
  BY <1>1 DEF Intercept
<1>2. ASSUME NEW r \in Requests, Claim(r) PROVE ReplayFidelity'
  BY <1>2 DEF Claim
<1>3. ASSUME NEW r \in Requests, ClaimThrows(r) PROVE ReplayFidelity'
  BY <1>3 DEF ClaimThrows
<1>4. ASSUME NEW r \in Requests, Lookup(r) PROVE ReplayFidelity'
  BY <1>4 DEF Lookup, RecordOwner, Rejects, Live, Record
<1>5. ASSUME NEW r \in Requests, LookupThrows(r) PROVE ReplayFidelity'
  BY <1>5 DEF LookupThrows
<1>6. ASSUME NEW r \in Requests, UnknownSymbol(r) PROVE ReplayFidelity'
  BY <1>6 DEF UnknownSymbol, Throws
<1>7. ASSUME NEW r \in Requests, Forward(r) PROVE ReplayFidelity'
  BY <1>7 DEF Forward
<1>8. ASSUME NEW r \in Requests, Downstream(r) PROVE ReplayFidelity'
  BY <1>8 DEF Downstream
<1>9. ASSUME NEW r \in Requests, Answered(r) PROVE ReplayFidelity'
  BY <1>9 DEF Answered
<1>10. ASSUME NEW r \in Requests, TimesOut(r) PROVE ReplayFidelity'
  BY <1>10 DEF TimesOut, Throws
<1>11. ASSUME NEW r \in Requests, Persist(r) PROVE ReplayFidelity'
  BY <1>11 DEF Persist
<1>12. ASSUME NEW r \in Requests, PersistFails(r) PROVE ReplayFidelity'
  BY <1>12 DEF PersistFails
<1>13. ASSUME NEW r \in Requests, Cleanup(r) PROVE ReplayFidelity'
  BY <1>13 DEF Cleanup
<1>14. ASSUME NEW r \in Requests, Crash(r) PROVE ReplayFidelity'
  BY <1>14 DEF Crash
<1>15. ASSUME NEW k \in Keys, Expire(k) PROVE ReplayFidelity'
  BY <1>15 DEF Expire
<1>16. CASE UNCHANGED vars
  BY <1>16 DEF vars
<1> QED
  BY <1>1, <1>2, <1>3, <1>4, <1>5, <1>6, <1>7, <1>8,
     <1>9, <1>10, <1>11, <1>12, <1>13, <1>14, <1>15, <1>16 DEF Next, Step

THEOREM Invariance == Spec => []IInv
<1>1. Init => IInv
  <2> SUFFICES ASSUME Init PROVE IInv
    OBVIOUS
  <2> USE IdemAssumption DEF Init
  <2>1. TypeOK BY DEF TypeOK, PCs, Downs, Replies
  <2>2. CallOrder BY DEF CallOrder
  <2>3. RecordOwner BY DEF RecordOwner, Live
  <2>4. Protected BY DEF Protected, Working
  <2>5. ReplayFidelity BY DEF ReplayFidelity
  <2> QED BY <2>1, <2>2, <2>3, <2>4, <2>5 DEF IInv
<1>2. IInv /\ [Next]_vars => IInv'
  BY StepType, StepOrder, StepRecordOwner, StepProtected, StepReplay DEF IInv
<1> QED BY <1>1, <1>2, PTL DEF Spec

\* Every reachable state is well typed.
THEOREM TypeCorrect == Spec => []TypeOK
<1>1. IInv => TypeOK BY DEF IInv
<1> QED BY <1>1, Invariance, PTL

\* The idempotency guarantee: two attempts under one key are never both executed by
\* portfolio-service unless the key's claim lapsed.
THEOREM AtMostOnce == Spec => []AtMostOncePerKey
<1>1. IInv => AtMostOncePerKey
  <2> SUFFICES ASSUME IInv, NEW r \in Requests, NEW s \in Requests,
                      Keyed(r), KeyOf[r] = KeyOf[s], Bought(r), Bought(s),
                      KeyOf[r] \notin lapsed
               PROVE  r = s
    BY DEF AtMostOncePerKey
  <2>1. /\ record[KeyOf[r]] \in {InFlight(r), Done(r)}
        /\ record[KeyOf[s]] \in {InFlight(s), Done(s)}
    BY DEF IInv, Protected, Bought, Keyed
  <2> QED BY <2>1 DEF InFlight, Done
<1> QED BY <1>1, Invariance, PTL

\* A replayed answer is the answer of a successful attempt with the same key and body.
THEOREM ReplayIsFaithful == Spec => []ReplayFidelity
<1>1. IInv => ReplayFidelity BY DEF IInv
<1> QED BY <1>1, Invariance, PTL

RecordChange(k) ==
  (Live(k) /\ record'[k] # record[k] /\ k \notin lapsed') =>
    /\ record[k].state = "in_flight"
    /\ pc'[record[k].owner] # pc[record[k].owner]

LEMMA StepRecordChange ==
  ASSUME IInv, [Next]_vars, NEW j \in Keys
  PROVE  RecordChange(j)
<1> USE IdemAssumption, RecordFields
    DEF IInv, TypeOK, Protected, Working, RecordChange, Goto, Keyed, Live, Redis, InFlight, Done,
        Record
<1>1. ASSUME NEW r \in Requests, Intercept(r) PROVE RecordChange(j)
  BY <1>1 DEF Intercept
<1>2. ASSUME NEW r \in Requests, Claim(r) PROVE RecordChange(j)
  BY <1>2 DEF Claim, Acquires
<1>3. ASSUME NEW r \in Requests, ClaimThrows(r) PROVE RecordChange(j)
  BY <1>3 DEF ClaimThrows, Lapse, Acquires
<1>4. ASSUME NEW r \in Requests, Lookup(r) PROVE RecordChange(j)
  BY <1>4 DEF Lookup
<1>5. ASSUME NEW r \in Requests, LookupThrows(r) PROVE RecordChange(j)
  BY <1>5 DEF LookupThrows
<1>6. ASSUME NEW r \in Requests, UnknownSymbol(r) PROVE RecordChange(j)
  BY <1>6 DEF UnknownSymbol, Throws
<1>7. ASSUME NEW r \in Requests, Forward(r) PROVE RecordChange(j)
  BY <1>7 DEF Forward
<1>8. ASSUME NEW r \in Requests, Downstream(r) PROVE RecordChange(j)
  BY <1>8 DEF Downstream
<1>9. ASSUME NEW r \in Requests, Answered(r) PROVE RecordChange(j)
  BY <1>9 DEF Answered
<1>10. ASSUME NEW r \in Requests, TimesOut(r) PROVE RecordChange(j)
  BY <1>10 DEF TimesOut, Throws
<1>11. ASSUME NEW r \in Requests, Persist(r) PROVE RecordChange(j)
  BY <1>11 DEF Persist, CallOrder
<1>12. ASSUME NEW r \in Requests, PersistFails(r) PROVE RecordChange(j)
  BY <1>12 DEF PersistFails
<1>13. ASSUME NEW r \in Requests, Cleanup(r) PROVE RecordChange(j)
  BY <1>13 DEF Cleanup, CallOrder
<1>14. ASSUME NEW r \in Requests, Crash(r) PROVE RecordChange(j)
  BY <1>14 DEF Crash
<1>15. ASSUME NEW k \in Keys, Expire(k) PROVE RecordChange(j)
  BY <1>15 DEF Expire
<1>16. CASE UNCHANGED vars
  BY <1>16 DEF vars
<1> HIDE DEF RecordChange
<1> QED
  BY <1>1, <1>2, <1>3, <1>4, <1>5, <1>6, <1>7, <1>8,
     <1>9, <1>10, <1>11, <1>12, <1>13, <1>14, <1>15, <1>16 DEF Next, Step

\* While a key has not lapsed, only its owner ends an in-flight claim.
THEOREM OwnerEndsClaim == Spec => ClaimEndsByOwner
<1>1. IInv /\ [Next]_vars =>
        [\A k \in Keys :
           (Live(k) /\ record[k].state = "in_flight" /\ record'[k] # record[k] /\ k \notin lapsed')
             => pc'[record[k].owner] # pc[record[k].owner]]_vars
  BY StepRecordChange DEF RecordChange
<1> QED BY <1>1, Invariance, PTL DEF Spec, ClaimEndsByOwner

\* While a key has not lapsed, a stored result stays.
THEOREM ResultStays == Spec => ResultIsFinal
<1>1. IInv /\ [Next]_vars =>
        [\A k \in Keys :
           (Live(k) /\ record[k].state = "done" /\ k \notin lapsed')
             => record'[k] = record[k]]_vars
  BY StepRecordChange DEF RecordChange
<1> QED BY <1>1, Invariance, PTL DEF Spec, ResultIsFinal

(***************************************************************************)
(* The interceptor implements KeyedPurchases: Buyers, Kept and Reported    *)
(* change as one of its actions says, or not at all.                       *)
(***************************************************************************)

\* Nobody is answered twice: until the result is being persisted there is no answer.
Unanswered ==
  \A r \in Requests : pc[r] \notin {"settling", "closed", "crashed"} => reply[r].kind = "none"

LEMMA StepUnanswered == TypeOK /\ Unanswered /\ [Next]_vars => Unanswered'
<1> SUFFICES ASSUME TypeOK, Unanswered, [Next]_vars PROVE Unanswered'
  OBVIOUS
<1> USE DEF TypeOK, PCs, Unanswered, Goto, Answer, Replies
<1>1. ASSUME NEW r \in Requests, Step(r) PROVE Unanswered'
  BY <1>1 DEF Step, Intercept, Claim, ClaimThrows, Lookup, LookupThrows, UnknownSymbol, Throws,
              Forward, Answered, TimesOut, Persist, PersistFails, Cleanup
<1>2. ASSUME NEW r \in Requests, Downstream(r) \/ Crash(r) PROVE Unanswered'
  BY <1>2 DEF Downstream, Crash
<1>3. ASSUME NEW k \in Keys, Expire(k) PROVE Unanswered'
  BY <1>3 DEF Expire
<1>4. CASE UNCHANGED vars
  BY <1>4 DEF vars
<1> QED BY <1>1, <1>2, <1>3, <1>4 DEF Next

LEMMA BuyersStay ==
  ASSUME \A r \in Requests : down'[r] = down[r] \/ (~ Bought(r) /\ ~ Bought(r)')
  PROVE  Buyers' = Buyers
<1>1. ASSUME NEW k \in Keys
      PROVE  {r \in Requests : KeyOf[r] = k /\ Bought(r)}
             = {r \in Requests : KeyOf[r] = k /\ Bought(r)'}
  BY DEF Bought
<1> QED BY <1>1 DEF Buyers

LEMMA KeptStays ==
  ASSUME \A k \in Keys : record'[k] = record[k] \/
           (~ (Live(k) /\ record[k].state = "done") /\ ~ (Live(k)' /\ record'[k].state = "done"))
  PROVE  Kept' = Kept
BY DEF Kept, Live

LEMMA ReportedStays ==
  ASSUME \A r \in Requests : Keyed(r) =>
           reply'[r] = reply[r] \/ (reply[r].kind \notin {"ok", "replay"}
                                    /\ reply'[r].kind \notin {"ok", "replay"})
  PROVE  Reported' = Reported
<1>1. ASSUME NEW k \in Keys
      PROVE  {o \in Requests : \E r \in Requests :
                 KeyOf[r] = k /\ reply[r].kind \in {"ok", "replay"} /\ reply[r].of = o}
             = {o \in Requests : \E r \in Requests :
                 KeyOf[r] = k /\ reply'[r].kind \in {"ok", "replay"} /\ reply'[r].of = o}
  BY DEF Keyed
<1> QED BY <1>1 DEF Reported

LEMMA OneBuys ==
  ASSUME NEW r \in Requests, Keyed(r), Bought(r)',
         \A s \in Requests : s # r => down'[s] = down[s]
  PROVE  Buyers' = [Buyers EXCEPT ![KeyOf[r]] = @ \cup {r}]
<1>1. ASSUME NEW k \in Keys, k # KeyOf[r]
      PROVE  {s \in Requests : KeyOf[s] = k /\ Bought(s)'}
             = {s \in Requests : KeyOf[s] = k /\ Bought(s)}
  BY <1>1 DEF Bought
<1>2. {s \in Requests : KeyOf[s] = KeyOf[r] /\ Bought(s)'}
      = {s \in Requests : KeyOf[s] = KeyOf[r] /\ Bought(s)} \cup {r}
  BY DEF Bought
<1> QED BY <1>1, <1>2 DEF Buyers, Keyed

LEMMA OneIsTold ==
  ASSUME NEW r \in Requests, NEW o \in Requests, Keyed(r), Unanswered, TypeOK,
         pc[r] \notin {"settling", "closed", "crashed"},
         reply'[r].kind \in {"ok", "replay"}, reply'[r].of = o,
         \A s \in Requests : s # r => reply'[s] = reply[s]
  PROVE  Reported' = [Reported EXCEPT ![KeyOf[r]] = @ \cup {o}]
<1> DEFINE Told(k) == {q \in Requests : \E s \in Requests :
                         KeyOf[s] = k /\ reply[s].kind \in {"ok", "replay"} /\ reply[s].of = q}
           ToldNext(k) == {q \in Requests : \E s \in Requests :
                         KeyOf[s] = k /\ reply'[s].kind \in {"ok", "replay"} /\ reply'[s].of = q}
<1>1. reply[r].kind = "none"
  BY DEF Unanswered
<1>2. ASSUME NEW k \in Keys, k # KeyOf[r] PROVE ToldNext(k) = Told(k)
  BY <1>2
<1>3. ToldNext(KeyOf[r]) = Told(KeyOf[r]) \cup {o}
  <2>1. ASSUME NEW q \in ToldNext(KeyOf[r]) PROVE q \in Told(KeyOf[r]) \cup {o}
    <3> PICK s \in Requests :
          KeyOf[s] = KeyOf[r] /\ reply'[s].kind \in {"ok", "replay"} /\ reply'[s].of = q
      BY <2>1
    <3> QED BY DEF Keyed
  <2>2. ASSUME NEW q \in Told(KeyOf[r]) PROVE q \in ToldNext(KeyOf[r])
    <3> PICK s \in Requests :
          KeyOf[s] = KeyOf[r] /\ reply[s].kind \in {"ok", "replay"} /\ reply[s].of = q
      BY <2>2
    <3>1. s # r BY <1>1
    <3> QED BY <3>1
  <2>3. o \in ToldNext(KeyOf[r])
    OBVIOUS
  <2> QED BY <2>1, <2>2, <2>3
<1>4. Reported = [k \in Keys |-> Told(k)] /\ Reported' = [k \in Keys |-> ToldNext(k)]
  BY DEF Reported
<1> HIDE DEF Told, ToldNext
<1> QED BY <1>2, <1>3, <1>4 DEF Keyed

\* The promise stutters, or takes the step named.
Idle == UNCHANGED <<Buyers, Kept, Reported, lapsed>>

LEMMA IdleSteps ==
  ASSUME IInv, Unanswered, NEW r \in Requests,
         \/ Intercept(r) \/ Claim(r) \/ LookupThrows(r) \/ UnknownSymbol(r) \/ Forward(r)
         \/ PersistFails(r) \/ Crash(r)
  PROVE  Idle
<1> USE IdemAssumption, RecordFields DEF IInv, TypeOK
<1>1. Buyers' = Buyers
  <2>1. \A s \in Requests : down'[s] = down[s] \/ (~ Bought(s) /\ ~ Bought(s)')
    BY DEF Intercept, Claim, LookupThrows, UnknownSymbol, Forward, PersistFails, Crash,
           CallOrder, Bought
  <2> QED BY <2>1, BuyersStay
<1>2. Kept' = Kept
  <2>1. \A k \in Keys : record'[k] = record[k] \/
           (~ (Live(k) /\ record[k].state = "done") /\ ~ (Live(k)' /\ record'[k].state = "done"))
    BY DEF Intercept, Claim, LookupThrows, UnknownSymbol, Forward, PersistFails, Crash,
           Redis, Acquires, Live, InFlight
  <2> QED BY <2>1, KeptStays
<1>3. Reported' = Reported
  <2>1. \A s \in Requests : reply'[s] = reply[s] \/
          (reply[s].kind \notin {"ok", "replay"} /\ reply'[s].kind \notin {"ok", "replay"})
    BY DEF Intercept, Claim, LookupThrows, UnknownSymbol, Throws, Forward, PersistFails, Crash,
           Answer, Replies, Unanswered
  <2> QED BY <2>1, ReportedStays
<1> QED BY <1>1, <1>2, <1>3 DEF Idle, Intercept, Claim, LookupThrows, UnknownSymbol, Forward,
                                PersistFails, Crash
LEMMA ClaimThrowsStep ==
  ASSUME IInv, Unanswered, NEW r \in Requests, ClaimThrows(r)
  PROVE  Promise!BreakOff(KeyOf[r])
<1> USE IdemAssumption, RecordFields DEF IInv, TypeOK, ClaimThrows
<1>1. Keyed(r) BY DEF CallOrder
<1>2. Buyers' = Buyers BY BuyersStay
<1>3. Kept' = Kept BY KeptStays DEF Redis, Acquires, Live, InFlight
<1>4. Reported' = Reported BY ReportedStays
<1> QED BY <1>1, <1>2, <1>3, <1>4 DEF Promise!BreakOff, Lapse, Keyed

LEMMA LookupStep ==
  ASSUME IInv, Unanswered, NEW r \in Requests, Lookup(r)
  PROVE  Idle \/ \E k \in Keys, o \in Requests : Promise!Report(k, o)
<1> USE IdemAssumption DEF IInv, TypeOK, Lookup
<1>1. Keyed(r) BY DEF CallOrder
<1>2. Buyers' = Buyers /\ Kept' = Kept BY BuyersStay, KeptStays
<1>3. CASE Rejects(r) \/ record[KeyOf[r]].state # "done"
  <2>1. reply'[r].kind \notin {"ok", "replay"} /\ reply[r].kind \notin {"ok", "replay"}
    BY <1>3 DEF Answer, Replies, Unanswered
  <2>2. Reported' = Reported BY <2>1, ReportedStays DEF Answer
  <2> QED BY <1>2, <2>2 DEF Idle
<1>4. CASE ~ Rejects(r) /\ record[KeyOf[r]].state = "done"
  <2> DEFINE o == record[KeyOf[r]].owner
  <2>1. Live(KeyOf[r]) BY <1>4 DEF Rejects
  <2>2. /\ o \in Requests /\ KeyOf[o] = KeyOf[r] /\ down[o] = "bought"
    BY <1>1, <1>4, <2>1 DEF RecordOwner, Keyed, Live, Record
  <2>3. reply'[r].kind = "replay" /\ reply'[r].of = o
    BY <1>4 DEF Answer, Replies
  <2>4. Reported' = [Reported EXCEPT ![KeyOf[r]] = @ \cup {o}]
    BY <1>1, <2>2, <2>3, OneIsTold DEF Answer
  <2>5. o \in Buyers[KeyOf[r]]
    BY <1>1, <2>2 DEF Buyers, Bought, Keyed
  <2> QED BY <1>1, <1>2, <2>2, <2>4, <2>5 DEF Promise!Report, Keyed
<1> QED BY <1>3, <1>4

LEMMA DownstreamStep ==
  ASSUME IInv, NEW r \in Requests, Downstream(r)
  PROVE  Idle \/ \E k \in Keys : Promise!Purchase(k, r)
<1> USE IdemAssumption, RecordFields DEF IInv, TypeOK, Downstream, Downs
<1>1. Kept' = Kept /\ Reported' = Reported BY KeptStays, ReportedStays
<1>2. ~ Bought(r) BY DEF Bought
<1>3. CASE ~ Bought(r)'
  <2>1. Buyers' = Buyers BY <1>2, <1>3, BuyersStay
  <2>2. lapsed' = lapsed BY <1>3 DEF Bought
  <2> QED BY <1>1, <2>1, <2>2 DEF Idle
<1>4. CASE ~ Keyed(r)
  <2>1. Buyers' = Buyers
    <3>1. \A k \in Keys : {s \in Requests : KeyOf[s] = k /\ Bought(s)}
                          = {s \in Requests : KeyOf[s] = k /\ Bought(s)'}
      BY <1>4 DEF Bought, Keyed
    <3> QED BY <3>1 DEF Buyers
  <2>2. lapsed \cup ({KeyOf[r]} \cap Keys) = lapsed BY <1>4 DEF Keyed
  <2>3. lapsed' = lapsed BY <2>2 DEF Lapse
  <2> QED BY <1>1, <2>1, <2>3 DEF Idle
<1>5. CASE Keyed(r) /\ Bought(r)'
  <2>1. Buyers' = [Buyers EXCEPT ![KeyOf[r]] = @ \cup {r}] BY <1>5, OneBuys
  <2>2. r \notin Buyers[KeyOf[r]] BY <1>2, <1>5 DEF Buyers, Keyed
  <2>3. lapsed' \in {lapsed, lapsed \cup {KeyOf[r]}} BY <1>5 DEF Lapse, Keyed
  <2>4. Buyers[KeyOf[r]] = {} \/ KeyOf[r] \in lapsed
    <3> SUFFICES ASSUME NEW s \in Requests, KeyOf[s] = KeyOf[r], Bought(s),
                        KeyOf[r] \notin lapsed
                 PROVE  FALSE
      BY <1>5 DEF Buyers, Keyed
    <3>1. record[KeyOf[r]] \in {InFlight(r), Done(r)} BY <1>5 DEF Protected
    <3>2. record[KeyOf[s]] \in {InFlight(s), Done(s)} BY <1>5 DEF Protected, Bought, Keyed
    <3> QED BY <1>2, <3>1, <3>2 DEF InFlight, Done
  <2> QED BY <1>1, <1>5, <2>1, <2>2, <2>3, <2>4 DEF Promise!Purchase, Keyed
<1> QED BY <1>3, <1>4, <1>5

LEMMA AnsweredStep ==
  ASSUME IInv, Unanswered, NEW r \in Requests, Answered(r)
  PROVE  Idle \/ \E k \in Keys : Promise!Report(k, r)
<1> USE IdemAssumption DEF IInv, TypeOK, Answered
<1>1. Buyers' = Buyers /\ Kept' = Kept BY BuyersStay, KeptStays
<1>2. CASE ~ Keyed(r) \/ down[r] # "bought"
  <2>1. Keyed(r) =>
          reply'[r].kind \notin {"ok", "replay"} /\ reply[r].kind \notin {"ok", "replay"}
    BY <1>2 DEF Answer, Replies, Unanswered
  <2>2. Reported' = Reported BY <2>1, ReportedStays DEF Answer
  <2> QED BY <1>1, <2>2 DEF Idle
<1>3. CASE Keyed(r) /\ down[r] = "bought"
  <2>1. reply'[r].kind = "ok" /\ reply'[r].of = r BY <1>3 DEF Answer, Replies
  <2>2. Reported' = [Reported EXCEPT ![KeyOf[r]] = @ \cup {r}]
    BY <1>3, <2>1, OneIsTold DEF Answer
  <2>3. r \in Buyers[KeyOf[r]] BY <1>3 DEF Buyers, Bought, Keyed
  <2> QED BY <1>1, <1>3, <2>2, <2>3 DEF Promise!Report, Keyed
<1> QED BY <1>2, <1>3

LEMMA TimesOutStep ==
  ASSUME IInv, Unanswered, NEW r \in Requests, TimesOut(r)
  PROVE  Idle \/ \E k \in Keys : Promise!BreakOff(k)
<1> USE IdemAssumption DEF IInv, TypeOK, TimesOut
<1>1. Buyers' = Buyers /\ Kept' = Kept BY BuyersStay, KeptStays
<1>2. \A s \in Requests : reply'[s] = reply[s] \/
        (reply[s].kind \notin {"ok", "replay"} /\ reply'[s].kind \notin {"ok", "replay"})
  BY DEF Throws, Answer, Replies, Unanswered
<1>3. Reported' = Reported BY <1>2, ReportedStays
<1>4. CASE Keyed(r) BY <1>1, <1>3, <1>4 DEF Promise!BreakOff, Lapse, Keyed
<1>5. CASE ~ Keyed(r) BY <1>1, <1>3, <1>5 DEF Idle, Lapse, Keyed
<1> QED BY <1>4, <1>5

LEMMA PersistStep ==
  ASSUME IInv, NEW r \in Requests, Persist(r)
  PROVE  Idle \/ \E k \in Keys : Promise!BreakOff(k) \/ Promise!Keep(k, r)
<1> USE IdemAssumption, RecordFields DEF IInv, TypeOK, Persist
<1>1. Keyed(r) BY DEF CallOrder
<1>2. Buyers' = Buyers /\ Reported' = Reported BY BuyersStay, ReportedStays
<1>3. CASE down[r] = "bought"
  <2>1. Kept' = [Kept EXCEPT ![KeyOf[r]] = r]
    BY <1>1, <1>3 DEF Kept, Redis, Live, Done, Keyed
  <2>2. r \in Buyers[KeyOf[r]] BY <1>1, <1>3 DEF Buyers, Bought, Keyed
  <2>3. Kept[KeyOf[r]] = NoRecord \/ KeyOf[r] \in lapsed
    BY <1>1 DEF Protected, Working, Kept, InFlight, Keyed
  <2> QED BY <1>1, <1>2, <2>1, <2>2, <2>3 DEF Promise!Keep, Keyed
<1>4. CASE down[r] # "bought" /\ KeyOf[r] \in lapsed
  <2>1. Kept' = [Kept EXCEPT ![KeyOf[r]] = NoRecord]
    BY <1>1, <1>4 DEF Kept, Redis, Live, Keyed
  <2>2. lapsed' = lapsed \cup {KeyOf[r]} BY <1>4
  <2> QED BY <1>1, <1>2, <2>1, <2>2 DEF Promise!BreakOff, Keyed
<1>5. CASE down[r] # "bought" /\ KeyOf[r] \notin lapsed
  <2>1. record[KeyOf[r]].state = "in_flight"
    <3>1. record[KeyOf[r]] = InFlight(r) BY <1>1, <1>5 DEF Protected, Working
    <3> QED BY <3>1 DEF InFlight
  <2>2. Kept' = Kept BY <1>5, <2>1, KeptStays DEF Redis, Live
  <2> QED BY <1>2, <2>2 DEF Idle
<1> QED BY <1>3, <1>4, <1>5

LEMMA CleanupStep ==
  ASSUME IInv, Unanswered, NEW r \in Requests, Cleanup(r)
  PROVE  Idle \/ \E k \in Keys : Promise!BreakOff(k)
<1> USE IdemAssumption DEF IInv, TypeOK, Cleanup
<1>1. Keyed(r) BY DEF CallOrder
<1>2. Buyers' = Buyers BY BuyersStay
<1>3. \A s \in Requests : reply'[s] = reply[s] \/
        (reply[s].kind \notin {"ok", "replay"} /\ reply'[s].kind \notin {"ok", "replay"})
  BY DEF Answer, Replies, Unanswered
<1>4. Reported' = Reported BY <1>3, ReportedStays
<1>5. CASE UNCHANGED record
  <2>1. Kept' = Kept BY <1>5, KeptStays
  <2> QED BY <1>2, <1>4, <2>1 DEF Idle
<1>6. CASE Redis(KeyOf[r], NoRecord) /\ KeyOf[r] \in lapsed
  <2>1. Kept' = [Kept EXCEPT ![KeyOf[r]] = NoRecord]
    BY <1>1, <1>6 DEF Kept, Redis, Live, Keyed
  <2>2. lapsed' = lapsed \cup {KeyOf[r]} BY <1>6
  <2> QED BY <1>1, <1>2, <1>4, <2>1, <2>2 DEF Promise!BreakOff, Keyed
<1>7. CASE Redis(KeyOf[r], NoRecord) /\ KeyOf[r] \notin lapsed
  <2>1. record[KeyOf[r]].state = "in_flight"
    <3>1. record[KeyOf[r]] = InFlight(r) BY <1>1, <1>7 DEF Protected, Working
    <3> QED BY <3>1 DEF InFlight
  <2>2. Kept' = Kept BY <1>7, <2>1, KeptStays DEF Redis, Live
  <2> QED BY <1>2, <1>4, <2>2 DEF Idle
<1> QED BY <1>5, <1>6, <1>7

LEMMA ExpireStep ==
  ASSUME IInv, NEW k \in Keys, Expire(k)
  PROVE  Promise!BreakOff(k)
<1> USE IdemAssumption DEF IInv, TypeOK, Expire
<1>1. Buyers' = Buyers /\ Reported' = Reported BY BuyersStay, ReportedStays
<1>2. Kept' = [Kept EXCEPT ![k] = NoRecord]
  BY DEF Kept, Redis, Live
<1> QED BY <1>1, <1>2 DEF Promise!BreakOff

\* The interceptor implements the promise of an Idempotency-Key, for any number of attempts,
\* keys and bodies and every fault: its initial states are the promise's, and every step is
\* a step of the promise or leaves Buyers, Kept, Reported and lapsed alone.
THEOREM Implements == Spec => KeepsThePromise
<1>1. Init => Promise!RegisterInit /\ Unanswered
  <2> SUFFICES ASSUME Init PROVE Promise!RegisterInit /\ Unanswered
    OBVIOUS
  <2> QED BY DEF Init, Promise!RegisterInit, Unanswered, Buyers, Kept, Reported, Bought, Live
<1>2. IInv /\ Unanswered /\ [Next]_vars =>
        [Promise!RegisterNext]_(Promise!registerVars)
  <2> SUFFICES ASSUME IInv, Unanswered, [Next]_vars
               PROVE  Idle \/ Promise!RegisterNext
    BY DEF Idle, Promise!registerVars
  <2>1. ASSUME NEW r \in Requests, Step(r) \/ Downstream(r) \/ Crash(r)
        PROVE  Idle \/ Promise!RegisterNext
    <3>1. Keyed(r) <=> KeyOf[r] \in Keys BY DEF Keyed
    <3>2. ClaimThrows(r) => KeyOf[r] \in Keys
      BY <3>1 DEF ClaimThrows, IInv, CallOrder
    <3> HIDE DEF Idle
    <3> QED BY <2>1, <3>2, IdleSteps, ClaimThrowsStep, LookupStep, DownstreamStep, AnsweredStep,
               TimesOutStep, PersistStep, CleanupStep DEF Step, Promise!RegisterNext
  <2>2. ASSUME NEW k \in Keys, Expire(k) PROVE Promise!RegisterNext
    BY <2>2, ExpireStep DEF Promise!RegisterNext
  <2>3. CASE UNCHANGED vars
    <3>1. Idle
      BY <2>3 DEF vars, Idle, Buyers, Kept, Reported, Bought, Live
    <3> QED BY <3>1
  <2> QED BY <2>1, <2>2, <2>3 DEF Next
<1>3. TypeOK /\ Unanswered /\ [Next]_vars => Unanswered'
  BY StepUnanswered
<1>4. IInv => TypeOK BY DEF IInv
<1> QED BY <1>1, <1>2, <1>3, <1>4, Invariance, PTL DEF Spec, KeepsThePromise, Promise!RegisterSpec
============================================================================
