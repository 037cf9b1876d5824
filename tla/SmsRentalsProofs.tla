--------------------------- MODULE SmsRentalsProofs ---------------------------
(***************************************************************************)
(* Proofs about SmsRentals, for any sets of customers and rentals.         *)
(***************************************************************************)
EXTENDS SmsRentals, TLAPS

-----------------------------------------------------------------------------
(***************************************************************************)
(* Types.                                                                  *)
(***************************************************************************)
LEMMA PriceNat == ASSUME NEW c \in Costs PROVE c \in Nat /\ c + Markup \in Nat
  BY AmountAssumption

LEMMA TypedInit == Init => TypeOK
  <1> SUFFICES ASSUME Init PROVE TypeOK
    OBVIOUS
  <1>1. sale \in [Rental -> Nat]
    BY PriceNat DEF Init
  <1>2. net \in [Rental -> Int]
    BY <1>1 DEF Init
  <1>3. http500 \subseteq Rental /\ events \subseteq {"charge", "adjustment", "refund"} \X Rental
    BY DEF Init
  <1>4. /\ status \in [Rental -> Status] /\ age \in [Rental -> 0..2]
        /\ made \in [Rental -> Nat] /\ paid \in [Rental -> Nat]
        /\ order \in [Rental -> {"none", "waiting", "coded", "over"}]
    BY DEF Init, Status
  <1>5. /\ balance \in [Customer -> Nat] /\ funds \in [Provider -> Int]
        /\ poll \in [Provider -> Poll \cup {NoPoll}] /\ call = NoCall
        /\ numbered = {} /\ completed = {} /\ alerted = {} /\ maintenance = FALSE
    BY AmountAssumption DEF Init
  <1> QED BY <1>1, <1>2, <1>3, <1>4, <1>5 DEF TypeOK

\* A posting keeps the wallet natural, because it refuses what would not.
LEMMA ApplyTyped ==
    ASSUME TypeOK, NEW r \in Rental, NEW amount \in Int,
           NEW e \in {"charge", "adjustment", "refund"},
           ApplyWalletChange(r, e, amount)
    PROVE  /\ balance' \in [Customer -> Nat] /\ net' \in [Rental -> Int]
           /\ events' \subseteq {"charge", "adjustment", "refund"} \X Rental
  <1>1. Owner[r] \in Customer
    BY RentalAssumption
  <1>2. balance[Owner[r]] + amount \in Nat
    BY <1>1 DEF TypeOK, ApplyWalletChange
  <1>3. balance' \in [Customer -> Nat]
    BY <1>1, <1>2 DEF TypeOK, ApplyWalletChange
  <1>4. net' \in [Rental -> Int]
    BY DEF TypeOK, ApplyWalletChange
  <1>5. events' \subseteq {"charge", "adjustment", "refund"} \X Rental
    <2>1. <<e, r>> \in {"charge", "adjustment", "refund"} \X Rental
      OBVIOUS
    <2> QED BY <2>1 DEF TypeOK, ApplyWalletChange
  <1> QED BY <1>3, <1>4, <1>5

LEMMA RefundTyped ==
    ASSUME TypeOK, NEW r \in Rental, RefundRental(r)
    PROVE  /\ status' \in [Rental -> Status]
           /\ balance' \in [Customer -> Nat] /\ net' \in [Rental -> Int]
           /\ events' \subseteq {"charge", "adjustment", "refund"} \X Rental
  <1>1. CASE UNCHANGED <<status, wallet>>
    BY <1>1 DEF TypeOK, wallet
  <1>2. CASE status' = [status EXCEPT ![r] = "refunded"]
             /\ ApplyWalletChange(r, "refund", sale[r])
    <2>1. sale[r] \in Int
      BY DEF TypeOK
    <2>2. status' \in [Rental -> Status]
      BY <1>2 DEF TypeOK, Status
    <2> QED BY <1>2, <2>1, <2>2, ApplyTyped
  <1> QED BY <1>1, <1>2 DEF RefundRental

LEMMA TypedNext == TypeOK /\ [Next]_vars => TypeOK'
  <1> SUFFICES ASSUME TypeOK, [Next]_vars PROVE TypeOK'
    OBVIOUS
  <1> USE DEF row, wallet, provider
  <1>0. CASE UNCHANGED vars
    BY <1>0 DEF vars, TypeOK
  <1>call. ASSUME call # NoCall
           PROVE  /\ call \in Call /\ call.rental \in Rental /\ Source[call.rental] \in Provider
                  /\ call.actual \in Costs /\ call.cost \in Costs
    BY <1>call, RentalAssumption DEF TypeOK, Call
  <1>1. ASSUME NEW r \in Rental, NEW cost \in Costs, StartRental(r, cost) PROVE TypeOK'
    <2>1. cost + Markup \in Nat /\ 0 - (cost + Markup) \in Int
      BY PriceNat
    <2>2. balance' \in [Customer -> Nat] /\ net' \in [Rental -> Int]
          /\ events' \subseteq {"charge", "adjustment", "refund"} \X Rental
      BY <1>1, <2>1, ApplyTyped DEF StartRental
    <2>3. status' \in [Rental -> Status] /\ sale' \in [Rental -> Nat]
      BY <1>1, <2>1 DEF StartRental, TypeOK, Status
    <2>4. call' \in Call
      <3>1. funds[Source[r]] \in Int /\ 0 \in 0..Retries /\ FALSE \in BOOLEAN /\ "asked" \in Step
        BY RentalAssumption, AmountAssumption DEF TypeOK, Step
      <3> QED BY <1>1, <3>1 DEF StartRental, Call
    <2> QED BY <1>1, <2>2, <2>3, <2>4 DEF StartRental, TypeOK
  <1>2. ASSUME NEW cost \in Costs, NEW o \in {"waiting", "coded"}, NEW a \in Step, ProviderRents(cost, o, a) PROVE TypeOK'
    <2>1. call \in Call /\ call.rental \in Rental /\ Source[call.rental] \in Provider
      BY <1>2, <1>call DEF ProviderRents, Asked
    <2>2. call' \in Call
      BY <1>2, <2>1 DEF ProviderRents, Call
    <2>3. /\ order' \in [Rental -> {"none", "waiting", "coded", "over"}]
          /\ made' \in [Rental -> Nat] /\ paid' \in [Rental -> Nat]
          /\ funds' \in [Provider -> Int]
      BY <1>2, <2>1, PriceNat DEF ProviderRents, MakeOrder, TypeOK
    <2> QED BY <1>2, <2>2, <2>3 DEF ProviderRents, TypeOK
  <1>3. ASSUME NEW a \in Error, ProviderFails(a) PROVE TypeOK'
    BY <1>3, <1>call DEF ProviderFails, Asked, TypeOK, Call, Step
  <1>4. ASSUME Retry PROVE TypeOK'
    <2>1. call \in Call /\ call.tries \in 0..Retries /\ call.tries < Retries
      BY <1>4, <1>call DEF Retry, ShouldRetry, Call
    <2>2. call.tries + 1 \in 0..Retries /\ "asked" \in Step
      BY <2>1, AmountAssumption DEF Step
    <2>3. call' \in Call
      BY <1>4, <2>1, <2>2 DEF Retry, Call
    <2> QED BY <1>4, <2>3 DEF Retry, TypeOK
  <1>5. ASSUME CheckBalance PROVE TypeOK'
    BY <1>5, <1>call DEF CheckBalance, TypeOK, Call, Step
  <1>6. ASSUME ConcludeError PROVE TypeOK'
    <2>1. call.rental \in Rental
      BY <1>6, <1>call DEF ConcludeError
    <2>2. /\ status' \in [Rental -> Status] /\ http500' \subseteq Rental
          /\ balance' \in [Customer -> Nat] /\ net' \in [Rental -> Int]
          /\ events' \subseteq {"charge", "adjustment", "refund"} \X Rental
      BY <1>6, <2>1, RefundTyped DEF ConcludeError, MarkUnknown, TypeOK, Status
    <2> QED BY <1>6, <2>2 DEF ConcludeError, TypeOK
  <1>7. ASSUME CancelDearer PROVE TypeOK'
    <2>1. call \in Call /\ call.rental \in Rental /\ Source[call.rental] \in Provider
      BY <1>7, <1>call DEF CancelDearer
    <2>2. /\ order' \in [Rental -> {"none", "waiting", "coded", "over"}]
          /\ made' \in [Rental -> Nat] /\ paid' \in [Rental -> Nat]
          /\ funds' \in [Provider -> Int]
      BY <1>7, <2>1 DEF CancelDearer, CancelNumber, EndOrder, TypeOK
    <2>3. call' \in Call
      BY <1>7, <2>1 DEF CancelDearer, CancelNumber, Call, Step
    <2> QED BY <1>7, <2>2, <2>3 DEF CancelDearer, TypeOK
  <1>8. ASSUME ConcludeDearer PROVE TypeOK'
    <2>1. call.rental \in Rental
      BY <1>8, <1>call DEF ConcludeDearer
    <2>2. /\ status' \in [Rental -> Status] /\ http500' \subseteq Rental
          /\ balance' \in [Customer -> Nat] /\ net' \in [Rental -> Int]
          /\ events' \subseteq {"charge", "adjustment", "refund"} \X Rental
      BY <1>8, <2>1, RefundTyped DEF ConcludeDearer, MarkUnknown, TypeOK, Status
    <2> QED BY <1>8, <2>1, <2>2 DEF ConcludeDearer, TypeOK
  <1>9. ASSUME ConcludeRented PROVE TypeOK'
    <2>1. call.rental \in Rental /\ call.actual \in Costs
      BY <1>9, <1>call DEF ConcludeRented
    <2>2. call.actual + Markup \in Nat /\ sale[call.rental] \in Nat
      BY <2>1, PriceNat DEF TypeOK
    <2>3. sale[call.rental] - (call.actual + Markup) \in Int
      BY <2>2
    <2>4. /\ sale' \in [Rental -> Nat]
          /\ balance' \in [Customer -> Nat] /\ net' \in [Rental -> Int]
          /\ events' \subseteq {"charge", "adjustment", "refund"} \X Rental
      <3>1. CASE UNCHANGED <<sale, wallet>>
        BY <3>1 DEF TypeOK
      <3>2. CASE /\ ApplyWalletChange(call.rental, "adjustment",
                                     sale[call.rental] - (call.actual + Markup))
                 /\ sale' = [sale EXCEPT ![call.rental] = call.actual + Markup]
        BY <3>2, <2>1, <2>2, <2>3, ApplyTyped DEF TypeOK
      <3> QED BY <1>9, <3>1, <3>2 DEF ConcludeRented, AdjustPrice
    <2>5. status' \in [Rental -> Status]
      BY <1>9, <2>1 DEF ConcludeRented, TypeOK, Status
    <2> QED BY <1>9, <2>1, <2>4, <2>5 DEF ConcludeRented, TypeOK
  <1>10. ASSUME NEW r \in Rental, ReconcileHttp500(r) PROVE TypeOK'
    BY <1>10, RefundTyped DEF ReconcileHttp500, TypeOK
  <1>11. ASSUME NEW r \in Rental, MarkStale(r) PROVE TypeOK'
    BY <1>11 DEF MarkStale, MarkUnknown, TypeOK, Status
  <1>12. ASSUME NEW r \in Rental, FetchOtp(r) PROVE TypeOK'
    <2>1. Source[r] \in Provider
      BY RentalAssumption
    <2>2. poll' \in [Provider -> Poll \cup {NoPoll}]
      BY <1>12, <2>1 DEF FetchOtp, Fetched, TypeOK, Poll
    <2> QED BY <1>12, <2>2 DEF FetchOtp, Fetched, TypeOK
  <1>13. ASSUME NEW r \in Rental, FetchExpired(r) PROVE TypeOK'
    <2>1. Source[r] \in Provider
      BY RentalAssumption
    <2>2. poll' \in [Provider -> Poll \cup {NoPoll}]
      BY <1>13, <2>1 DEF FetchExpired, Fetched, TypeOK, Poll
    <2>3. /\ order' \in [Rental -> {"none", "waiting", "coded", "over"}]
          /\ funds' \in [Provider -> Int]
      BY <1>13, <2>1 DEF FetchExpired, EndOrder, TypeOK
    <2> QED BY <1>13, <2>2, <2>3 DEF FetchExpired, Fetched, EndOrder, TypeOK
  <1>14. ASSUME NEW r \in Rental, FetchFails(r) PROVE TypeOK'
    <2>1. Source[r] \in Provider
      BY RentalAssumption
    <2>2. poll' \in [Provider -> Poll \cup {NoPoll}]
      BY <1>14, <2>1 DEF FetchFails, Fetched, TypeOK, Poll
    <2> QED BY <1>14, <2>2 DEF FetchFails, Fetched, TypeOK
  <1>15. ASSUME NEW r \in Rental, PollSettles(r) PROVE TypeOK'
    <2>1. poll' \in [Provider -> Poll \cup {NoPoll}]
      BY <1>15 DEF PollSettles, PollEnds, TypeOK
    <2>2. /\ status' \in [Rental -> Status] /\ completed' \subseteq Rental
          /\ balance' \in [Customer -> Nat] /\ net' \in [Rental -> Int]
          /\ events' \subseteq {"charge", "adjustment", "refund"} \X Rental
      BY <1>15, RefundTyped DEF PollSettles, CompleteRental, TypeOK, Status
    <2> QED BY <1>15, <2>1, <2>2 DEF PollSettles, PollEnds, TypeOK
  <1>16. ASSUME NEW r \in Rental, PollPasses(r) PROVE TypeOK'
    BY <1>16 DEF PollPasses, PollEnds, TypeOK
  <1>17. ASSUME NEW r \in Rental, AlertReview(r) PROVE TypeOK'
    BY <1>17 DEF AlertReview, TypeOK
  <1>18. ASSUME NEW r \in Rental, RefundVerified(r) PROVE TypeOK'
    BY <1>18, RefundTyped DEF RefundVerified, TypeOK
  <1>19. ASSUME NEW r \in Rental, GrowOld(r) PROVE TypeOK'
    BY <1>19 DEF GrowOld, TypeOK
  <1>20. ASSUME NEW r \in Rental, CodeArrives(r) PROVE TypeOK'
    BY <1>20 DEF CodeArrives, TypeOK
  <1>21. ASSUME NEW r \in Rental, OrderEnds(r) PROVE TypeOK'
    <2>1. Source[r] \in Provider
      BY RentalAssumption
    <2>2. /\ order' \in [Rental -> {"none", "waiting", "coded", "over"}]
          /\ funds' \in [Provider -> Int]
      BY <1>21, <2>1 DEF OrderEnds, EndOrder, TypeOK
    <2> QED BY <1>21, <2>2 DEF OrderEnds, EndOrder, TypeOK
  <1>22. ASSUME SwitchMaintenance PROVE TypeOK'
    BY <1>22 DEF SwitchMaintenance, TypeOK
  <1>23. ASSUME Crash PROVE TypeOK'
    <2>1. Asked => call.rental \in Rental /\ Source[call.rental] \in Provider
      BY <1>call DEF Asked
    <2>2. poll' \in [Provider -> Poll \cup {NoPoll}]
      BY <1>23 DEF Crash
    <2>3. /\ order' \in [Rental -> {"none", "waiting", "coded", "over"}]
          /\ made' \in [Rental -> Nat] /\ paid' \in [Rental -> Nat]
          /\ funds' \in [Provider -> Int]
      <3>1. CASE UNCHANGED provider
        BY <3>1 DEF TypeOK
      <3>2. CASE Asked /\ \E cost \in Costs : MakeOrder(call.rental, cost, "waiting")
        BY <3>2, <2>1, PriceNat DEF MakeOrder, TypeOK
      <3> QED BY <1>23, <3>1, <3>2 DEF Crash
    <2> QED BY <1>23, <2>2, <2>3 DEF Crash, TypeOK
  <1> QED
    BY <1>0, <1>1, <1>2, <1>3, <1>4, <1>5, <1>6, <1>7, <1>8, <1>9, <1>10, <1>11, <1>12, <1>13, <1>14, <1>15, <1>16, <1>17, <1>18, <1>19, <1>20, <1>21, <1>22, <1>23
    DEF Next, RentNext, WorkerNext, OthersNext

\* Every variable keeps its type.
THEOREM TypeCorrect == Spec => []TypeOK
  BY TypedInit, TypedNext, PTL DEF Spec

-----------------------------------------------------------------------------
(***************************************************************************)
(* The inductive invariant.                                                *)
(***************************************************************************)
\* What a row, its ledger and its order at the provider have to do with each
\* other.
RowSound(r) ==
    /\ net[r] = IF status[r] = "refunded" THEN 0 ELSE 0 - sale[r]
    /\ <<"refund", r>> \in events <=> status[r] = "refunded"
    /\ status[r] = "absent" =>
         sale[r] = 0 /\ r \notin numbered /\ r \notin http500
         /\ order[r] = "none" /\ made[r] = 0
    /\ made[r] = 0 <=> order[r] = "none"
    /\ r \in numbered => order[r] # "none"
    /\ r \in numbered /\ status[r] = "refunded" => order[r] = "over"
    /\ made[r] <= 1

\* The rental whose request is out: nothing has settled it, and what the
\* request has learnt is so.
CallSound ==
    call # NoCall =>
      LET r == call.rental IN
      /\ ~maintenance
      /\ status[r] \in {"requesting", "unknown"}
      /\ r \notin numbered /\ r \notin http500
      /\ call.step = "asked" => made[r] = 0
      /\ call.step = "http_500" /\ Source[r] = "rentsim" => made[r] = 0
      /\ call.step \in {"rented", "coded", "uncancelled"} => order[r] # "none"
      /\ call.step = "cancelled" => order[r] = "over"

\* The order the worker has read the end of has ended.
PollSound ==
    \A p \in Provider :
      poll[p] # NoPoll /\ poll[p].answer = "over" => order[poll[p].rental] = "over"

\* The rentals of a customer begin in the order of their ids, and only the
\* last one can be unsettled.
InOrder ==
    \A q, r \in Rental : Owner[q] = Owner[r] /\ q < r =>
      /\ status[q] = "absent" => status[r] = "absent"
      /\ status[q] \in {"requesting", "unknown"} => status[r] = "absent"

Sound ==
    /\ \A r \in Rental : RowSound(r)
    /\ CallSound
    /\ PollSound
    /\ InOrder
    /\ maintenance => call = NoCall

Inv == TypeOK /\ Sound

LEMMA SoundInit == Init => Sound
  <1> SUFFICES ASSUME Init PROVE Sound
    OBVIOUS
  <1>1. ASSUME NEW r \in Rental PROVE RowSound(r)
    <2>1. sale[r] \in Nat
      BY PriceNat DEF Init
    <2> QED BY <2>1 DEF Init, RowSound
  <1>2. InOrder
    BY LegacyAssumption, RentalAssumption DEF Init, InOrder
  <1>3. CallSound /\ PollSound /\ call = NoCall
    BY DEF Init, CallSound, PollSound
  <1> QED BY <1>1, <1>2, <1>3 DEF Sound

\* A refund that is due: what it changes.
LEMMA RefundEffect ==
    ASSUME TypeOK, NEW r \in Rental, RowSound(r), RefundRental(r),
           status[r] \in ACTIVE_SMS_STATUSES
    PROVE  /\ status' = [status EXCEPT ![r] = "refunded"]
           /\ net' = [net EXCEPT ![r] = 0]
           /\ events' = events \cup {<<"refund", r>>}
  <1>1. status[r] # "success" /\ <<"refund", r>> \notin events
    BY DEF RowSound, ACTIVE_SMS_STATUSES
  <1>2. /\ status' = [status EXCEPT ![r] = "refunded"]
        /\ ApplyWalletChange(r, "refund", sale[r])
    BY <1>1 DEF RefundRental
  <1>3. net[r] = 0 - sale[r] /\ sale[r] \in Nat
    BY DEF RowSound, ACTIVE_SMS_STATUSES, TypeOK
  <1>4. net[r] + sale[r] = 0
    BY <1>3
  <1> QED BY <1>2, <1>4 DEF ApplyWalletChange

\* The rows after it.
LEMMA RefundSound ==
    ASSUME TypeOK, NEW r \in Rental, \A q \in Rental : RowSound(q), RefundRental(r),
           status[r] \in ACTIVE_SMS_STATUSES,
           UNCHANGED <<sale, order, made>>, http500' \subseteq http500,
           numbered' \subseteq numbered \cup {r},
           r \in numbered' => order[r] = "over"
    PROVE  \A q \in Rental : RowSound(q)'
  <1>1. /\ status' = [status EXCEPT ![r] = "refunded"]
        /\ net' = [net EXCEPT ![r] = 0]
        /\ events' = events \cup {<<"refund", r>>}
    BY RefundEffect
  <1>2. status[r] # "absent"
    BY DEF ACTIVE_SMS_STATUSES
  <1>3. ASSUME NEW q \in Rental, q # r PROVE RowSound(q)'
    <2>1. /\ status'[q] = status[q] /\ net'[q] = net[q]
          /\ <<"refund", q>> \in events' <=> <<"refund", q>> \in events
          /\ q \in numbered' => q \in numbered
          /\ q \in http500' => q \in http500
      BY <1>1, <1>3 DEF TypeOK
    <2> QED BY <2>1 DEF RowSound
  <1>4. RowSound(r)'
    <2>1. status'[r] = "refunded" /\ net'[r] = 0 /\ <<"refund", r>> \in events'
      BY <1>1 DEF TypeOK
    <2>2. made[r] <= 1
      BY DEF RowSound
    <2> QED BY <2>1, <2>2 DEF RowSound
  <1> QED BY <1>3, <1>4

\* A step that touches neither rows nor orders.
LEMMA RowFrame ==
    ASSUME \A q \in Rental : RowSound(q),
           UNCHANGED <<status, sale, net, events, numbered, http500, order, made>>
    PROVE  \A q \in Rental : RowSound(q)'
  BY DEF RowSound

\* A row that is marked unknown.
LEMMA UnknownSound ==
    ASSUME TypeOK, NEW r \in Rental, \A q \in Rental : RowSound(q), NEW h,
           MarkUnknown(r, h), status[r] \in {"requesting", "unknown"},
           UNCHANGED <<sale, net, events, order, made>>,
           numbered' \subseteq numbered \cup {r},
           r \in numbered' => order[r] # "none"
    PROVE  \A q \in Rental : RowSound(q)'
  <1>1. /\ status' = [status EXCEPT ![r] = "unknown"]
        /\ http500' = IF h THEN http500 \cup {r} ELSE http500 \ {r}
    BY DEF MarkUnknown
  <1>2. ASSUME NEW q \in Rental, q # r PROVE RowSound(q)'
    <2>1. /\ status'[q] = status[q]
          /\ q \in numbered' => q \in numbered
          /\ q \in http500' => q \in http500
      BY <1>1, <1>2 DEF TypeOK
    <2> QED BY <2>1 DEF RowSound
  <1>3. RowSound(r)'
    BY <1>1 DEF RowSound, TypeOK
  <1> QED BY <1>2, <1>3

\* Nothing begins and nothing is unsettled that was settled.
LEMMA OrderKept ==
    ASSUME InOrder,
           \A q \in Rental :
             /\ status'[q] = "absent" <=> status[q] = "absent"
             /\ status'[q] \in {"requesting", "unknown"} =>
                  status[q] \in {"requesting", "unknown"}
    PROVE  InOrder'
  BY DEF InOrder

\* An order that has ended has ended for good.
LEMMA PollFrame ==
    ASSUME PollSound, UNCHANGED poll,
           \A q \in Rental : order[q] = "over" => order'[q] = "over",
           poll \in [Provider -> Poll \cup {NoPoll}]
    PROVE  PollSound'
  BY DEF PollSound, Poll

\* Soundness is preserved.  One step per action, one step per conjunct.
LEMMA SoundNext == TypeOK /\ Sound /\ [Next]_vars => Sound'
  <1> SUFFICES ASSUME TypeOK, Sound, [Next]_vars PROVE Sound'
    OBVIOUS
  <1> USE DEF row, wallet, provider
  <1>inv. /\ \A r \in Rental : RowSound(r)
          /\ CallSound /\ PollSound /\ InOrder
          /\ maintenance => call = NoCall
    BY DEF Sound
  <1> USE <1>inv
  <1>call. ASSUME call # NoCall
           PROVE  /\ call \in Call /\ call.rental \in Rental
                  /\ call.actual \in Costs /\ call.cost \in Costs
    BY <1>call DEF TypeOK, Call
  <1>0. ASSUME UNCHANGED vars PROVE Sound'
    <2>11. \A q \in Rental : RowSound(q)'
      BY <1>0, RowFrame DEF vars
    <2>12. CallSound'
      BY <1>0 DEF vars, CallSound
    <2>13. PollSound'
      BY <1>0 DEF vars, PollSound
    <2>14. InOrder'
      BY <1>0 DEF vars, InOrder
    <2>15. maintenance' => call' = NoCall
      BY <1>0 DEF vars
    <2> QED BY <2>11, <2>12, <2>13, <2>14, <2>15 DEF Sound
  <1>1. ASSUME NEW r \in Rental, NEW cost \in Costs, StartRental(r, cost) PROVE Sound'
    <2>11. \A q \in Rental : RowSound(q)'
      <3>0. cost + Markup \in Nat
        BY PriceNat
      <3>1. /\ status' = [status EXCEPT ![r] = "requesting"] /\ sale' = [sale EXCEPT ![r] = cost + Markup]
            /\ net' = [net EXCEPT ![r] = @ + (0 - (cost + Markup))]
            /\ events' = events \cup {<<"charge", r>>} /\ status[r] = "absent"
            /\ UNCHANGED <<numbered, http500, order, made>>
        BY <1>1 DEF StartRental, ApplyWalletChange
      <3>2. ASSUME NEW q \in Rental, q # r PROVE RowSound(q)'
        BY <3>1, <3>2 DEF RowSound, TypeOK
      <3>3. net[r] = 0 /\ sale[r] = 0
        <4>1. sale[r] = 0 /\ net[r] = 0 - sale[r]
          BY <3>1 DEF RowSound
        <4> QED BY <4>1
      <3>4. net'[r] = 0 - (cost + Markup) /\ sale'[r] = cost + Markup /\ status'[r] = "requesting"
        BY <3>0, <3>1, <3>3 DEF TypeOK
      <3>5. <<"refund", r>> \notin events'
        BY <3>1 DEF RowSound
      <3>6. RowSound(r)'
        BY <3>1, <3>4, <3>5 DEF RowSound
      <3> QED BY <3>2, <3>6
    <2>12. CallSound'
      <3>1. call'.rental = r /\ call'.step = "asked" /\ status'[r] = "requesting" /\ ~maintenance'
        BY <1>1 DEF StartRental, TypeOK
      <3>2. r \notin numbered' /\ r \notin http500' /\ made'[r] = 0
        BY <1>1 DEF StartRental, RowSound
      <3> QED BY <3>1, <3>2 DEF CallSound
    <2>13. PollSound'
      BY <1>1, PollFrame DEF StartRental, TypeOK
    <2>14. InOrder'
      <3>1. /\ status' = [status EXCEPT ![r] = "requesting"] /\ status[r] = "absent"
            /\ \A q \in Rental : Owner[q] = Owner[r] /\ q < r => status[q] # "absent"
            /\ Settled(Owner[r])
        BY <1>1 DEF StartRental, MayRent
      <3>2. ASSUME NEW q \in Rental, Owner[q] = Owner[r], status[q] \in {"requesting", "unknown"}
            PROVE  FALSE
        <4>1. \A t \in Rentals(Owner[r]) : t <= q
          <5> SUFFICES ASSUME NEW t \in Rental, Owner[t] = Owner[q], status[t] # "absent", q < t
                       PROVE  FALSE
            BY <3>2, RentalAssumption DEF Rentals
          <5> QED BY <3>2 DEF InOrder
        <4>2. IsLatest(q) /\ q \in Rentals(Owner[r])
          BY <3>2, <4>1 DEF IsLatest, Rentals
        <4> QED BY <3>1, <3>2, <4>2 DEF Settled
      <3>3. ASSUME NEW q \in Rental, NEW t \in Rental, Owner[q] = Owner[t], q < t
            PROVE  /\ status'[q] = "absent" => status'[t] = "absent"
                   /\ status'[q] \in {"requesting", "unknown"} => status'[t] = "absent"
        <4>1. CASE q = r
          BY <4>1, <3>1, <3>3, RentalAssumption DEF InOrder, TypeOK
        <4>2. CASE t = r
          BY <4>2, <3>1, <3>2, <3>3, RentalAssumption DEF TypeOK
        <4>3. CASE q # r /\ t # r
          BY <4>3, <3>1, <3>3 DEF InOrder, TypeOK
        <4> QED BY <4>1, <4>2, <4>3
      <3> QED BY <3>3 DEF InOrder
    <2>15. maintenance' => call' = NoCall
      BY <1>1 DEF StartRental
    <2> QED BY <2>11, <2>12, <2>13, <2>14, <2>15 DEF Sound
  <1>2. ASSUME NEW cost \in Costs, NEW o \in {"waiting", "coded"}, NEW a \in Step, ProviderRents(cost, o, a) PROVE Sound'
    <2>1. call # NoCall /\ call.rental \in Rental /\ call \in Call /\ call.step = "asked"
      BY <1>2, <1>call DEF ProviderRents, Asked
    <2>2. /\ made[call.rental] = 0 /\ call.rental \notin numbered
          /\ status[call.rental] \in {"requesting", "unknown"}
      BY <2>1 DEF CallSound
    <2>3. /\ order' = [order EXCEPT ![call.rental] = o]
          /\ made' = [made EXCEPT ![call.rental] = @ + 1]
      BY <1>2 DEF ProviderRents, MakeOrder
    <2>4. order[call.rental] # "over"
      BY <2>1, <2>2 DEF RowSound
    <2>11. \A q \in Rental : RowSound(q)'
      <3>1. ASSUME NEW q \in Rental, q # call.rental PROVE RowSound(q)'
        BY <1>2, <2>1, <2>3, <3>1 DEF ProviderRents, RowSound, TypeOK
      <3>2. order'[call.rental] = o /\ made'[call.rental] = 1
        BY <2>1, <2>2, <2>3 DEF TypeOK
      <3>3. ASSUME NEW q \in Rental, q = call.rental PROVE RowSound(q)'
        BY <3>3, <1>2, <2>1, <2>2, <3>2 DEF ProviderRents, RowSound
      <3> QED BY <3>1, <3>3
    <2>12. CallSound'
      BY <1>2, <2>1, <2>2, <2>3 DEF ProviderRents, CallSound, Call, TypeOK, Step, Error
    <2>13. PollSound'
      BY <1>2, <2>1, <2>3, <2>4, PollFrame DEF ProviderRents, TypeOK
    <2>14. InOrder'
      BY <1>2 DEF ProviderRents, InOrder
    <2>15. maintenance' => call' = NoCall
      BY <1>2, <2>1 DEF ProviderRents
    <2> QED BY <2>11, <2>12, <2>13, <2>14, <2>15 DEF Sound
  <1>3. ASSUME NEW a \in Error, ProviderFails(a) PROVE Sound'
    <2>11. \A q \in Rental : RowSound(q)'
      BY <1>3, RowFrame DEF ProviderFails
    <2>12. CallSound'
      BY <1>3, <1>call DEF ProviderFails, Asked, CallSound, Call, Error
    <2>13. PollSound'
      BY <1>3, PollFrame DEF ProviderFails, TypeOK
    <2>14. InOrder'
      BY <1>3 DEF ProviderFails, InOrder
    <2>15. maintenance' => call' = NoCall
      BY <1>3 DEF ProviderFails, Asked
    <2> QED BY <2>11, <2>12, <2>13, <2>14, <2>15 DEF Sound
  <1>4. ASSUME Retry PROVE Sound'
    <2>11. \A q \in Rental : RowSound(q)'
      BY <1>4, RowFrame DEF Retry
    <2>12. CallSound'
      BY <1>4, <1>call DEF Retry, ShouldRetry, CallSound, Call
    <2>13. PollSound'
      BY <1>4, PollFrame DEF Retry, TypeOK
    <2>14. InOrder'
      BY <1>4 DEF Retry, InOrder
    <2>15. maintenance' => call' = NoCall
      BY <1>4 DEF Retry, ShouldRetry
    <2> QED BY <2>11, <2>12, <2>13, <2>14, <2>15 DEF Sound
  <1>5. ASSUME CheckBalance PROVE Sound'
    <2>11. \A q \in Rental : RowSound(q)'
      BY <1>5, RowFrame DEF CheckBalance
    <2>12. CallSound'
      BY <1>5, <1>call DEF CheckBalance, CallSound, Call
    <2>13. PollSound'
      BY <1>5, PollFrame DEF CheckBalance, TypeOK
    <2>14. InOrder'
      BY <1>5 DEF CheckBalance, InOrder
    <2>15. maintenance' => call' = NoCall
      BY <1>5 DEF CheckBalance
    <2> QED BY <2>11, <2>12, <2>13, <2>14, <2>15 DEF Sound
  <1>6. ASSUME ConcludeError PROVE Sound'
    <2>1. call # NoCall /\ call.rental \in Rental /\ call' = NoCall
      BY <1>6, <1>call DEF ConcludeError
    <2>2. /\ status[call.rental] \in {"requesting", "unknown"}
          /\ call.rental \notin numbered /\ call.rental \notin http500
      BY <2>1 DEF CallSound
    <2>11. \A q \in Rental : RowSound(q)'
      <3>1. CASE RefundRental(call.rental) /\ http500' = http500 \ {call.rental}
        BY <1>6, <2>1, <2>2, <3>1, RefundSound DEF ConcludeError, ACTIVE_SMS_STATUSES
      <3>2. CASE MarkUnknown(call.rental, call.http500) /\ UNCHANGED wallet
        BY <1>6, <2>1, <2>2, <3>2, UnknownSound DEF ConcludeError
      <3> QED BY <1>6, <3>1, <3>2 DEF ConcludeError
    <2>12. CallSound'
      BY <2>1 DEF CallSound
    <2>13. PollSound'
      BY <1>6, PollFrame DEF ConcludeError, TypeOK
    <2>14. InOrder'
      <3>1. CASE RefundRental(call.rental)
        BY <2>1, <2>2, <3>1, RefundEffect, OrderKept DEF ACTIVE_SMS_STATUSES, TypeOK
      <3>2. CASE MarkUnknown(call.rental, call.http500)
        BY <2>1, <2>2, <3>2, OrderKept DEF MarkUnknown, TypeOK
      <3> QED BY <1>6, <3>1, <3>2 DEF ConcludeError
    <2>15. maintenance' => call' = NoCall
      BY <2>1
    <2> QED BY <2>11, <2>12, <2>13, <2>14, <2>15 DEF Sound
  <1>7. ASSUME ConcludeDearer PROVE Sound'
    <2>1. call # NoCall /\ call.rental \in Rental /\ call' = NoCall
      BY <1>7, <1>call DEF ConcludeDearer
    <2>2. /\ status[call.rental] \in {"requesting", "unknown"}
          /\ call.rental \notin numbered /\ call.rental \notin http500
      BY <2>1 DEF CallSound
    <2>11. \A q \in Rental : RowSound(q)'
      <3>1. CASE RefundRental(call.rental) /\ http500' = http500 \ {call.rental} /\ call.step = "cancelled"
        BY <1>7, <2>1, <2>2, <3>1, RefundSound DEF ConcludeDearer, ACTIVE_SMS_STATUSES, CallSound
      <3>2. CASE MarkUnknown(call.rental, FALSE) /\ UNCHANGED wallet /\ call.step = "uncancelled"
        BY <1>7, <2>1, <2>2, <3>2, UnknownSound DEF ConcludeDearer, CallSound
      <3> QED BY <1>7, <3>1, <3>2 DEF ConcludeDearer
    <2>12. CallSound'
      BY <2>1 DEF CallSound
    <2>13. PollSound'
      BY <1>7, PollFrame DEF ConcludeDearer, TypeOK
    <2>14. InOrder'
      <3>1. CASE RefundRental(call.rental)
        BY <2>1, <2>2, <3>1, RefundEffect, OrderKept DEF ACTIVE_SMS_STATUSES, TypeOK
      <3>2. CASE MarkUnknown(call.rental, FALSE)
        BY <2>1, <2>2, <3>2, OrderKept DEF MarkUnknown, TypeOK
      <3> QED BY <1>7, <3>1, <3>2 DEF ConcludeDearer
    <2>15. maintenance' => call' = NoCall
      BY <2>1
    <2> QED BY <2>11, <2>12, <2>13, <2>14, <2>15 DEF Sound
  <1>8. ASSUME CancelDearer PROVE Sound'
    <2>1. /\ call # NoCall /\ call.rental \in Rental /\ call \in Call
          /\ call.step \in {"rented", "coded"}
      BY <1>8, <1>call DEF CancelDearer
    <2>2. order[call.rental] # "none" /\ call.rental \notin numbered
      BY <2>1 DEF CallSound
    <2>3. \/ order' = [order EXCEPT ![call.rental] = "over"]
          \/ order' = order /\ call'.step = "uncancelled"
      BY <1>8, <2>1 DEF CancelDearer, CancelNumber, EndOrder, Call
    <2>4. /\ UNCHANGED made /\ call'.rental = call.rental
          /\ call'.step \in {"cancelled", "uncancelled"}
      BY <1>8, <2>1 DEF CancelDearer, CancelNumber, EndOrder, Call
    <2>11. \A q \in Rental : RowSound(q)'
      <3>1. ASSUME NEW q \in Rental, q # call.rental PROVE RowSound(q)'
        BY <1>8, <2>1, <2>3, <2>4, <3>1 DEF CancelDearer, RowSound, TypeOK
      <3>2. order'[call.rental] # "none" /\ made'[call.rental] = made[call.rental]
        BY <2>1, <2>2, <2>3, <2>4 DEF TypeOK
      <3>3. RowSound(call.rental) /\ UNCHANGED <<row, wallet>>
        BY <1>8, <2>1 DEF CancelDearer
      <3>4. ASSUME NEW q \in Rental, q = call.rental PROVE RowSound(q)'
        BY <3>4, <2>2, <3>2, <3>3 DEF RowSound
      <3> QED BY <3>1, <3>4
    <2>12. CallSound'
      BY <1>8, <2>1, <2>2, <2>3, <2>4 DEF CancelDearer, CallSound, TypeOK
    <2>13. PollSound'
      BY <1>8, <2>1, <2>3, PollFrame DEF CancelDearer, TypeOK
    <2>14. InOrder'
      BY <1>8 DEF CancelDearer, InOrder
    <2>15. maintenance' => call' = NoCall
      BY <1>8 DEF CancelDearer
    <2> QED BY <2>11, <2>12, <2>13, <2>14, <2>15 DEF Sound
  <1>9. ASSUME ConcludeRented PROVE Sound'
    <2>1. call # NoCall /\ call.rental \in Rental /\ call' = NoCall
      BY <1>9, <1>call DEF ConcludeRented
    <2>2. /\ status[call.rental] \in {"requesting", "unknown"}
          /\ call.rental \notin numbered /\ call.rental \notin http500
      BY <2>1 DEF CallSound
    <2>3. call.actual + Markup \in Nat /\ sale[call.rental] \in Nat /\ order[call.rental] # "none"
      BY <1>9, <1>call, PriceNat DEF ConcludeRented, TypeOK, CallSound
    <2>4. status'[call.rental] \in {"success", "pending"}
      BY <1>9, <2>1 DEF ConcludeRented, TypeOK
    <2>5. \A q \in Rental : q # call.rental => status'[q] = status[q]
      BY <1>9, <2>1 DEF ConcludeRented, TypeOK
    <2>11. \A q \in Rental : RowSound(q)'
      <3>1. /\ \A q \in Rental : q # call.rental => sale'[q] = sale[q] /\ net'[q] = net[q]
            /\ \A q \in Rental : <<"refund", q>> \in events' <=> <<"refund", q>> \in events
        BY <1>9, <2>1 DEF ConcludeRented, AdjustPrice, ApplyWalletChange, TypeOK
      <3>2. net[call.rental] = 0 - sale[call.rental] /\ <<"refund", call.rental>> \notin events
        BY <2>1, <2>2 DEF RowSound
      <3>3. net'[call.rental] = 0 - sale'[call.rental]
        <4>1. CASE UNCHANGED <<sale, wallet>>
          BY <3>2, <4>1
        <4>2. CASE /\ ApplyWalletChange(call.rental, "adjustment",
                                       sale[call.rental] - (call.actual + Markup))
                   /\ sale' = [sale EXCEPT ![call.rental] = call.actual + Markup]
          <5>1. /\ net'[call.rental] = net[call.rental] + (sale[call.rental] - (call.actual + Markup))
                /\ sale'[call.rental] = call.actual + Markup
            BY <4>2, <2>1 DEF ApplyWalletChange, TypeOK
          <5> QED BY <5>1, <3>2, <2>3
        <4> QED BY <1>9, <4>1, <4>2 DEF ConcludeRented, AdjustPrice
      <3>4. ASSUME NEW q \in Rental, q # call.rental PROVE RowSound(q)'
        BY <1>9, <3>1, <3>4, <2>5 DEF ConcludeRented, RowSound
      <3>5. ASSUME NEW q \in Rental, q = call.rental PROVE RowSound(q)'
        <4>1. /\ UNCHANGED <<order, made>> /\ numbered' = numbered \cup {call.rental}
              /\ RowSound(call.rental)
          BY <1>9, <2>1 DEF ConcludeRented
        <4>2. <<"refund", call.rental>> \notin events'
          BY <2>1, <3>1, <3>2
        <4> QED BY <3>5, <4>1, <4>2, <2>3, <2>4, <3>3 DEF RowSound
      <3> QED BY <3>4, <3>5
    <2>12. CallSound'
      BY <2>1 DEF CallSound
    <2>13. PollSound'
      BY <1>9, PollFrame DEF ConcludeRented, TypeOK
    <2>14. InOrder'
      BY <2>1, <2>2, <2>4, <2>5, OrderKept
    <2>15. maintenance' => call' = NoCall
      BY <2>1
    <2> QED BY <2>11, <2>12, <2>13, <2>14, <2>15 DEF Sound
  <1>10. ASSUME NEW r \in Rental, ReconcileHttp500(r) PROVE Sound'
    <2>1. status[r] \in ACTIVE_SMS_STATUSES /\ RefundRental(r) /\ r \notin numbered
      BY <1>10 DEF ReconcileHttp500, ACTIVE_SMS_STATUSES
    <2>2. status' = [status EXCEPT ![r] = "refunded"]
      BY <2>1, RefundEffect
    <2>3. call # NoCall => call.rental # r
      BY <1>10 DEF ReconcileHttp500, CallSound
    <2>11. \A q \in Rental : RowSound(q)'
      BY <1>10, <2>1, RefundSound DEF ReconcileHttp500
    <2>12. CallSound'
      BY <1>10, <2>2, <2>3, <1>call DEF ReconcileHttp500, CallSound, TypeOK
    <2>13. PollSound'
      BY <1>10, PollFrame DEF ReconcileHttp500, TypeOK
    <2>14. InOrder'
      BY <2>1, <2>2, OrderKept DEF TypeOK, ACTIVE_SMS_STATUSES
    <2>15. maintenance' => call' = NoCall
      BY <1>10 DEF ReconcileHttp500
    <2> QED BY <2>11, <2>12, <2>13, <2>14, <2>15 DEF Sound
  <1>11. ASSUME NEW r \in Rental, MarkStale(r) PROVE Sound'
    <2>1. status[r] = "requesting" /\ status' = [status EXCEPT ![r] = "unknown"] /\ http500' = http500 \ {r}
      BY <1>11 DEF MarkStale, MarkUnknown
    <2>11. \A q \in Rental : RowSound(q)'
      BY <1>11, <2>1, UnknownSound DEF MarkStale, RowSound
    <2>12. CallSound'
      BY <1>11, <2>1, <1>call DEF MarkStale, CallSound, TypeOK
    <2>13. PollSound'
      BY <1>11, PollFrame DEF MarkStale, TypeOK
    <2>14. InOrder'
      BY <2>1, OrderKept DEF TypeOK
    <2>15. maintenance' => call' = NoCall
      BY <1>11 DEF MarkStale
    <2> QED BY <2>11, <2>12, <2>13, <2>14, <2>15 DEF Sound
  <1>12. ASSUME NEW r \in Rental, FetchOtp(r) PROVE Sound'
    <2>11. \A q \in Rental : RowSound(q)'
      BY <1>12, RowFrame DEF FetchOtp, Fetched
    <2>12. CallSound'
      BY <1>12 DEF FetchOtp, Fetched, CallSound
    <2>13. PollSound'
      BY <1>12, RentalAssumption DEF FetchOtp, Fetched, PollSound, TypeOK, Poll
    <2>14. InOrder'
      BY <1>12 DEF FetchOtp, Fetched, InOrder
    <2>15. maintenance' => call' = NoCall
      BY <1>12 DEF FetchOtp, Fetched
    <2> QED BY <2>11, <2>12, <2>13, <2>14, <2>15 DEF Sound
  <1>13. ASSUME NEW r \in Rental, FetchFails(r) PROVE Sound'
    <2>11. \A q \in Rental : RowSound(q)'
      BY <1>13, RowFrame DEF FetchFails, Fetched
    <2>12. CallSound'
      BY <1>13 DEF FetchFails, Fetched, CallSound
    <2>13. PollSound'
      BY <1>13, RentalAssumption DEF FetchFails, Fetched, PollSound, TypeOK, Poll
    <2>14. InOrder'
      BY <1>13 DEF FetchFails, Fetched, InOrder
    <2>15. maintenance' => call' = NoCall
      BY <1>13 DEF FetchFails, Fetched
    <2> QED BY <2>11, <2>12, <2>13, <2>14, <2>15 DEF Sound
  <1>14. ASSUME NEW r \in Rental, FetchExpired(r) PROVE Sound'
    <2>1. /\ order[r] = "waiting" /\ order' = [order EXCEPT ![r] = "over"] /\ UNCHANGED made
      BY <1>14 DEF FetchExpired, EndOrder
    <2>11. \A q \in Rental : RowSound(q)'
      BY <1>14, <2>1 DEF FetchExpired, Fetched, RowSound, TypeOK
    <2>12. CallSound'
      BY <1>14, <2>1, <1>call DEF FetchExpired, Fetched, CallSound, TypeOK
    <2>13. PollSound'
      BY <1>14, <2>1, RentalAssumption DEF FetchExpired, Fetched, PollSound, TypeOK, Poll
    <2>14. InOrder'
      BY <1>14 DEF FetchExpired, Fetched, InOrder
    <2>15. maintenance' => call' = NoCall
      BY <1>14 DEF FetchExpired, Fetched
    <2> QED BY <2>11, <2>12, <2>13, <2>14, <2>15 DEF Sound
  <1>15. ASSUME NEW r \in Rental, PollSettles(r) PROVE Sound'
    <2>1. status[r] = "pending" /\ (call # NoCall => call.rental # r)
      BY <1>15 DEF PollSettles, CallSound
    <2>2. UNCHANGED <<sale, numbered, http500, order, made, call, maintenance>>
      BY <1>15 DEF PollSettles, PollEnds
    <2>3. \/ HasAnswer(r, {"code"}) /\ CompleteRental(r) /\ UNCHANGED wallet
          \/ HasAnswer(r, {"over"}) /\ RefundRental(r)
      BY <1>15 DEF PollSettles, HasAnswer
    <2>4. \/ status' = [status EXCEPT ![r] = "success"]
          \/ status' = [status EXCEPT ![r] = "refunded"]
      BY <2>1, <2>3, RefundEffect DEF CompleteRental, ACTIVE_SMS_STATUSES
    <2>11. \A q \in Rental : RowSound(q)'
      <3>1. CASE HasAnswer(r, {"code"}) /\ CompleteRental(r) /\ UNCHANGED wallet
        BY <2>1, <2>2, <3>1 DEF CompleteRental, RowSound, TypeOK
      <3>2. CASE HasAnswer(r, {"over"}) /\ RefundRental(r)
        <4>1. order[r] = "over"
          BY <3>2, RentalAssumption DEF HasAnswer, PollSound
        <4> QED BY <2>1, <2>2, <3>2, <4>1, RefundSound DEF ACTIVE_SMS_STATUSES
      <3> QED BY <2>3, <3>1, <3>2
    <2>12. CallSound'
      BY <2>1, <2>2, <2>4, <1>call DEF CallSound, TypeOK
    <2>13. PollSound'
      BY <1>15, <2>2 DEF PollSettles, PollEnds, PollSound, TypeOK
    <2>14. InOrder'
      BY <2>1, <2>4, OrderKept DEF TypeOK
    <2>15. maintenance' => call' = NoCall
      BY <1>15 DEF PollSettles, PollEnds
    <2> QED BY <2>11, <2>12, <2>13, <2>14, <2>15 DEF Sound
  <1>16. ASSUME NEW r \in Rental, PollPasses(r) PROVE Sound'
    <2>11. \A q \in Rental : RowSound(q)'
      BY <1>16, RowFrame DEF PollPasses, PollEnds
    <2>12. CallSound'
      BY <1>16 DEF PollPasses, PollEnds, CallSound
    <2>13. PollSound'
      BY <1>16 DEF PollPasses, PollEnds, PollSound, TypeOK
    <2>14. InOrder'
      BY <1>16 DEF PollPasses, PollEnds, InOrder
    <2>15. maintenance' => call' = NoCall
      BY <1>16 DEF PollPasses, PollEnds
    <2> QED BY <2>11, <2>12, <2>13, <2>14, <2>15 DEF Sound
  <1>17. ASSUME NEW r \in Rental, AlertReview(r) PROVE Sound'
    <2>11. \A q \in Rental : RowSound(q)'
      BY <1>17, RowFrame DEF AlertReview
    <2>12. CallSound'
      BY <1>17 DEF AlertReview, CallSound
    <2>13. PollSound'
      BY <1>17, PollFrame DEF AlertReview, TypeOK
    <2>14. InOrder'
      BY <1>17 DEF AlertReview, InOrder
    <2>15. maintenance' => call' = NoCall
      BY <1>17 DEF AlertReview
    <2> QED BY <2>11, <2>12, <2>13, <2>14, <2>15 DEF Sound
  <1>18. ASSUME NEW r \in Rental, RefundVerified(r) PROVE Sound'
    <2>1. status[r] \in ACTIVE_SMS_STATUSES /\ RefundRental(r)
      BY <1>18 DEF RefundVerified, ACTIVE_SMS_STATUSES
    <2>2. status' = [status EXCEPT ![r] = "refunded"]
      BY <2>1, RefundEffect
    <2>3. call # NoCall => call.rental # r
      BY <1>18 DEF RefundVerified
    <2>11. \A q \in Rental : RowSound(q)'
      <3>1. r \in numbered => order[r] = "over"
        BY <1>18 DEF RefundVerified, RowSound
      <3> QED BY <1>18, <2>1, <3>1, RefundSound DEF RefundVerified
    <2>12. CallSound'
      BY <1>18, <2>2, <2>3, <1>call DEF RefundVerified, CallSound, TypeOK
    <2>13. PollSound'
      BY <1>18, PollFrame DEF RefundVerified, TypeOK
    <2>14. InOrder'
      BY <2>1, <2>2, OrderKept DEF TypeOK, ACTIVE_SMS_STATUSES
    <2>15. maintenance' => call' = NoCall
      BY <1>18 DEF RefundVerified
    <2> QED BY <2>11, <2>12, <2>13, <2>14, <2>15 DEF Sound
  <1>19. ASSUME NEW r \in Rental, GrowOld(r) PROVE Sound'
    <2>11. \A q \in Rental : RowSound(q)'
      BY <1>19, RowFrame DEF GrowOld
    <2>12. CallSound'
      BY <1>19 DEF GrowOld, CallSound
    <2>13. PollSound'
      BY <1>19, PollFrame DEF GrowOld, TypeOK
    <2>14. InOrder'
      BY <1>19 DEF GrowOld, InOrder
    <2>15. maintenance' => call' = NoCall
      BY <1>19 DEF GrowOld
    <2> QED BY <2>11, <2>12, <2>13, <2>14, <2>15 DEF Sound
  <1>20. ASSUME NEW r \in Rental, CodeArrives(r) PROVE Sound'
    <2>1. order[r] = "waiting" /\ order' = [order EXCEPT ![r] = "coded"]
      BY <1>20 DEF CodeArrives
    <2>11. \A q \in Rental : RowSound(q)'
      BY <1>20, <2>1 DEF CodeArrives, RowSound, TypeOK
    <2>12. CallSound'
      BY <1>20, <2>1, <1>call DEF CodeArrives, CallSound, TypeOK
    <2>13. PollSound'
      BY <1>20, <2>1, PollFrame DEF CodeArrives, TypeOK
    <2>14. InOrder'
      BY <1>20 DEF CodeArrives, InOrder
    <2>15. maintenance' => call' = NoCall
      BY <1>20 DEF CodeArrives
    <2> QED BY <2>11, <2>12, <2>13, <2>14, <2>15 DEF Sound
  <1>21. ASSUME NEW r \in Rental, OrderEnds(r) PROVE Sound'
    <2>1. /\ order[r] = "waiting" /\ order' = [order EXCEPT ![r] = "over"] /\ UNCHANGED made
      BY <1>21 DEF OrderEnds, EndOrder
    <2>11. \A q \in Rental : RowSound(q)'
      BY <1>21, <2>1 DEF OrderEnds, RowSound, TypeOK
    <2>12. CallSound'
      BY <1>21, <2>1, <1>call DEF OrderEnds, CallSound, TypeOK
    <2>13. PollSound'
      BY <1>21, <2>1, PollFrame DEF OrderEnds, TypeOK
    <2>14. InOrder'
      BY <1>21 DEF OrderEnds, InOrder
    <2>15. maintenance' => call' = NoCall
      BY <1>21 DEF OrderEnds
    <2> QED BY <2>11, <2>12, <2>13, <2>14, <2>15 DEF Sound
  <1>22. ASSUME SwitchMaintenance PROVE Sound'
    <2>11. \A q \in Rental : RowSound(q)'
      BY <1>22, RowFrame DEF SwitchMaintenance
    <2>12. CallSound'
      BY <1>22 DEF SwitchMaintenance, CallSound
    <2>13. PollSound'
      BY <1>22, PollFrame DEF SwitchMaintenance, TypeOK
    <2>14. InOrder'
      BY <1>22 DEF SwitchMaintenance, InOrder
    <2>15. maintenance' => call' = NoCall
      BY <1>22 DEF SwitchMaintenance
    <2> QED BY <2>11, <2>12, <2>13, <2>14, <2>15 DEF Sound
  <1>23. ASSUME Crash PROVE Sound'
    <2>1. \/ UNCHANGED <<order, made>>
          \/ /\ call # NoCall /\ call.rental \in Rental /\ call.step = "asked"
             /\ order' = [order EXCEPT ![call.rental] = "waiting"]
             /\ made' = [made EXCEPT ![call.rental] = @ + 1]
      BY <1>23, <1>call DEF Crash, Asked, MakeOrder
    <2>2. /\ UNCHANGED <<status, sale, net, events, numbered, http500>>
          /\ call' = NoCall
      BY <1>23 DEF Crash
    <2>11. \A q \in Rental : RowSound(q)'
      <3>1. CASE UNCHANGED <<order, made>>
        BY <2>2, <3>1, RowFrame
      <3>2. CASE /\ call # NoCall /\ call.rental \in Rental /\ call.step = "asked"
                 /\ order' = [order EXCEPT ![call.rental] = "waiting"]
                 /\ made' = [made EXCEPT ![call.rental] = @ + 1]
        <4>1. order'[call.rental] = "waiting" /\ made'[call.rental] = 1
              /\ status[call.rental] \in {"requesting", "unknown"}
          BY <3>2 DEF CallSound, TypeOK
        <4>2. ASSUME NEW q \in Rental, q # call.rental PROVE RowSound(q)'
          BY <2>2, <3>2, <4>2 DEF RowSound, TypeOK
        <4>3. ASSUME NEW q \in Rental, q = call.rental PROVE RowSound(q)'
          BY <4>3, <2>2, <3>2, <4>1 DEF RowSound
        <4> QED BY <4>2, <4>3
      <3> QED BY <2>1, <3>1, <3>2
    <2>12. CallSound'
      BY <2>2 DEF CallSound
    <2>13. PollSound'
      BY <1>23 DEF Crash, PollSound
    <2>14. InOrder'
      BY <2>2 DEF InOrder
    <2>15. maintenance' => call' = NoCall
      BY <2>2
    <2> QED BY <2>11, <2>12, <2>13, <2>14, <2>15 DEF Sound
  <1> QED
    BY <1>0, <1>1, <1>2, <1>3, <1>4, <1>5, <1>6, <1>7, <1>8, <1>9, <1>10, <1>11, <1>12, <1>13, <1>14, <1>15, <1>16, <1>17, <1>18, <1>19, <1>20, <1>21, <1>22, <1>23
    DEF Next, RentNext, WorkerNext, OthersNext

\* The inductive invariant holds in every reachable state.
THEOREM RentalsSound == Spec => []Inv
  <1>1. Init => Inv
    BY TypedInit, SoundInit DEF Inv
  <1>2. Inv /\ [Next]_vars => Inv'
    BY TypedNext, SoundNext DEF Inv
  <1> QED BY <1>1, <1>2, PTL DEF Spec

-----------------------------------------------------------------------------
(***************************************************************************)
(* The properties.                                                         *)
(***************************************************************************)
\* The ledger of a rental agrees with its row, whatever was adjusted and
\* whoever refunds it.
THEOREM LedgerAgrees == Spec => []NetIsSale
  <1>1. Inv => NetIsSale
    BY DEF Inv, Sound, RowSound, NetIsSale
  <1> QED BY <1>1, RentalsSound, PTL

\* A customer with a rental whose result is not known gets no other.
THEOREM SettledBeforeNext == Spec => []OneUnsettled
  <1>1. Inv => OneUnsettled
    <2> SUFFICES ASSUME InOrder, NEW q \in Rental, NEW r \in Rental,
                        Owner[q] = Owner[r], q # r,
                        {status[q], status[r]} \subseteq {"requesting", "unknown"}
                 PROVE  FALSE
      BY DEF Inv, Sound, OneUnsettled
    <2>1. q < r \/ r < q
      BY RentalAssumption
    <2> QED BY <2>1 DEF InOrder
  <1> QED BY <1>1, RentalsSound, PTL

\* Repeated requests make one order.
THEOREM OrderedOnce == Spec => []OneOrder
  <1>1. Inv => OneOrder
    BY DEF Inv, Sound, RowSound, OneOrder
  <1> QED BY <1>1, RentalsSound, PTL

\* A refunded customer holds no number that can still receive the code.
THEOREM RefundReleases == Spec => []RefundedIsOver
  <1>1. Inv => RefundedIsOver
    BY DEF Inv, Sound, RowSound, RefundedIsOver, TypeOK
  <1> QED BY <1>1, RentalsSound, PTL

\* The switch and the requests exclude each other.
THEOREM SwitchWaits == Spec => []MaintenanceIsQuiet
  <1>1. Inv => MaintenanceIsQuiet
    BY DEF Inv, Sound, MaintenanceIsQuiet
  <1> QED BY <1>1, RentalsSound, PTL

\* A success or a refund is never taken back, not even by an answer that
\* comes after the rental was held for review.
THEOREM OutcomeIsFinal == Spec => OutcomeStands
  <1>1. Inv /\ [Next]_vars =>
          [\A r \in Rental :
             status[r] \in {"success", "refunded"} => status'[r] = status[r]]_vars
    <2> SUFFICES ASSUME Inv, Next, NEW q \in Rental, status[q] \in {"success", "refunded"}
                 PROVE  status'[q] = status[q]
      OBVIOUS
    <2> USE DEF row, wallet, provider
    <2>1. /\ TypeOK /\ RowSound(q)
          /\ call # NoCall => call.rental # q /\ call.rental \in Rental
      BY DEF Inv, Sound, CallSound, TypeOK, Call
    <2>2. ASSUME NEW r \in Rental, RefundRental(r) PROVE status'[q] = status[q]
      BY <2>1, <2>2 DEF RefundRental, TypeOK, RowSound
    <2>3. ASSUME RentNext PROVE status'[q] = status[q]
      <3>1. ASSUME NEW r \in Rental, NEW cost \in Costs, StartRental(r, cost)
            PROVE  status'[q] = status[q]
        BY <3>1, <2>1 DEF StartRental, TypeOK
      <3>2. ASSUME ConcludeError PROVE status'[q] = status[q]
        BY <3>2, <2>1, <2>2 DEF ConcludeError, MarkUnknown, TypeOK
      <3>3. ASSUME ConcludeDearer PROVE status'[q] = status[q]
        BY <3>3, <2>1, <2>2 DEF ConcludeDearer, MarkUnknown, TypeOK
      <3>4. ASSUME ConcludeRented PROVE status'[q] = status[q]
        BY <3>4, <2>1 DEF ConcludeRented, TypeOK
      <3>5. ASSUME \/ \E cost \in Costs, o \in {"waiting", "coded"}, a \in Step :
                         ProviderRents(cost, o, a)
                   \/ \E a \in Error : ProviderFails(a)
                   \/ Retry \/ CheckBalance \/ CancelDearer
            PROVE  status'[q] = status[q]
        BY <3>5 DEF ProviderRents, ProviderFails, Retry, CheckBalance, CancelDearer
      <3> QED BY <2>3, <3>1, <3>2, <3>3, <3>4, <3>5 DEF RentNext
    <2>4. ASSUME NEW r \in Rental, WorkerNext(r) PROVE status'[q] = status[q]
      <3>1. CASE ReconcileHttp500(r)
        BY <3>1, <2>2 DEF ReconcileHttp500
      <3>2. CASE MarkStale(r)
        BY <3>2, <2>1 DEF MarkStale, MarkUnknown, TypeOK
      <3>3. CASE PollSettles(r)
        BY <3>3, <2>1, <2>2 DEF PollSettles, CompleteRental, TypeOK
      <3>4. CASE FetchOtp(r) \/ FetchExpired(r) \/ FetchFails(r) \/ PollPasses(r) \/ AlertReview(r)
        BY <3>4 DEF FetchOtp, FetchExpired, FetchFails, Fetched, PollPasses, AlertReview
      <3> QED BY <2>4, <3>1, <3>2, <3>3, <3>4 DEF WorkerNext
    <2>5. ASSUME OthersNext PROVE status'[q] = status[q]
      BY <2>5, <2>2 DEF OthersNext, RefundVerified, GrowOld, CodeArrives, OrderEnds,
                        SwitchMaintenance, Crash
    <2> QED BY <2>3, <2>4, <2>5 DEF Next
  <1> QED BY <1>1, RentalsSound, PTL DEF Spec, OutcomeStands
=============================================================================
