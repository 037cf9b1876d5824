------------------------------ MODULE SmsRentals ------------------------------
(***************************************************************************)
(* Phone numbers rented to receive one code (app/sms_rentals.py): the      *)
(* charge, the request to a provider (app/rentsim.py, app/autosms.py) and  *)
(* its ambiguous answers, the worker that polls for codes and reconciles   *)
(* (app/main.py), the refund and the maintenance switch                    *)
(* (app/maintenance.py, app/dashboard.py).                                 *)
(*                                                                         *)
(* One request is out at a time: renting runs under the maintenance lock   *)
(* of the process.  An action is one committed transaction or one answer   *)
(* of a provider, so that the worker, the operator, time and a crash come  *)
(* between the charge, the answer and what is made of it.                  *)
(***************************************************************************)
EXTENDS Integers, FiniteSets

CONSTANTS
    Customer,
    Rental,      \* ids of rentals, naturals in creation order
    Owner,       \* [Rental -> Customer]
    Source,      \* [Rental -> Provider]: the provider that is asked
    Legacy,      \* rentals an earlier release may have left unknown by an HTTP 500
    Costs,       \* prices of the providers
    Markup,      \* what the shop adds
    Retries,     \* length of RENTSIM_HTTP_500_RETRY_DELAYS
    Funds,       \* what the shop's account at a provider holds at first
    Wallet,      \* what a customer's wallet holds at first
    NoCall,      \* no request is out
    NoPoll       \* the worker asks for no code

Provider == {"autosms", "rentsim"}

ASSUME RentalAssumption ==
    /\ Rental \subseteq Nat
    /\ Owner \in [Rental -> Customer]
    /\ Source \in [Rental -> Provider]
    /\ Legacy \subseteq {r \in Rental : Source[r] = "rentsim"}
ASSUME LegacyAssumption ==
    \A q \in Legacy, r \in Rental : Owner[q] = Owner[r] => q <= r
ASSUME AmountAssumption ==
    /\ Costs \subseteq Nat \ {0} /\ Markup \in Nat /\ Retries \in Nat
    /\ Funds \in Nat /\ Wallet \in Nat

VARIABLES
    status,      \* SmsRental.status, "absent" for an unused id
    sale,        \* SmsRental.sale_amount
    numbered,    \* rentals with a provider_order_id and a phone number
    http500,     \* rentals whose last_error is "provider_http_500"
    completed,   \* rentals whose otp_code is stored and commission awarded
    alerted,     \* rentals with a review_alerted_at
    age,         \* 0, 1: the cooldown has passed, 2: the recovery time too
    balance,     \* User.balance
    net,         \* sum of the WalletTransaction rows of a rental
    events,      \* their event keys
    maintenance, \* FeatureFlag sms_rental_maintenance
    call,        \* the request that is out
    poll,        \* the answer each provider's worker has fetched
    order,       \* what the provider holds for a rental
    made,        \* how many orders it has made for it
    paid,        \* what the last one cost
    funds        \* the shop's account at a provider

row == <<status, sale, numbered, http500, completed, alerted>>
wallet == <<balance, net, events>>
provider == <<order, made, paid, funds>>
vars == <<row, age, wallet, maintenance, call, poll, provider>>

Status == {"absent", "requesting", "pending", "unknown", "success", "refunded"}
ACTIVE_SMS_STATUSES == {"requesting", "pending", "unknown"}
Error == {"refused", "unavailable", "invalid", "http_500"}
Step == {"asked", "rented", "coded", "doubt", "clear", "cancelled", "uncancelled"} \cup Error
Call == [rental: Rental, step: Step, cost: Costs, actual: Costs, seen: Int,
         tries: 0..Retries, http500: BOOLEAN]
Poll == [rental: Rental, answer: {"code", "over", "pending", "error"}]

TypeOK ==
    /\ status \in [Rental -> Status]
    /\ sale \in [Rental -> Nat]
    /\ numbered \subseteq Rental /\ http500 \subseteq Rental
    /\ completed \subseteq Rental /\ alerted \subseteq Rental
    /\ age \in [Rental -> 0..2]
    /\ balance \in [Customer -> Nat]
    /\ net \in [Rental -> Int]
    /\ events \subseteq {"charge", "adjustment", "refund"} \X Rental
    /\ maintenance \in BOOLEAN
    /\ call \in Call \cup {NoCall}
    /\ poll \in [Provider -> Poll \cup {NoPoll}]
    /\ order \in [Rental -> {"none", "waiting", "coded", "over"}]
    /\ made \in [Rental -> Nat]
    /\ paid \in [Rental -> Nat]
    /\ funds \in [Provider -> Int]
-----------------------------------------------------------------------------
\* wallet_ledger.apply_wallet_change: a key is posted once, or the
\* transaction of the caller fails.
ApplyWalletChange(r, event, amount) ==
    /\ <<event, r>> \notin events
    /\ balance[Owner[r]] + amount >= 0
    /\ balance' = [balance EXCEPT ![Owner[r]] = @ + amount]
    /\ net' = [net EXCEPT ![r] = @ + amount]
    /\ events' = events \cup {<<event, r>>}

\* _refund_sms_rental.  refunded_at is set where the refund is posted.
RefundRental(r) ==
    IF status[r] = "success" \/ <<"refund", r>> \in events
    THEN UNCHANGED <<status, wallet>>
    ELSE /\ status' = [status EXCEPT ![r] = "refunded"]
         /\ ApplyWalletChange(r, "refund", sale[r])

\* _mark_unknown_sms_rental; h: the reason is "provider_http_500".
MarkUnknown(r, h) ==
    IF status[r] \in {"success", "refunded"} THEN UNCHANGED <<status, http500>>
    ELSE /\ status' = [status EXCEPT ![r] = "unknown"]
         /\ http500' = IF h THEN http500 \cup {r} ELSE http500 \ {r}

\* _complete_sms_success.
CompleteRental(r) ==
    IF status[r] = "success" THEN UNCHANGED <<status, completed>>
    ELSE /\ status' = [status EXCEPT ![r] = "success"]
         /\ completed' = completed \cup {r}
-----------------------------------------------------------------------------
(***************************************************************************)
(* Renting a number.                                                       *)
(***************************************************************************)
Rentals(c) == {r \in Rental : Owner[r] = c /\ status[r] # "absent"}
IsLatest(r) == r \in Rentals(Owner[r]) /\ \A q \in Rentals(Owner[r]) : q <= r

\* The last rental of the customer lets another one begin.
Settled(c) ==
    \A r \in Rentals(c) : IsLatest(r) =>
      status[r] \notin {"unknown", "requesting"} /\ age[r] >= 1

\* Faulty variant: only the cooldown counts.
CooledDown(c) == \A r \in Rentals(c) : IsLatest(r) => age[r] >= 1

MayRent(c) == Settled(c)

\* The lock, the snapshot of price and funds, and the charge.  Blocked
\* customers and missing stock only refuse.
StartRental(r, cost) ==
    LET c == Owner[r]  price == cost + Markup IN
    /\ call = NoCall /\ ~maintenance
    /\ status[r] = "absent"
    /\ \A q \in Rental : Owner[q] = c /\ q < r => status[q] # "absent"
    /\ funds[Source[r]] >= cost
    /\ MayRent(c)
    /\ balance[c] >= price
    /\ status' = [status EXCEPT ![r] = "requesting"]
    /\ sale' = [sale EXCEPT ![r] = price]
    /\ ApplyWalletChange(r, "charge", 0 - price)
    /\ call' = [rental |-> r, step |-> "asked", cost |-> cost, actual |-> cost,
                seen |-> funds[Source[r]], tries |-> 0, http500 |-> FALSE]
    /\ UNCHANGED <<numbered, http500, completed, alerted, age, maintenance, poll, provider>>

Asked == call # NoCall /\ call.step = "asked"

\* An error that may hide an order (rent_error_is_ambiguous).  "invalid"
\* stands for unreadable answers and for server errors other than 500.
Ambiguous(p, e) ==
    \/ e = "invalid"
    \/ p = "autosms" /\ e \in {"unavailable", "http_500"}

\* The provider makes an order.  Its answer may be lost; what RentSim answers
\* with HTTP 500 has made none.  RentSim names no price.
MakeOrder(r, cost, o) ==
    /\ order' = [order EXCEPT ![r] = o]
    /\ made' = [made EXCEPT ![r] = @ + 1]
    /\ paid' = [paid EXCEPT ![r] = cost]
    /\ funds' = [funds EXCEPT ![Source[r]] = @ - cost]

ProviderRents(cost, o, answer) ==
    LET r == call.rental IN
    /\ Asked
    /\ Source[r] = "rentsim" => cost = call.cost /\ answer # "http_500"
    /\ Source[r] = "autosms" => o = "waiting"
    /\ \/ answer = (IF o = "coded" THEN "coded" ELSE "rented")
       \/ answer \in {"unavailable", "invalid", "http_500"}
    /\ MakeOrder(r, cost, o)
    /\ call' = [call EXCEPT !.step = answer, !.actual = cost,
                            !.http500 = (answer = "http_500")]
    /\ UNCHANGED <<row, age, wallet, maintenance, poll>>

\* No order is made.
ProviderFails(answer) ==
    /\ Asked
    /\ answer \in Error
    /\ call' = [call EXCEPT !.step = answer, !.http500 = (answer = "http_500")]
    /\ UNCHANGED <<row, age, wallet, maintenance, poll, provider>>

\* Faulty variant: a connection that broke is tried again as well.
RetriesAnyError ==
    /\ call # NoCall /\ Source[call.rental] = "rentsim"
    /\ call.step \in {"http_500", "unavailable"} /\ call.tries < Retries

\* RentSim's HTTP 500 is tried again.
ShouldRetry ==
    /\ call # NoCall /\ Source[call.rental] = "rentsim"
    /\ call.step = "http_500" /\ call.tries < Retries

Retry ==
    /\ ShouldRetry
    /\ call' = [call EXCEPT !.step = "asked", !.tries = @ + 1]
    /\ UNCHANGED <<row, age, wallet, maintenance, poll, provider>>

\* After an ambiguous error the shop's account at the provider decides; the
\* balance may be unreadable.
CheckBalance ==
    /\ call # NoCall /\ call.step \in Error
    /\ Ambiguous(Source[call.rental], call.step)
    /\ \E readable \in BOOLEAN :
         call' = [call EXCEPT !.step =
                    IF readable /\ funds[Source[call.rental]] = call.seen
                    THEN "clear" ELSE "doubt"]
    /\ UNCHANGED <<row, age, wallet, maintenance, poll, provider>>

\* The rental ends as an error: refunded, or unknown.
ConcludeError ==
    LET r == call.rental IN
    /\ call # NoCall
    /\ \/ /\ \/ call.step = "clear"
             \/ call.step \in Error /\ ~Ambiguous(Source[r], call.step) /\ ~ShouldRetry
          /\ RefundRental(r)
          /\ http500' = http500 \ {r}
       \/ /\ call.step = "doubt"
          /\ MarkUnknown(r, call.http500)
          /\ UNCHANGED wallet
    /\ call' = NoCall
    /\ UNCHANGED <<sale, numbered, completed, alerted, age, maintenance, poll, provider>>

Dearer == call.actual > call.cost

\* The provider ends an order and gives its price back.
EndOrder(r) ==
    /\ order[r] = "waiting"
    /\ order' = [order EXCEPT ![r] = "over"]
    /\ funds' = [funds EXCEPT ![Source[r]] = @ + paid[r]]
    /\ UNCHANGED <<made, paid>>

\* Faulty variant: the answer to the cancellation is not looked at.
CancelUnread(r) ==
    /\ \/ EndOrder(r)
       \/ UNCHANGED provider
    /\ call' = [call EXCEPT !.step = "cancelled"]

\* AutoSMS asks more than was charged: the number is given up.  The answer to
\* the cancellation may be lost.
CancelNumber(r) ==
    \/ /\ EndOrder(r)
       /\ \E a \in {"cancelled", "uncancelled"} : call' = [call EXCEPT !.step = a]
    \/ /\ call' = [call EXCEPT !.step = "uncancelled"]
       /\ UNCHANGED provider

CancelDearer ==
    /\ call # NoCall /\ call.step \in {"rented", "coded"} /\ Dearer
    /\ CancelNumber(call.rental)
    /\ UNCHANGED <<row, age, wallet, maintenance, poll>>

ConcludeDearer ==
    LET r == call.rental IN
    /\ call # NoCall
    /\ \/ /\ call.step = "cancelled"
          /\ RefundRental(r)
          /\ http500' = http500 \ {r}
       \/ /\ call.step = "uncancelled"
          /\ MarkUnknown(r, FALSE)
          /\ UNCHANGED wallet
    /\ numbered' = numbered \cup {r}
    /\ call' = NoCall
    /\ UNCHANGED <<sale, completed, alerted, age, maintenance, poll, provider>>

\* Faulty variant: the row is left at the price of the charge.
AdjustWalletOnly(r) ==
    LET price == call.actual + Markup IN
    IF price < sale[r]
    THEN ApplyWalletChange(r, "adjustment", sale[r] - price) /\ UNCHANGED sale
    ELSE UNCHANGED <<sale, wallet>>

\* A lower price than the one charged is passed on.
AdjustPrice(r) ==
    LET price == call.actual + Markup IN
    IF price < sale[r]
    THEN /\ ApplyWalletChange(r, "adjustment", sale[r] - price)
         /\ sale' = [sale EXCEPT ![r] = price]
    ELSE UNCHANGED <<sale, wallet>>

\* The number is stored.  The row already says success when
\* _complete_sms_success looks at it: nothing is completed.
ConcludeRented ==
    LET r == call.rental IN
    /\ call # NoCall /\ call.step \in {"rented", "coded"} /\ ~Dearer
    /\ numbered' = numbered \cup {r}
    /\ AdjustPrice(r)
    /\ status' = [status EXCEPT ![r] = IF call.step = "coded" THEN "success" ELSE "pending"]
    /\ call' = NoCall
    /\ UNCHANGED <<http500, completed, alerted, age, maintenance, poll, provider>>
-----------------------------------------------------------------------------
(***************************************************************************)
(* The worker of each provider (poll_pending_sms_rentals, sms_otp_worker). *)
(***************************************************************************)
\* An HTTP 500 of an earlier release made no order.
ReconcileHttp500(r) ==
    /\ Source[r] = "rentsim" /\ status[r] = "unknown"
    /\ r \notin numbered /\ r \in http500 /\ age[r] >= 1
    /\ RefundRental(r)
    /\ UNCHANGED <<sale, numbered, http500, completed, alerted, age, maintenance,
                   call, poll, provider>>

\* A request without an answer is held for review.
MarkStale(r) ==
    /\ status[r] = "requesting" /\ age[r] = 2
    /\ MarkUnknown(r, FALSE)
    /\ UNCHANGED <<sale, numbered, completed, alerted, age, wallet, maintenance,
                   call, poll, provider>>

MayPoll(r) == status[r] = "pending" /\ r \in numbered /\ poll[Source[r]] = NoPoll

Fetched(r, answer) ==
    /\ poll' = [poll EXCEPT ![Source[r]] = [rental |-> r, answer |-> answer]]
    /\ UNCHANGED <<row, age, wallet, maintenance, call>>

\* Faulty variant: an order that ended without a code reads as pending.
FetchCodeOnly(r) ==
    /\ MayPoll(r)
    /\ Fetched(r, IF order[r] = "coded" THEN "code" ELSE "pending")
    /\ UNCHANGED provider

\* The worker asks for the code of r and learns how its order stands.
FetchOtp(r) ==
    /\ MayPoll(r)
    /\ Fetched(r, CASE order[r] = "coded" -> "code"
                    [] order[r] = "over" -> "over"
                    [] OTHER -> "pending")
    /\ UNCHANGED provider

\* AutoSMS reports an expired order, which the client cancels; the answer to
\* that may be lost.
FetchExpired(r) ==
    /\ MayPoll(r) /\ Source[r] = "autosms"
    /\ EndOrder(r)
    /\ \E answer \in {"over", "error"} : Fetched(r, answer)

FetchFails(r) ==
    /\ MayPoll(r)
    /\ Fetched(r, "error")
    /\ UNCHANGED provider

HasAnswer(r, answers) ==
    poll[Source[r]] # NoPoll /\ poll[Source[r]].rental = r /\ poll[Source[r]].answer \in answers

PollEnds(r) ==
    /\ poll' = [poll EXCEPT ![Source[r]] = NoPoll]
    /\ UNCHANGED <<sale, numbered, http500, alerted, age, maintenance, call, provider>>

\* The answer is written if the rental is still pending.
PollSettles(r) ==
    /\ HasAnswer(r, {"code", "over"})
    /\ status[r] = "pending"
    /\ IF HasAnswer(r, {"code"}) THEN CompleteRental(r) /\ UNCHANGED wallet
       ELSE RefundRental(r) /\ UNCHANGED completed
    /\ PollEnds(r)

PollPasses(r) ==
    /\ \/ HasAnswer(r, {"pending", "error"})
       \/ HasAnswer(r, {"code", "over"}) /\ status[r] # "pending"
    /\ UNCHANGED <<status, wallet, completed>>
    /\ PollEnds(r)

\* Faulty variant: pending rentals only.
AlertPending(r) ==
    /\ r \notin alerted /\ status[r] = "pending" /\ age[r] = 2
    /\ alerted' = alerted \cup {r}
    /\ UNCHANGED <<status, sale, numbered, http500, completed, age, wallet,
                   maintenance, call, poll, provider>>

\* The admin is told of a rental to review, and the row is marked.
AlertReview(r) ==
    /\ r \notin alerted
    /\ \/ status[r] = "unknown"
       \/ status[r] = "pending" /\ age[r] = 2
    /\ alerted' = alerted \cup {r}
    /\ UNCHANGED <<status, sale, numbered, http500, completed, age, wallet,
                   maintenance, call, poll, provider>>
-----------------------------------------------------------------------------
(***************************************************************************)
(* The operator, the admin, the provider, time and crashes.                *)
(***************************************************************************)
\* refund_sms_rental, "after its own status is verified": the request is not
\* out and the provider holds no order that may still bring a code.
RefundVerified(r) ==
    /\ status[r] \in ACTIVE_SMS_STATUSES
    /\ order[r] \in {"none", "over"} /\ (call # NoCall => call.rental # r)
    /\ RefundRental(r)
    /\ UNCHANGED <<sale, numbered, http500, completed, alerted, age, maintenance,
                   call, poll, provider>>

\* Faulty variant: the dashboard does not wait for the lock.
SwitchAtOnce ==
    /\ maintenance' = ~maintenance
    /\ UNCHANGED <<row, age, wallet, call, poll, provider>>

\* The dashboard's switch waits for the lock that renting holds.
SwitchMaintenance ==
    /\ call = NoCall
    /\ maintenance' = ~maintenance
    /\ UNCHANGED <<row, age, wallet, call, poll, provider>>

GrowOld(r) ==
    /\ status[r] # "absent" /\ age[r] < 2
    /\ age' = [age EXCEPT ![r] = @ + 1]
    /\ UNCHANGED <<row, wallet, maintenance, call, poll, provider>>

\* A code comes, or the provider ends the order by itself.
CodeArrives(r) ==
    /\ order[r] = "waiting" /\ order' = [order EXCEPT ![r] = "coded"]
    /\ UNCHANGED <<row, age, wallet, maintenance, call, poll, made, paid, funds>>

OrderEnds(r) ==
    /\ EndOrder(r)
    /\ UNCHANGED <<row, age, wallet, maintenance, call, poll>>

\* The process stops.  A request that is out may still make an order.
Crash ==
    /\ call # NoCall \/ \E p \in Provider : poll[p] # NoPoll
    /\ call' = NoCall
    /\ poll' = [p \in Provider |-> NoPoll]
    /\ \/ Asked /\ \E cost \in Costs : MakeOrder(call.rental, cost, "waiting")
       \/ UNCHANGED provider
    /\ UNCHANGED <<row, age, wallet, maintenance>>
-----------------------------------------------------------------------------
Init ==
    /\ status \in [Rental -> {"absent", "unknown"}]
    /\ \A r \in Rental : status[r] = "unknown" => r \in Legacy
    /\ sale \in [Rental -> {0} \cup {c + Markup : c \in Costs}]
    /\ \A r \in Rental : sale[r] = 0 <=> status[r] = "absent"
    /\ numbered = {} /\ completed = {} /\ alerted = {}
    /\ http500 = {r \in Rental : status[r] = "unknown"}
    /\ age = [r \in Rental |-> IF status[r] = "unknown" THEN 2 ELSE 0]
    /\ balance = [c \in Customer |-> Wallet]
    /\ net = [r \in Rental |-> 0 - sale[r]]
    /\ events = {"charge"} \X http500
    /\ maintenance = FALSE
    /\ call = NoCall /\ poll = [p \in Provider |-> NoPoll]
    /\ order = [r \in Rental |-> "none"]
    /\ made = [r \in Rental |-> 0] /\ paid = made
    /\ funds = [p \in Provider |-> Funds]

RentNext ==
    \/ \E r \in Rental, cost \in Costs : StartRental(r, cost)
    \/ \E cost \in Costs, o \in {"waiting", "coded"}, a \in Step : ProviderRents(cost, o, a)
    \/ \E a \in Error : ProviderFails(a)
    \/ Retry \/ CheckBalance \/ ConcludeError
    \/ CancelDearer \/ ConcludeDearer \/ ConcludeRented

WorkerNext(r) ==
    \/ ReconcileHttp500(r) \/ MarkStale(r)
    \/ FetchOtp(r) \/ FetchExpired(r) \/ FetchFails(r)
    \/ PollSettles(r) \/ PollPasses(r)
    \/ AlertReview(r)

OthersNext ==
    \/ \E r \in Rental : RefundVerified(r) \/ GrowOld(r) \/ CodeArrives(r) \/ OrderEnds(r)
    \/ SwitchMaintenance
    \/ Crash

Next == RentNext \/ (\E r \in Rental : WorkerNext(r)) \/ OthersNext

Spec == Init /\ [][Next]_vars

\* The worker's loop runs on, a provider does not answer with an error for
\* ever, and time passes.  What follows an answer may be struck by crashes,
\* but not every time.
FairSpec ==
    /\ Spec
    /\ \A r \in Rental :
         /\ WF_vars(GrowOld(r))
         /\ WF_vars(MarkStale(r))
         /\ WF_vars(AlertReview(r))
         /\ SF_vars(FetchOtp(r))
         /\ SF_vars(PollSettles(r))
         /\ WF_vars(PollPasses(r))
-----------------------------------------------------------------------------
\* What the ledger took for a rental is the sale amount of its row, and
\* nothing once it is refunded: whatever was adjusted in between.
NetIsSale ==
    \A r \in Rental : net[r] = IF status[r] = "refunded" THEN 0 ELSE 0 - sale[r]

\* A customer has at most one rental whose result is not known: while one is
\* out, lost in a crash or under review, no other begins.
OneUnsettled ==
    \A q, r \in Rental :
      /\ Owner[q] = Owner[r]
      /\ {status[q], status[r]} \subseteq {"requesting", "unknown"}
      => q = r

\* A rental makes at most one order at the provider: a request is sent again
\* only when it made none.
OneOrder == \A r \in Rental : made[r] <= 1

\* A number the shop has recorded is given up at the provider before its
\* rental is refunded: a refunded customer does not receive the code.
RefundedIsOver ==
    \A r \in numbered : status[r] = "refunded" => order[r] = "over"

\* Maintenance begins when no request is out.
MaintenanceIsQuiet == maintenance => call = NoCall

\* A rental ends once.
OutcomeStands ==
    [][\A r \in Rental :
         status[r] \in {"success", "refunded"} => status'[r] = status[r]]_vars

\* Nobody's money is left in the dark: a request that is out, or whose result
\* is not known, becomes a number or a refund, or the admin is told of it.
RequestIsFollowed ==
    \A r \in Rental :
      status[r] \in {"requesting", "unknown"}
        ~> status[r] \in {"pending", "success", "refunded"} \/ r \in alerted

\* A rental whose order has ended, with a code or without, ends as well.
PendingSettles ==
    \A r \in Rental :
      status[r] = "pending" /\ order[r] \in {"coded", "over"}
        ~> status[r] \in {"success", "refunded"}

=============================================================================
