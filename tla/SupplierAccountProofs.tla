------------------------ MODULE SupplierAccountProofs ------------------------
(***************************************************************************)
(* Proofs about SupplierAccount, for any keys, goods and orders, whatever  *)
(* the supplier bills, hides, lists or pays back.                          *)
(***************************************************************************)
EXTENDS SupplierAccount

\* What has been billed is in the supplier's order of billing.
Charged == {"billed", "listed", "repaid"}
BillsSound == \A o \in Order : status[o] \in Charged <=> o \in Range(billed)

\* A pass excludes a purchase; it holds pending requests and open audits.
PassSound ==
    pass # NoPass =>
      /\ buy = NoBuy /\ provider = "sumistore"
      /\ Matching => pass.todo \subseteq {i \in DOMAIN recovery : recovery[i].status = "pending"}
      /\ Linking => pass.todo \subseteq {a \in DOMAIN ledger : IsSuspicious(a)}
      /\ pass.step \in {"match", "link"} => pass.queued = {}
      /\ Orphans => pass.queued \subseteq {i \in DOMAIN recovery : recovery[i].status = "pending"}

Typed == TypeOK /\ BillsSound /\ (HasOrder => buy.found \in Order)
-----------------------------------------------------------------------------
(***************************************************************************)
(* Sequences.                                                              *)
(***************************************************************************)
LEMMA IsSeq ==
    ASSUME NEW S, NEW n \in Nat, NEW s, s = [i \in 1 .. n |-> s[i]], \A i \in 1 .. n : s[i] \in S
    PROVE  s \in Seq(S) /\ Len(s) = n /\ DOMAIN s = 1 .. n
  OBVIOUS

LEMMA SeqFacts ==
    ASSUME NEW S, NEW s \in Seq(S)
    PROVE  /\ Len(s) \in Nat /\ DOMAIN s = 1 .. Len(s) /\ \A i \in DOMAIN s : s[i] \in S
           /\ s = [i \in 1 .. Len(s) |-> s[i]]
  OBVIOUS

LEMMA AppendFacts ==
    ASSUME NEW S, NEW s \in Seq(S), NEW e \in S
    PROVE  /\ Append(s, e) \in Seq(S) /\ Len(Append(s, e)) = Len(s) + 1
           /\ DOMAIN Append(s, e) = 1 .. Len(s) + 1
           /\ \A i \in DOMAIN s : Append(s, e)[i] = s[i]
           /\ Append(s, e)[Len(s) + 1] = e
  OBVIOUS
-----------------------------------------------------------------------------
(***************************************************************************)
(* Rows.                                                                   *)
(***************************************************************************)
LEMMA EntryTyped ==
    ASSUME NEW kind \in {"purchase", "suspicious", "credit", "refund"}, NEW amount \in Int,
           NEW code \in Order \cup {NoOrder}, NEW orders \in SUBSET Order
    PROVE  /\ NewEntry(kind, amount, code, orders) \in Entry
           /\ NewEntry(kind, amount, code, orders).kind = kind
           /\ NewEntry(kind, amount, code, orders).amount = amount
           /\ NewEntry(kind, amount, code, orders).code = code
           /\ NewEntry(kind, amount, code, orders).orders = orders
  BY DEF NewEntry, Entry

LEMMA RequestTyped ==
    ASSUME NEW k \in Key \cup {NoOrder}, NEW g \in Goods, NEW cause \in Nat,
           NEW code \in Order \cup {NoOrder}, NEW older \in SUBSET Order, NEW left \in Int
    PROVE  /\ NewRequest(k, g, cause, code, older, left) \in Request
           /\ NewRequest(k, g, cause, code, older, left).key = k
           /\ NewRequest(k, g, cause, code, older, left).goods = g
           /\ NewRequest(k, g, cause, code, older, left).code = code
           /\ NewRequest(k, g, cause, code, older, left).link = 0
           /\ NewRequest(k, g, cause, code, older, left).status = "pending"
  BY DEF NewRequest, Request

LEMMA EntryFacts ==
    ASSUME NEW e \in Entry
    PROVE  /\ e.amount \in Int /\ e.code \in Order \cup {NoOrder} /\ e.orders \in SUBSET Order
           /\ e.age \in Nat /\ e.alerted \in BOOLEAN
           /\ e.kind \in {"purchase", "suspicious", "recovered", "credit", "refund", "refunded"}
  BY DEF Entry

LEMMA RequestFacts ==
    ASSUME NEW r \in Request
    PROVE  /\ r.key \in Key \cup {NoOrder} /\ r.goods \in Goods /\ r.cause \in Nat
           /\ r.link \in Nat /\ r.code \in Order \cup {NoOrder} /\ r.older \in SUBSET Order
           /\ r.left \in Int
           /\ r.status \in {"pending", "recovered", "expired", "invalid_product"}
  BY DEF Request

\* Keys are asked for once.
OneRequest ==
    \A i, j \in DOMAIN recovery : recovery[i].key = recovery[j].key /\ i # j
                                    => recovery[i].key = NoOrder

\* queue_supplier_recovery adds at most one request, for a key that has none.
LEMMA QueueTyped ==
    ASSUME recovery \in Seq(Request), OneRequest, NEW k \in Key, NEW older \in SUBSET Order,
           NEW left \in Int, QueueRecovery(k, older, left)
    PROVE  /\ recovery' \in Seq(Request) /\ OneRequest' /\ Len(recovery) <= Len(recovery')
           /\ \A i \in DOMAIN recovery : i \in DOMAIN recovery' /\ recovery'[i] = recovery[i]
           /\ \A i \in DOMAIN recovery' \ DOMAIN recovery :
                /\ recovery'[i].code = NoOrder /\ recovery'[i].link = 0
                /\ recovery'[i].status = "pending"
  <1> DEFINE r == NewRequest(k, Wants[k], 0, NoOrder, older, left)
  <1>1. r \in Request /\ r.key = k /\ r.code = NoOrder /\ r.link = 0 /\ r.status = "pending"
    <2>1. Wants[k] \in Goods /\ k \in Key \cup {NoOrder} /\ NoOrder \in Order \cup {NoOrder}
      BY GoodsAssumption
    <2>2. 0 \in Nat
      OBVIOUS
    <2> QED BY <2>1, <2>2 DEF NewRequest, Request
  <1>2. CASE recovery' = recovery
    <2>1. Len(recovery) \in Nat
      OBVIOUS
    <2> QED BY <1>2, <2>1 DEF OneRequest
  <1>3. CASE recovery' = Append(recovery, r) /\ \A i \in DOMAIN recovery : recovery[i].key # k
    <2> HIDE DEF r
    <2>1. /\ recovery' \in Seq(Request) /\ Len(recovery') = Len(recovery) + 1
          /\ DOMAIN recovery' = 1 .. Len(recovery) + 1
          /\ \A i \in DOMAIN recovery : recovery'[i] = recovery[i]
          /\ recovery'[Len(recovery) + 1] = r
      BY <1>1, <1>3, AppendFacts
    <2>2. Len(recovery) \in Nat /\ DOMAIN recovery = 1 .. Len(recovery)
      OBVIOUS
    <2>3. \A i \in DOMAIN recovery' : i \in DOMAIN recovery \/ i = Len(recovery) + 1
      BY <2>1, <2>2
    <2>4. OneRequest'
      BY <1>1, <1>3, <2>1, <2>3 DEF OneRequest
    <2> QED BY <1>1, <2>1, <2>2, <2>3, <2>4
  <1> QED BY <1>2, <1>3 DEF QueueRecovery

-----------------------------------------------------------------------------
(***************************************************************************)
(* Types, action by action.                                                *)
(***************************************************************************)
LEMMA TypedInit == Init => Typed
  <1> SUFFICES ASSUME Init PROVE Typed
    OBVIOUS
  <1>1. PICK s \in Start : /\ provider = s.provider /\ over = s.over /\ retired = s.retired
                           /\ scant = s.scant /\ toppedUp = s.toppedUp
    BY DEF Init
  <1>2. /\ provider \in {"sumistore", "lehai"} /\ over \subseteq Key /\ retired \subseteq Goods
        /\ scant \subseteq Order /\ toppedUp \in BOOLEAN
    BY <1>1, StartAssumption
  <1>3. billed \in Seq(Order) /\ Range(billed) = {} /\ IsInjective(billed)
    BY DEF Init, Range, IsInjective
  <1>4. ledger \in Seq(Entry) /\ recovery \in Seq(Request) /\ Len(ledger) = 0
        /\ DOMAIN recovery = {}
    BY DEF Init
  <1>5. asker \in [Order -> Key]
    BY KeyAssumption DEF Init
  <1>6. state \in [balance: Int, last: 0..Len(ledger), known: BOOLEAN]
    <2>1. state = [balance |-> 0, last |-> 0, known |-> FALSE]
      BY DEF Init
    <2>2. 0 \in 0..Len(ledger)
      BY <1>4
    <2> QED BY <2>1, <2>2
  <1>7. TypeOK
    BY <1>2, <1>3, <1>4, <1>5, <1>6 DEF Init, TypeOK
  <1>8. BillsSound
    BY <1>3 DEF Init, BillsSound, Charged
  <1>9. ~HasOrder
    BY DEF Init, HasOrder
  <1> QED BY <1>7, <1>8, <1>9 DEF Typed

\* The money side and the shop side of the types.
BillTypes ==
    /\ status \in [Order -> {"none", "asked", "refused", "billed", "listed", "repaid"}]
    /\ billed \in Seq(Order) /\ IsInjective(billed)
    /\ fresh \subseteq Range(billed) /\ period \subseteq Range(billed)
    /\ BillsSound

BookTypes ==
    /\ ledger \in Seq(Entry) /\ recovery \in Seq(Request) /\ OneRequest
    /\ state \in [balance: Int, last: 0..Len(ledger), known: BOOLEAN]
    /\ audited \in 0..Len(ledger)

RestTypes ==
    /\ provider \in {"sumistore", "lehai"}
    /\ asker \in [Order -> Key]
    /\ scant \subseteq Order
    /\ funds \in Int /\ toppedUp \in BOOLEAN
    /\ buy \in Purchase \cup {NoBuy} /\ (HasOrder => buy.found \in Order)
    /\ pass \in Pass \cup {NoPass}
    /\ over \subseteq Key
    /\ called \in [Preordered -> (SUBSET Order) \cup {Idle}]
    /\ rows \in [Order -> {"none", "stock", "sold", "withdrawn"}]
    /\ retired \subseteq Goods

LEMMA TypedParts == Typed <=> BillTypes /\ BookTypes /\ RestTypes
  BY DEF Typed, TypeOK, BillTypes, BookTypes, RestTypes, OneRequest

LEMMA TypedPartsNext == Typed' <=> BillTypes' /\ BookTypes' /\ RestTypes'
  BY DEF Typed, TypeOK, BillTypes, BookTypes, RestTypes, OneRequest

LEMMA BillsKept ==
    ASSUME BillTypes, status' = status, billed' = billed,
           fresh' \subseteq Range(billed), period' \subseteq Range(billed)
    PROVE  BillTypes'
  BY DEF BillTypes, BillsSound, Range

\* An order changes its status without being billed.
LEMMA StatusKept ==
    ASSUME BillTypes, NEW o \in Order,
           NEW v \in {"none", "asked", "refused", "billed", "listed", "repaid"},
           status[o] \in Charged <=> v \in Charged,
           status' = [status EXCEPT ![o] = v],
           billed' = billed, fresh' = fresh, period' = period
    PROVE  BillTypes'
  BY DEF BillTypes, BillsSound, Range

LEMMA BookKept ==
    ASSUME BookTypes, ledger' = ledger, recovery' = recovery, state' = state,
           audited' = audited
    PROVE  BookTypes'
  BY DEF BookTypes, OneRequest

LEMMA OldOrders ==
    ASSUME BillTypes
    PROVE  OlderOrders \in SUBSET Order /\ fresh \subseteq Order /\ period \subseteq Order
           /\ Range(billed) \subseteq Order
  BY DEF BillTypes, OlderOrders, Range

LEMMA EndTyped ==
    ASSUME RestTypes, buy # NoBuy, NEW done \in BOOLEAN, EndPurchase(done), 
           rows' \in [Order -> {"none", "stock", "sold", "withdrawn"}]
    PROVE  RestTypes'
  <1>1. buy.key \in Key
    BY DEF RestTypes, Purchase
  <1>2. over' \subseteq Key
    BY <1>1 DEF EndPurchase, RestTypes
  <1>3. called' \in [Preordered -> (SUBSET Order) \cup {Idle}]
    BY DEF EndPurchase, RestTypes
  <1>4. buy' = NoBuy
    BY DEF EndPurchase
  <1> QED BY <1>2, <1>3, <1>4 DEF EndPurchase, RestTypes, HasOrder

LEMMA BuyFacts ==
    ASSUME RestTypes, buy # NoBuy
    PROVE  /\ buy.key \in Key /\ buy.order \in Order /\ buy.older \in SUBSET Order
           /\ buy.found \in Order \cup {NoOrder} /\ buy.step \in {"asked", "doubt", "held"}
           /\ buy \in Purchase
  BY DEF RestTypes, Purchase

LEMMA GoesTyped ==
    ASSUME BillTypes, BookTypes, RestTypes, buy # NoBuy,
           NEW step \in {"asked", "doubt", "held"}, NEW o \in Order \cup {NoOrder},
           step = "held" => o \in Order, Goes(step, o)
    PROVE  BillTypes' /\ BookTypes' /\ RestTypes'
  <1> USE DEF Goes, supplier, shop, books
  <1>1. BillTypes'
    BY BillsKept DEF BillTypes
  <1>2. BookTypes'
    BY BookKept
  <1>3. buy' \in Purchase /\ buy'.step = step /\ buy'.found = o
    BY BuyFacts DEF Purchase
  <1> QED BY <1>1, <1>2, <1>3 DEF RestTypes, HasOrder

LEMMA PriceNat ==
    ASSUME asker \in [Order -> Key], NEW o \in Order
    PROVE  GoodsOf(o) \in Goods /\ Price(o) \in Nat \ {0}
  BY GoodsAssumption DEF GoodsOf, Price

\* A longer ledger.
LEMMA MoreBooks ==
    ASSUME BookTypes, ledger' \in Seq(Entry), Len(ledger) <= Len(ledger'),
           state' = state, audited' = audited
    PROVE  /\ state' \in [balance: Int, last: 0..Len(ledger'), known: BOOLEAN]
           /\ audited' \in 0..Len(ledger')
  <1>1. Len(ledger) \in Nat /\ Len(ledger') \in Nat
    BY DEF BookTypes
  <1>2. state = [balance |-> state.balance, last |-> state.last, known |-> state.known]
        /\ state.balance \in Int /\ state.last \in 0..Len(ledger) /\ state.known \in BOOLEAN
    BY DEF BookTypes
  <1>3. state.last \in 0..Len(ledger') /\ audited \in 0..Len(ledger')
    BY <1>1, <1>2 DEF BookTypes
  <1> QED BY <1>2, <1>3

\* Purchases and sales.
LEMMA PurchaseTyped ==
    ASSUME Typed, \/ \E k \in Key : Ask(k)
                  \/ PurchaseStep
                  \/ \E k \in Key, o \in Order : SellStock(k, o)
                  \/ \E k \in Preordered : RecoverStale(k)
                  \/ Crash
    PROVE  Typed'
  <1> SUFFICES BillTypes' /\ BookTypes' /\ RestTypes'
    BY TypedPartsNext
  <1>0. BillTypes /\ BookTypes /\ RestTypes
    BY TypedParts
  <1> USE DEF supplier, shop, books
  <1>1. ASSUME NEW k \in Key, Ask(k) PROVE BillTypes' /\ BookTypes' /\ RestTypes'
    <2>1. PICK o \in Order :
             /\ status' = IF status[o] = "none" THEN [status EXCEPT ![o] = "asked"] ELSE status
             /\ asker' = [asker EXCEPT ![o] = k]
             /\ buy' = [key |-> k, order |-> o, older |-> OlderOrders, found |-> NoOrder, step |-> "asked"]
             /\ called' = IF k \in Preordered THEN [called EXCEPT ![k] = OlderOrders] ELSE called
             /\ UNCHANGED <<provider, billed, fresh, scant, funds, toppedUp, pass, over, rows, retired, books>>
      BY <1>1 DEF Ask
    <2>2. BillTypes'
      <3>1. CASE status[o] = "none"
        <4>1. status[o] \in Charged <=> "asked" \in Charged
          BY <3>1 DEF Charged
        <4> QED BY <1>0, <2>1, <3>1, <4>1, StatusKept
      <3>2. CASE status[o] # "none"
        BY <1>0, <2>1, <3>2, BillsKept DEF BillTypes
      <3> QED BY <3>1, <3>2
    <2>3. BookTypes'
      BY <1>0, <2>1, BookKept
    <2>4. OlderOrders \in SUBSET Order
      BY <1>0, OldOrders
    <2>5. buy' \in Purchase
      BY <2>1, <2>4 DEF Purchase
    <2>6. called' \in [Preordered -> (SUBSET Order) \cup {Idle}] /\ asker' \in [Order -> Key]
      BY <1>0, <2>1, <2>4 DEF RestTypes
    <2>7. ~HasOrder'
      BY <2>1 DEF HasOrder
    <2> QED BY <1>0, <2>1, <2>2, <2>3, <2>5, <2>6, <2>7 DEF RestTypes
  <1>2. CASE AnswerDelivered \/ AnswerLost \/ FindRecent \/ AskAgain
    <2>1. buy # NoBuy
      BY <1>2 DEF AnswerDelivered, AnswerLost, FindRecent, AskAgain, Asked, Doubt
    <2>2. \E step \in {"asked", "doubt", "held"}, o \in Order \cup {NoOrder} :
             (step = "held" => o \in Order) /\ Goes(step, o)
      BY <1>0, <1>2, <2>1, BuyFacts DEF AnswerDelivered, AnswerLost, FindRecent, AskAgain
    <2> QED BY <1>0, <2>1, <2>2, GoesTyped
  <1>3. CASE AnswerRefused
    <2>1. /\ buy # NoBuy /\ EndPurchase(FALSE) /\ status[buy.order] = "asked"
          /\ status' = [status EXCEPT ![buy.order] = "refused"]
          /\ UNCHANGED <<rows, ledger, recovery>>
      BY <1>3 DEF AnswerRefused, Asked
    <2>2. UNCHANGED <<billed, fresh, period, state, audited>>
      BY <2>1 DEF EndPurchase
    <2>3. BillTypes'
      <3>1. buy.order \in Order /\ (status[buy.order] \in Charged <=> "refused" \in Charged)
        BY <1>0, <2>1, BuyFacts DEF Charged
      <3> QED BY <1>0, <2>1, <2>2, <3>1, StatusKept
    <2>4. BookTypes'
      BY <1>0, <2>1, <2>2, BookKept
    <2>5. RestTypes'
      BY <1>0, <2>1, EndTyped DEF RestTypes
    <2> QED BY <2>3, <2>4, <2>5
  <1>4. CASE GiveUp
    <2>1. /\ buy # NoBuy /\ EndPurchase(FALSE) /\ UNCHANGED <<status, rows, ledger>>
          /\ \/ QueueRecovery(buy.key, buy.older, Window)
             \/ UNCHANGED recovery
      BY <1>4 DEF GiveUp, Doubt
    <2>2. UNCHANGED <<billed, fresh, period, state, audited>>
      BY <2>1 DEF EndPurchase
    <2>3. BillTypes'
      BY <1>0, <2>1, <2>2, BillsKept DEF BillTypes
    <2>4. recovery' \in Seq(Request) /\ OneRequest'
      <3>1. CASE QueueRecovery(buy.key, buy.older, Window)
        <4>1. Window \in Int
          BY BoundAssumption
        <4> QED BY <1>0, <2>1, <3>1, <4>1, BuyFacts, QueueTyped DEF BookTypes
      <3>2. CASE UNCHANGED recovery
        BY <1>0, <3>2 DEF BookTypes, OneRequest
      <3> QED BY <2>1, <3>1, <3>2
    <2>5. BookTypes'
      BY <1>0, <2>1, <2>2, <2>4 DEF BookTypes
    <2>6. RestTypes'
      BY <1>0, <2>1, EndTyped DEF RestTypes
    <2> QED BY <2>3, <2>5, <2>6
  <1>5. ASSUME HasOrder, NEW fate \in {"withdrawn", "sold", "stock"}, Conclude(fate)
        PROVE  BillTypes' /\ BookTypes' /\ RestTypes'
    <2>1. /\ buy # NoBuy /\ EndPurchase(TRUE) /\ UNCHANGED <<status, recovery>>
          /\ rows' = [rows EXCEPT ![buy.found] = fate]
          /\ ledger' = Append(ledger, NewEntry("purchase", 0 - Price(buy.found), buy.found, {}))
      BY <1>5 DEF HasOrder, Conclude
    <2>2. UNCHANGED <<billed, fresh, period, state, audited>>
      BY <2>1 DEF EndPurchase
    <2>3. BillTypes'
      BY <1>0, <2>1, <2>2, BillsKept DEF BillTypes
    <2>4. buy.found \in Order
      BY <1>0, <1>5 DEF RestTypes
    <2>5. Price(buy.found) \in Nat
      BY <1>0, <2>4, PriceNat DEF RestTypes
    <2>6. ledger' \in Seq(Entry) /\ Len(ledger') = Len(ledger) + 1 /\ Len(ledger) \in Nat
      <3>1. NewEntry("purchase", 0 - Price(buy.found), buy.found, {}) \in Entry
        BY <2>4, <2>5, EntryTyped
      <3> QED BY <1>0, <2>1, <3>1, AppendFacts, SeqFacts DEF BookTypes
    <2>7. BookTypes'
      BY <1>0, <2>1, <2>2, <2>6, MoreBooks DEF BookTypes, OneRequest
    <2>8. rows' \in [Order -> {"none", "stock", "sold", "withdrawn"}]
      BY <1>0, <2>1 DEF RestTypes
    <2>9. RestTypes'
      BY <1>0, <2>1, <2>8, EndTyped
    <2> QED BY <2>3, <2>7, <2>9
  <1>6. CASE Deliver \/ KeepAsStock
    BY <1>5, <1>6 DEF Deliver, KeepAsStock
  <1>7. ASSUME NEW k \in Key, NEW o \in Order, SellStock(k, o)
        PROVE  BillTypes' /\ BookTypes' /\ RestTypes'
    <2>1. BillTypes'
      BY <1>0, <1>7, BillsKept DEF SellStock, BillTypes
    <2>2. BookTypes'
      BY <1>0, <1>7, BookKept DEF SellStock
    <2> QED BY <1>0, <1>7, <2>1, <2>2 DEF SellStock, RestTypes, HasOrder
  <1>8. ASSUME NEW k \in Preordered, RecoverStale(k)
        PROVE  BillTypes' /\ BookTypes' /\ RestTypes'
    <2>1. /\ called[k] # Idle /\ called' = [called EXCEPT ![k] = Idle]
          /\ QueueRecovery(k, called[k], 0) \/ UNCHANGED recovery
          /\ UNCHANGED <<provider, supplier, buy, pass, over, rows, retired, ledger, state, period,
                         audited>>
      BY <1>8 DEF RecoverStale
    <2>2. k \in Key /\ called[k] \in SUBSET Order
      BY <1>0, <2>1, KeyAssumption DEF RestTypes
    <2>3. BillTypes'
      BY <1>0, <2>1, BillsKept DEF BillTypes
    <2>4. recovery' \in Seq(Request) /\ OneRequest'
      <3>1. CASE QueueRecovery(k, called[k], 0)
        <4>1. 0 \in Int
          OBVIOUS
        <4>2. recovery \in Seq(Request) /\ OneRequest
          BY <1>0 DEF BookTypes
        <4> QED BY <2>2, <3>1, <4>1, <4>2, QueueTyped
      <3>2. CASE UNCHANGED recovery
        BY <1>0, <3>2 DEF BookTypes, OneRequest
      <3> QED BY <2>1, <3>1, <3>2
    <2>5. BookTypes'
      BY <1>0, <2>1, <2>4 DEF BookTypes
    <2> QED BY <1>0, <2>1, <2>3, <2>5 DEF RestTypes, HasOrder
  <1>9. CASE Crash
    <2>1. BillTypes'
      BY <1>0, <1>9, BillsKept DEF Crash, BillTypes
    <2>2. BookTypes'
      BY <1>0, <1>9, BookKept DEF Crash
    <2>3. buy.key \in Key /\ ~HasOrder'
      BY <1>0, <1>9, BuyFacts DEF Crash, HasOrder
    <2> QED BY <1>0, <1>9, <2>1, <2>2, <2>3 DEF Crash, RestTypes
  <1> QED BY <1>1, <1>2, <1>3, <1>4, <1>6, <1>7, <1>8, <1>9 DEF PurchaseStep

\* Passes.
\* Rows that are rewritten one by one keep their keys.
LEMMA RewrittenTyped ==
    ASSUME BookTypes, DOMAIN recovery' = DOMAIN recovery,
           recovery' = [i \in DOMAIN recovery |-> recovery'[i]],
           \A i \in DOMAIN recovery : recovery'[i] \in Request /\ recovery'[i].key = recovery[i].key
    PROVE  recovery' \in Seq(Request) /\ OneRequest' /\ Len(recovery') = Len(recovery)
  <1>1. recovery \in Seq(Request) /\ Len(recovery) \in Nat /\ DOMAIN recovery = 1 .. Len(recovery)
    BY SeqFacts DEF BookTypes
  <1>2. recovery' \in Seq(Request) /\ Len(recovery') = Len(recovery)
    BY <1>1, IsSeq
  <1>3. OneRequest'
    BY DEF BookTypes, OneRequest
  <1> QED BY <1>2, <1>3

LEMMA ReledgeredTyped ==
    ASSUME BookTypes, DOMAIN ledger' = DOMAIN ledger,
           ledger' = [i \in DOMAIN ledger |-> ledger'[i]],
           \A i \in DOMAIN ledger : ledger'[i] \in Entry
    PROVE  ledger' \in Seq(Entry) /\ Len(ledger') = Len(ledger)
  <1>1. ledger \in Seq(Entry) /\ Len(ledger) \in Nat /\ DOMAIN ledger = 1 .. Len(ledger)
    BY SeqFacts DEF BookTypes
  <1> QED BY <1>1, IsSeq

LEMMA PassTyped ==
    ASSUME RestTypes, pass' \in Pass \cup {NoPass},
           UNCHANGED <<provider, asker, scant, funds, toppedUp, buy, over, called, rows, retired>>
    PROVE  RestTypes'
  BY DEF RestTypes, HasOrder

LEMMA LinkTyped ==
    ASSUME BookTypes, NEW a \in DOMAIN ledger, LinkOne(a), state' = state, audited' = audited
    PROVE  BookTypes'
  <1> DEFINE found == Explaining(a)
             code == OnlyCode({recovery[i].code : i \in found})
  <1>1. CASE UNCHANGED <<ledger, recovery>>
    BY <1>1, BookKept
  <1>2. CASE /\ ledger' = [ledger EXCEPT ![a].kind = "recovered", ![a].code = code]
             /\ recovery' = [i \in DOMAIN recovery |->
                             IF i \in found THEN [recovery[i] EXCEPT !.link = a] ELSE recovery[i]]
    <2>1. code \in Order \cup {NoOrder}
      <3>1. \A i \in found : recovery[i].code \in Order \cup {NoOrder}
        BY RequestFacts DEF BookTypes, Explaining
      <3> QED BY <3>1 DEF OnlyCode
    <2>2. a \in Nat /\ ledger[a] \in Entry
      BY DEF BookTypes
    <2> HIDE DEF code, found
    <2>3. /\ DOMAIN ledger' = DOMAIN ledger /\ ledger' = [i \in DOMAIN ledger |-> ledger'[i]]
          /\ \A i \in DOMAIN ledger : ledger'[i] \in Entry
      <3>1. [ledger[a] EXCEPT !.kind = "recovered", !.code = code] \in Entry
        BY <2>1, <2>2 DEF Entry
      <3>2. ledger' = [ledger EXCEPT ![a] = [ledger[a] EXCEPT !.kind = "recovered", !.code = code]]
        BY <1>2
      <3> HIDE <1>2
      <3> QED BY <3>1, <3>2, SeqFacts DEF BookTypes
    <2>4. ledger' \in Seq(Entry) /\ Len(ledger') = Len(ledger)
      BY <2>3, ReledgeredTyped
    <2>5. \A i \in DOMAIN recovery : recovery[i] \in Request
      BY DEF BookTypes
    <2>6. \A i \in DOMAIN recovery : /\ [recovery[i] EXCEPT !.link = a] \in Request
                                     /\ [recovery[i] EXCEPT !.link = a].key = recovery[i].key
      BY <2>2, <2>5 DEF Request
    <2>7. recovery' \in Seq(Request) /\ OneRequest'
      BY <1>2, <2>5, <2>6, RewrittenTyped
    <2> QED BY <2>4, <2>7 DEF BookTypes
  <1> QED BY <1>1, <1>2 DEF LinkOne

\* What has been billed is finite, so what is listed is.
LEMMA FiniteBilled ==
    ASSUME BillTypes, NEW S, S \subseteq Range(billed)
    PROVE  IsFiniteSet(S) /\ Cardinality(S) \in Nat
  <1>1. Len(billed) \in Nat /\ DOMAIN billed = 1 .. Len(billed)
    BY DEF BillTypes
  <1>2. IsFiniteSet(1 .. Len(billed))
    BY <1>1, FS_Interval
  <1>3. billed \in Surjection(1 .. Len(billed), Range(billed))
    BY <1>1 DEF BillTypes, Surjection, Range
  <1>4. IsFiniteSet(Range(billed))
    BY <1>2, <1>3, FS_Surjection
  <1>5. IsFiniteSet(S)
    BY <1>4, FS_Subset
  <1> QED BY <1>5, FS_CardinalityType

LEMMA FiniteOrders ==
    ASSUME BillTypes, NEW S, S \subseteq Listed
    PROVE  IsFiniteSet(S) /\ Cardinality(S) \in Nat
  <1>1. S \subseteq Range(billed)
    BY DEF BillTypes, BillsSound, Charged, Listed
  <1> QED BY <1>1, FiniteBilled

LEMMA BeforeDiffers ==
    ASSUME BillTypes, NEW o, NEW q, Before(o, q)
    PROVE  o # q
  <1>1. PICK m, n \in DOMAIN billed : m < n /\ billed[m] = o /\ billed[n] = q
    BY DEF Before
  <1>2. DOMAIN billed = 1 .. Len(billed)
    BY DEF BillTypes
  <1>3. billed[m] # billed[n]
    BY <1>1, <1>2 DEF BillTypes, IsInjective
  <1> QED BY <1>1, <1>3

LEMMA QueueOneTyped ==
    ASSUME BillTypes, BookTypes, RestTypes, pass # NoPass, NEW a \in DOMAIN ledger, QueueOne(a)
    PROVE  /\ recovery' \in Seq(Request) /\ OneRequest' /\ Len(recovery) <= Len(recovery')
           /\ \A i \in DOMAIN recovery : i \in DOMAIN recovery' /\ recovery'[i] = recovery[i]
           /\ \A i \in DOMAIN recovery' \ DOMAIN recovery :
                /\ recovery'[i].code \in Unknown /\ recovery'[i].link = 0
                /\ recovery'[i].status = "pending"
           /\ \A i, j \in DOMAIN recovery' \ DOMAIN recovery :
                i # j => recovery'[i].code # recovery'[j].code
           /\ pass' \in Pass /\ pass'.step = pass.step /\ pass'.todo \subseteq pass.todo
           /\ \A i \in pass'.queued : \/ i \in pass.queued
                                      \/ i \in DOMAIN recovery' /\ recovery'[i].status = "pending"
  <1> DEFINE found == OrphansOf(a)
             L == Len(recovery)
             N == Cardinality(found)
             ids == L + 1 .. L + N
             next == [pass EXCEPT !.todo = @ \ {a}]
  <1>1. L \in Nat /\ DOMAIN recovery = 1 .. L /\ a \in Nat
    BY DEF BookTypes
  <1>2. found \subseteq Listed /\ found \subseteq Unknown /\ found \subseteq Order
    BY DEF OrphansOf, Unknown, Listed
  <1>3. N \in Nat
    BY <1>2, FiniteOrders
  <1>4. /\ next \in Pass /\ next.step = pass.step /\ next.todo \subseteq pass.todo
        /\ next.queued = pass.queued
    BY DEF RestTypes, Pass
  <1>5. CASE recovery' = recovery /\ pass' = next
    BY <1>1, <1>4, <1>5 DEF BookTypes, OneRequest
  <1>6. ASSUME NEW codes \in [ids -> found],
               \A m, n \in ids : m < n => Before(codes[m], codes[n]),
               recovery' = [n \in 1 .. L + N |->
                             IF n \in ids
                             THEN NewRequest(NoOrder, GoodsOf(codes[n]), a, codes[n], {}, Window)
                             ELSE recovery[n]],
               pass' = [next EXCEPT !.queued = @ \cup ids]
        PROVE  /\ recovery' \in Seq(Request) /\ OneRequest' /\ L <= Len(recovery')
               /\ \A i \in DOMAIN recovery : i \in DOMAIN recovery' /\ recovery'[i] = recovery[i]
               /\ \A i \in DOMAIN recovery' \ DOMAIN recovery :
                    /\ recovery'[i].code \in Unknown /\ recovery'[i].link = 0
                    /\ recovery'[i].status = "pending"
               /\ \A i, j \in DOMAIN recovery' \ DOMAIN recovery :
                    i # j => recovery'[i].code # recovery'[j].code
               /\ pass' \in Pass /\ pass'.step = pass.step /\ pass'.todo \subseteq pass.todo
               /\ \A i \in pass'.queued : \/ i \in pass.queued
                                          \/ i \in DOMAIN recovery' /\ recovery'[i].status = "pending"
    <2> DEFINE Row(n) == NewRequest(NoOrder, GoodsOf(codes[n]), a, codes[n], {}, Window)
    <2>1. ASSUME NEW n \in ids
          PROVE  /\ Row(n) \in Request /\ Row(n).key = NoOrder /\ Row(n).code = codes[n]
                 /\ Row(n).link = 0 /\ Row(n).status = "pending" /\ codes[n] \in found
      <3>1. codes[n] \in found /\ codes[n] \in Order
        BY <1>2, <1>6, <2>1
      <3>2. GoodsOf(codes[n]) \in Goods
        BY <3>1, PriceNat DEF RestTypes
      <3>3. Window \in Int /\ {} \in SUBSET Order
        BY BoundAssumption
      <3> HIDE DEF found
      <3> QED BY <1>1, <3>1, <3>2, <3>3 DEF NewRequest, Request
    <2> HIDE DEF Row, found
    <2>2. /\ DOMAIN recovery' = 1 .. L + N /\ L + N \in Nat
          /\ \A n \in ids : n \in DOMAIN recovery' /\ recovery'[n] = Row(n)
          /\ \A n \in 1 .. L : n \in DOMAIN recovery' /\ n \notin ids /\ recovery'[n] = recovery[n]
      <3> HIDE DEF N
      <3> QED BY <1>1, <1>3, <1>6 DEF Row
    <2>3. \A n \in DOMAIN recovery' : n \in ids \/ n \in 1 .. L
      <3> HIDE DEF N
      <3> QED BY <1>1, <1>3, <2>2
    <2> HIDE DEF ids
    <2>4. \A n \in DOMAIN recovery' : recovery'[n] \in Request
      BY <1>1, <2>1, <2>2, <2>3 DEF BookTypes
    <2>5. recovery' \in Seq(Request) /\ Len(recovery') = L + N
      <3>1. recovery' = [n \in 1 .. L + N |-> recovery'[n]]
        BY <1>6
      <3> QED BY <2>2, <2>4, <3>1, IsSeq
    <2>6. OneRequest'
      BY <1>1, <2>1, <2>2, <2>3 DEF BookTypes, OneRequest
    <2>7. ASSUME NEW i \in DOMAIN recovery' \ DOMAIN recovery
          PROVE  i \in ids /\ i \in Nat /\ recovery'[i] = Row(i)
      BY <1>1, <2>2, <2>3
    <2>8. \A i \in DOMAIN recovery' \ DOMAIN recovery :
                /\ recovery'[i].code \in Unknown /\ recovery'[i].link = 0
                /\ recovery'[i].status = "pending"
      BY <1>2, <2>1, <2>7
    <2>9. ASSUME NEW i \in DOMAIN recovery' \ DOMAIN recovery,
                 NEW j \in DOMAIN recovery' \ DOMAIN recovery, i # j
          PROVE  recovery'[i].code # recovery'[j].code
      <3>1. i < j \/ j < i
        BY <2>7, <2>9
      <3>2. codes[i] # codes[j]
        BY <1>6, <2>7, <3>1, BeforeDiffers
      <3> QED BY <2>1, <2>7, <3>2
    <2>10. /\ pass' \in Pass /\ pass'.step = pass.step /\ pass'.todo \subseteq pass.todo
           /\ pass'.queued = pass.queued \cup ids
      <3>1. ids \subseteq Nat
        BY <1>1, <1>3, <2>2
      <3> HIDE DEF next
      <3> QED BY <1>4, <1>6, <3>1 DEF Pass
    <2>11. L <= Len(recovery')
      <3> HIDE DEF N
      <3> QED BY <1>1, <1>3, <2>5
    <2> QED BY <1>1, <2>1, <2>2, <2>5, <2>6, <2>8, <2>9, <2>10, <2>11
  <1> QED BY <1>5, <1>6 DEF QueueOne

\* What a match does to the requests and the accounts.
LEMMA StoreTyped ==
    ASSUME BookTypes, RestTypes, NEW i \in DOMAIN recovery, NEW o \in Order, StoreRecovered(i, o)
    PROVE  /\ recovery' \in Seq(Request) /\ OneRequest' /\ Len(recovery') = Len(recovery)
           /\ rows' \in [Order -> {"none", "stock", "sold", "withdrawn"}]
           /\ \A j \in DOMAIN recovery : j # i => recovery'[j] = recovery[j]
           /\ DOMAIN recovery' = DOMAIN recovery
           /\ recovery'[i].link = recovery[i].link /\ recovery'[i].goods = recovery[i].goods
           /\ \/ /\ recovery'[i].status = "invalid_product" /\ recovery'[i].code = recovery[i].code
                 /\ rows' = rows
              \/ /\ recovery'[i].status = "recovered" /\ recovery'[i].code = o
                 /\ rows'[o] # "none" /\ \A q \in Order : q # o => rows'[q] = rows[q]
  <1>1. recovery[i] \in Request /\ recovery \in Seq(Request)
    BY DEF BookTypes
  <1>2. CASE recovery' = [recovery EXCEPT ![i].status = "invalid_product"] /\ rows' = rows
    <2>1. PICK r : r = [recovery[i] EXCEPT !.status = "invalid_product"]
      OBVIOUS
    <2>2. /\ r \in Request /\ r.key = recovery[i].key /\ r.link = recovery[i].link
          /\ r.goods = recovery[i].goods /\ r.code = recovery[i].code /\ r.status = "invalid_product"
      BY <1>1, <2>1 DEF Request
    <2>3. recovery' = [recovery EXCEPT ![i] = r]
      BY <1>2, <2>1
    <2>4. /\ DOMAIN recovery' = DOMAIN recovery /\ recovery' = [j \in DOMAIN recovery |-> recovery'[j]]
          /\ recovery'[i] = r /\ \A j \in DOMAIN recovery : j # i => recovery'[j] = recovery[j]
      BY <1>1, <2>3
    <2>5. recovery' \in Seq(Request) /\ OneRequest' /\ Len(recovery') = Len(recovery)
      BY <1>1, <2>2, <2>4, RewrittenTyped
    <2> QED BY <1>2, <2>2, <2>4, <2>5 DEF RestTypes
  <1>3. CASE /\ rows' = IF rows[o] # "none" THEN rows
                        ELSE [rows EXCEPT ![o] = IF recovery[i].withdraw THEN "withdrawn" ELSE "stock"]
             /\ recovery' = [recovery EXCEPT ![i].status = "recovered", ![i].code = o]
    <2>1. PICK r : r = [recovery[i] EXCEPT !.status = "recovered", !.code = o]
      OBVIOUS
    <2>2. /\ r \in Request /\ r.key = recovery[i].key /\ r.link = recovery[i].link
          /\ r.goods = recovery[i].goods /\ r.code = o /\ r.status = "recovered"
      BY <1>1, <2>1 DEF Request
    <2>3. recovery' = [recovery EXCEPT ![i] = r]
      BY <1>3, <2>1
    <2>4. /\ DOMAIN recovery' = DOMAIN recovery /\ recovery' = [j \in DOMAIN recovery |-> recovery'[j]]
          /\ recovery'[i] = r /\ \A j \in DOMAIN recovery : j # i => recovery'[j] = recovery[j]
      BY <1>1, <2>3
    <2>5. recovery' \in Seq(Request) /\ OneRequest' /\ Len(recovery') = Len(recovery)
      BY <1>1, <2>2, <2>4, RewrittenTyped
    <2>6. /\ rows' \in [Order -> {"none", "stock", "sold", "withdrawn"}]
          /\ rows'[o] # "none" /\ \A q \in Order : q # o => rows'[q] = rows[q]
      BY <1>3 DEF RestTypes
    <2> QED BY <2>2, <2>4, <2>5, <2>6
  <1> QED BY <1>2, <1>3 DEF StoreRecovered

\* Requests that expire at the beginning of a pass.
LEMMA ExpireTyped ==
    ASSUME BookTypes, NEW todo,
           recovery' = [i \in DOMAIN recovery |->
                      IF recovery[i].status = "pending" /\ i \notin todo
                      THEN [recovery[i] EXCEPT !.status = "expired"] ELSE recovery[i]]
    PROVE  /\ recovery' \in Seq(Request) /\ OneRequest' /\ Len(recovery') = Len(recovery)
           /\ DOMAIN recovery' = DOMAIN recovery
           /\ \A i \in DOMAIN recovery :
                /\ recovery'[i].code = recovery[i].code /\ recovery'[i].link = recovery[i].link
                /\ recovery'[i].goods = recovery[i].goods
                /\ recovery'[i].status = "recovered" <=> recovery[i].status = "recovered"
                /\ i \in todo => recovery'[i] = recovery[i]
  <1>1. \A i \in DOMAIN recovery : recovery[i] \in Request
    BY DEF BookTypes
  <1>2. ASSUME NEW r \in Request
        PROVE  /\ [r EXCEPT !.status = "expired"] \in Request
               /\ [r EXCEPT !.status = "expired"].key = r.key
               /\ [r EXCEPT !.status = "expired"].code = r.code
               /\ [r EXCEPT !.status = "expired"].link = r.link
               /\ [r EXCEPT !.status = "expired"].goods = r.goods
               /\ [r EXCEPT !.status = "expired"].status = "expired"
    BY DEF Request
  <1>3. \A i \in DOMAIN recovery :
          /\ recovery'[i] \in Request /\ recovery'[i].key = recovery[i].key
          /\ recovery'[i].code = recovery[i].code /\ recovery'[i].link = recovery[i].link
          /\ recovery'[i].goods = recovery[i].goods
          /\ recovery'[i].status = "recovered" <=> recovery[i].status = "recovered"
          /\ i \in todo => recovery'[i] = recovery[i]
    BY <1>1, <1>2
  <1>4. DOMAIN recovery' = DOMAIN recovery /\ recovery' = [i \in DOMAIN recovery |-> recovery'[i]]
    OBVIOUS
  <1> QED BY <1>3, <1>4, RewrittenTyped

LEMMA PassesTyped ==
    ASSUME Typed, BeginPass \/ PassStep
    PROVE  Typed'
  <1> SUFFICES BillTypes' /\ BookTypes' /\ RestTypes'
    BY TypedPartsNext
  <1>0. BillTypes /\ BookTypes /\ RestTypes
    BY TypedParts
  <1> USE DEF supplier, shop, books
  <1>1. /\ UNCHANGED <<provider, supplier, buy, over, called, retired, state, period, audited>>
    BY DEF BeginPass, PassStep, MatchNext, EndMatching, LinkRecovered, EndLinking, QueueOrphans,
           EndOrphans, AbortPass
  <1>2. BillTypes'
    BY <1>0, <1>1, BillsKept DEF BillTypes
  <1>3. ASSUME rows' = rows, pass' \in Pass \cup {NoPass} PROVE RestTypes'
    BY <1>0, <1>1, <1>3, PassTyped
  <1>4. CASE BeginPass
    <2> DEFINE todo == {i \in DOMAIN recovery : Active(recovery[i])}
    <2>1. /\ recovery' \in Seq(Request) /\ OneRequest'
      <3>1. recovery' = [i \in DOMAIN recovery |->
                      IF recovery[i].status = "pending" /\ i \notin todo
                      THEN [recovery[i] EXCEPT !.status = "expired"] ELSE recovery[i]]
        BY <1>4 DEF BeginPass
      <3> HIDE DEF todo
      <3> QED BY <1>0, <3>1, ExpireTyped
    <2>2. todo \subseteq Nat
      BY <1>0 DEF BookTypes
    <2>3. pass' \in Pass \cup {NoPass}
      <3>1. pass' = NoPass \/ pass' = [step |-> "match", todo |-> todo, skipped |-> {}, queued |-> {}]
        BY <1>4 DEF BeginPass
      <3>2. todo \in SUBSET Nat /\ {} \in SUBSET Order /\ {} \in SUBSET Nat
        BY <2>2
      <3> HIDE DEF todo
      <3>3. [step |-> "match", todo |-> todo, skipped |-> {}, queued |-> {}] \in Pass
        BY <3>2 DEF Pass
      <3> QED BY <3>1, <3>3
    <2> QED BY <1>0, <1>1, <1>2, <1>3, <1>4, <2>1, <2>3 DEF BeginPass, BookTypes
  <1>5. CASE MatchNext
    <2>1. pass \in Pass
      BY <1>0, <1>5 DEF MatchNext, Matching, RestTypes
    <2>2. PICK i \in DOMAIN recovery :
            LET found == MatchesOf(recovery[i])
                next == [pass EXCEPT !.todo = @ \ {i}] IN
            \/ found = {} /\ pass' = next /\ UNCHANGED <<rows, recovery>>
            \/ \E o \in found :
                 IF o \in scant
                   THEN pass' = NoPass /\ UNCHANGED <<rows, recovery>>
                   ELSE /\ StoreRecovered(i, o)
                        /\ pass' = [next EXCEPT !.skipped = @ \cup {o}]
      BY <1>5 DEF MatchNext
    <2> DEFINE next == [pass EXCEPT !.todo = @ \ {i}]
    <2>3. next \in Pass
      BY <2>1 DEF Pass
    <2>4. MatchesOf(recovery[i]) \subseteq Order
      BY DEF MatchesOf, Unknown, Listed
    <2>5. CASE UNCHANGED <<rows, recovery>> /\ pass' \in {next, NoPass}
      <3>1. BookTypes'
        BY <1>0, <1>1, <1>5, <2>5, BookKept DEF MatchNext
      <3> QED BY <1>2, <1>3, <2>3, <2>5, <3>1
    <2>6. ASSUME NEW o \in Order, StoreRecovered(i, o), pass' = [next EXCEPT !.skipped = @ \cup {o}]
          PROVE  BillTypes' /\ BookTypes' /\ RestTypes'
      <3>1. pass' \in Pass
        <4> HIDE DEF next
        <4> QED BY <2>3, <2>6 DEF Pass
      <3>2. /\ recovery' \in Seq(Request) /\ OneRequest'
            /\ rows' \in [Order -> {"none", "stock", "sold", "withdrawn"}]
        BY <1>0, <2>6, StoreTyped
      <3>3. BookTypes'
        BY <1>0, <1>1, <1>5, <3>2 DEF MatchNext, BookTypes
      <3>4. RestTypes'
        BY <1>0, <1>1, <3>1, <3>2 DEF RestTypes, HasOrder
      <3> QED BY <1>2, <3>3, <3>4
    <2> QED BY <2>2, <2>4, <2>5, <2>6
  <1>6. CASE EndMatching \/ EndLinking \/ EndOrphans \/ AbortPass
    <2>1. pass \in Pass
      BY <1>0, <1>6 DEF EndMatching, EndLinking, EndOrphans, AbortPass, Matching, Linking, Orphans,
                        RestTypes
    <2>2. DOMAIN ledger \subseteq Nat
      BY <1>0 DEF BookTypes
    <2>3. pass' \in Pass \cup {NoPass}
      <3>1. CASE EndMatching
        BY <2>1, <2>2, <3>1 DEF EndMatching, Pass
      <3>2. CASE EndLinking
        BY <2>1, <2>2, <3>2 DEF EndLinking, Pass, RecentAudits
      <3>3. CASE EndOrphans
        BY <2>1, <3>3 DEF EndOrphans, Pass
      <3> QED BY <1>6, <3>1, <3>2, <3>3 DEF AbortPass
    <2>4. UNCHANGED <<rows, ledger, recovery>>
      BY <1>6 DEF EndMatching, EndLinking, EndOrphans, AbortPass
    <2>5. BookTypes'
      BY <1>0, <1>1, <2>4, BookKept
    <2> QED BY <1>2, <1>3, <2>3, <2>4, <2>5
  <1>7. CASE LinkRecovered
    <2>1. pass \in Pass /\ rows' = rows
      BY <1>0, <1>7 DEF LinkRecovered, Linking, RestTypes
    <2>2. PICK a \in DOMAIN ledger : LinkOne(a) /\ pass' = [pass EXCEPT !.todo = @ \ {a}]
      BY <1>7 DEF LinkRecovered
    <2>3. pass' \in Pass
      BY <2>1, <2>2 DEF Pass
    <2>4. BookTypes'
      BY <1>0, <1>1, <2>2, LinkTyped
    <2> QED BY <1>2, <1>3, <2>1, <2>3, <2>4
  <1>8. CASE QueueOrphans
    <2>1. pass # NoPass /\ UNCHANGED <<rows, ledger>>
      BY <1>8 DEF QueueOrphans, Orphans
    <2>2. PICK a \in DOMAIN ledger : QueueOne(a)
      BY <1>8 DEF QueueOrphans
    <2>3. recovery' \in Seq(Request) /\ OneRequest' /\ pass' \in Pass
      BY <1>0, <2>1, <2>2, QueueOneTyped
    <2>4. BookTypes'
      BY <1>0, <1>1, <2>1, <2>3 DEF BookTypes
    <2> QED BY <1>2, <1>3, <2>1, <2>3, <2>4
  <1> QED BY <1>4, <1>5, <1>6, <1>7, <1>8 DEF PassStep

-----------------------------------------------------------------------------
(***************************************************************************)
(* Audits.                                                                 *)
(***************************************************************************)
\* What the audit and the clock do to the rows: none is lost, no amount and no
\* order changes, an open audit may be closed as refunded, and what is added
\* belongs to no order.
LikeRow(e, f) ==
    /\ f.amount = e.amount /\ f.code = e.code
    /\ f.kind = e.kind \/ (e.kind = "suspicious" /\ f.kind = "refunded")

LikeBook(book) ==
    /\ book \in Seq(Entry) /\ Len(ledger) <= Len(book)
    /\ \A i \in DOMAIN ledger : i \in DOMAIN book /\ LikeRow(ledger[i], book[i])
    /\ \A i \in DOMAIN book \ DOMAIN ledger :
         book[i].code = NoOrder /\ book[i].kind \in {"suspicious", "credit", "refund"}

LEMMA LikeSame ==
    ASSUME BookTypes
    PROVE  LikeBook(ledger)
  <1>1. Len(ledger) \in Nat
    BY DEF BookTypes
  <1> QED BY <1>1 DEF BookTypes, LikeBook, LikeRow

LEMMA UnexplainedInt ==
    ASSUME BookTypes, RestTypes
    PROVE  Unexplained \in Int /\ Debits({i \in Purchases : i > state.last}) \in Nat
  <1> DEFINE T == {i \in Purchases : i > state.last}
             f == [i \in T |-> 0 - ledger[i].amount]
  <1>1. Len(ledger) \in Nat /\ DOMAIN ledger = 1 .. Len(ledger)
    BY DEF BookTypes
  <1>2. T \subseteq DOMAIN ledger
    BY DEF Purchases
  <1>3. IsFiniteSet(T)
    <2>1. 1 \in Int /\ Len(ledger) \in Int
      BY <1>1
    <2>2. IsFiniteSet(1 .. Len(ledger))
      BY <2>1, FS_Interval
    <2> QED BY <1>1, <1>2, <2>2, FS_Subset
  <1>4. \A i \in T : f[i] \in Int
    BY <1>2, EntryFacts DEF BookTypes
  <1>5. SumOver(T, f) \in Nat
    <2> HIDE DEF T, f
    <2> QED BY <1>3, <1>4, PairsFinite
  <1>6. funds \in Int /\ state.balance \in Int
    BY DEF RestTypes, BookTypes
  <1> QED BY <1>5, <1>6 DEF Unexplained, Debits

LEMMA ReconciledTyped ==
    ASSUME BillTypes, BookTypes, RestTypes
    PROVE  /\ LikeBook(Reconciled)
           /\ \A i \in DOMAIN Reconciled \ DOMAIN ledger :
                Reconciled[i].kind = "suspicious" => state.known /\ Reconciled[i].amount = Unexplained
  <1> DEFINE delta == Unexplained
             refunded == RefundedBy(delta)
             closed == [i \in DOMAIN ledger |->
                          IF i \in refunded THEN [ledger[i] EXCEPT !.kind = "refunded"] ELSE ledger[i]]
  <1>1. delta \in Int
    BY UnexplainedInt
  <1>2. \A i \in refunded : i \in DOMAIN ledger /\ ledger[i].kind = "suspicious"
    BY DEF RefundedBy, IsSuspicious
  <1>3. NoOrder \in Order \cup {NoOrder} /\ {} \in SUBSET Order /\ period \in SUBSET Order
    BY OldOrders
  <1>4. Len(ledger) \in Nat /\ DOMAIN ledger = 1 .. Len(ledger) /\ ledger \in Seq(Entry)
    BY DEF BookTypes
  <1> HIDE DEF delta, refunded
  <1>5. CASE Reconciled = ledger
    BY <1>5, LikeSame
  <1>6. CASE state.known /\ Reconciled = Append(ledger, NewEntry("suspicious", delta, NoOrder, period))
    <2>1. PICK e : e = NewEntry("suspicious", delta, NoOrder, period)
      OBVIOUS
    <2>2. e \in Entry /\ e.code = NoOrder /\ e.kind = "suspicious" /\ e.amount = Unexplained
      BY <1>1, <1>3, <2>1 DEF NewEntry, Entry, delta
    <2>3. LikeBook(Reconciled)
      BY <1>4, <1>6, <2>1, <2>2, AppendFacts DEF LikeBook, LikeRow
    <2>4. \A i \in DOMAIN Reconciled \ DOMAIN ledger : Reconciled[i] = e
      BY <1>4, <1>6, <2>1, <2>2, AppendFacts
    <2> QED BY <1>6, <2>2, <2>3, <2>4
  <1>7. ASSUME NEW kind \in {"credit", "refund"},
               Reconciled = Append(closed, NewEntry(kind, delta, NoOrder, {}))
        PROVE  /\ LikeBook(Reconciled)
               /\ \A i \in DOMAIN Reconciled \ DOMAIN ledger : Reconciled[i].kind # "suspicious"
    <2>1. PICK e : e = NewEntry(kind, delta, NoOrder, {})
      OBVIOUS
    <2>2. e \in Entry /\ e.code = NoOrder /\ e.kind = kind
      BY <1>1, <1>3, <2>1, EntryTyped
    <2>3. ASSUME NEW r \in Entry
          PROVE  /\ [r EXCEPT !.kind = "refunded"] \in Entry
                 /\ [r EXCEPT !.kind = "refunded"].amount = r.amount
                 /\ [r EXCEPT !.kind = "refunded"].code = r.code
                 /\ [r EXCEPT !.kind = "refunded"].kind = "refunded"
      BY DEF Entry
    <2>4. \A i \in DOMAIN ledger : closed[i] \in Entry /\ LikeRow(ledger[i], closed[i])
      BY <1>2, <1>4, <2>3 DEF LikeRow
    <2>5. closed \in Seq(Entry) /\ Len(closed) = Len(ledger) /\ DOMAIN closed = 1 .. Len(ledger)
      <3>1. closed = [i \in 1 .. Len(ledger) |-> closed[i]]
        BY <1>4
      <3> HIDE DEF closed
      <3> QED BY <1>4, <2>4, <3>1, IsSeq
    <2> HIDE DEF closed
    <2>6. /\ Append(closed, e) \in Seq(Entry) /\ Len(Append(closed, e)) = Len(closed) + 1
          /\ DOMAIN Append(closed, e) = 1 .. Len(closed) + 1
          /\ \A i \in DOMAIN closed : Append(closed, e)[i] = closed[i]
          /\ Append(closed, e)[Len(closed) + 1] = e
      BY <2>2, <2>5, AppendFacts
    <2>7. Reconciled = Append(closed, e)
      BY <1>7, <2>1
    <2>8. \A i \in DOMAIN Reconciled \ DOMAIN ledger : i = Len(closed) + 1
      BY <1>4, <2>5, <2>6, <2>7
    <2>9. LikeBook(Reconciled)
      BY <1>4, <2>2, <2>4, <2>5, <2>6, <2>7, <2>8 DEF LikeBook
    <2> QED BY <2>2, <2>6, <2>7, <2>8, <2>9
  <1> QED BY <1>5, <1>6, <1>7 DEF Reconciled, delta, refunded

\* Messages and the clock change no row but for its age.
LEMMA MarkedTyped ==
    ASSUME BookTypes, NEW old, LikeBook(old), NEW book,
           DOMAIN book = DOMAIN old, book = [i \in DOMAIN old |-> book[i]],
           \A i \in DOMAIN old : /\ book[i] \in Entry /\ book[i].amount = old[i].amount
                                 /\ book[i].code = old[i].code /\ book[i].kind = old[i].kind
    PROVE  LikeBook(book)
  <1>1. Len(old) \in Nat /\ DOMAIN old = 1 .. Len(old)
    BY DEF LikeBook
  <1>2. book \in Seq(Entry) /\ Len(book) = Len(old)
    BY <1>1, IsSeq
  <1> QED BY <1>1, <1>2 DEF LikeBook, LikeRow

LEMMA AlertedTyped ==
    ASSUME BookTypes, NEW old, LikeBook(old)
    PROVE  LikeBook(Alerted(old))
  <1> DEFINE book == Alerted(old)
  <1>1. ASSUME NEW r \in Entry
        PROVE  /\ [r EXCEPT !.alerted = TRUE] \in Entry
               /\ [r EXCEPT !.alerted = TRUE].amount = r.amount
               /\ [r EXCEPT !.alerted = TRUE].code = r.code
               /\ [r EXCEPT !.alerted = TRUE].kind = r.kind
    BY DEF Entry
  <1>2. \A i \in DOMAIN old : old[i] \in Entry
    BY DEF LikeBook
  <1>3. /\ DOMAIN book = DOMAIN old /\ book = [i \in DOMAIN old |-> book[i]]
        /\ \A i \in DOMAIN old : book[i] = IF AlertDue(old, i) THEN [old[i] EXCEPT !.alerted = TRUE]
                                           ELSE old[i]
    BY DEF Alerted
  <1> HIDE DEF book
  <1>4. \A i \in DOMAIN old : /\ book[i] \in Entry /\ book[i].amount = old[i].amount
                              /\ book[i].code = old[i].code /\ book[i].kind = old[i].kind
    BY <1>1, <1>2, <1>3
  <1>5. LikeBook(book)
    BY <1>3, <1>4, MarkedTyped
  <1> QED BY <1>5 DEF book

LEMMA OlderTyped ==
    ASSUME BookTypes, RestTypes, ledger' = [i \in DOMAIN ledger |-> Older(ledger[i])]
    PROVE  LikeBook(ledger')
  <1>1. ASSUME NEW r \in Entry
        PROVE  /\ Older(r) \in Entry /\ Older(r).amount = r.amount
               /\ Older(r).code = r.code /\ Older(r).kind = r.kind
    BY DEF Entry, Older
  <1>2. \A i \in DOMAIN ledger : ledger[i] \in Entry
    BY DEF BookTypes
  <1>3. /\ DOMAIN ledger' = DOMAIN ledger /\ ledger' = [i \in DOMAIN ledger |-> ledger'[i]]
        /\ \A i \in DOMAIN ledger : ledger'[i] = Older(ledger[i])
    OBVIOUS
  <1>4. \A i \in DOMAIN ledger : /\ ledger'[i] \in Entry /\ ledger'[i].amount = ledger[i].amount
                                 /\ ledger'[i].code = ledger[i].code /\ ledger'[i].kind = ledger[i].kind
    BY <1>1, <1>2, <1>3
  <1> QED BY <1>3, <1>4, LikeSame, MarkedTyped

\* An order billed in the instant of an audit is of its period.
LEMMA BilledTyped ==
    ASSUME BookTypes, NEW o \in Order,
           ledger' = IF audited = 0 THEN ledger ELSE [ledger EXCEPT ![audited].orders = @ \cup {o}]
    PROVE  LikeBook(ledger') /\ Len(ledger') = Len(ledger)
  <1>1. CASE audited = 0
    BY <1>1, LikeSame
  <1>2. CASE audited # 0
    <2>1. audited \in DOMAIN ledger
      BY <1>2 DEF BookTypes
    <2>2. PICK r : r = [ledger[audited] EXCEPT !.orders = @ \cup {o}]
      OBVIOUS
    <2>3. ledger[audited] \in Entry
      BY <2>1 DEF BookTypes
    <2>4. /\ r \in Entry /\ r.amount = ledger[audited].amount /\ r.code = ledger[audited].code
          /\ r.kind = ledger[audited].kind
      BY <2>2, <2>3 DEF Entry
    <2>5. ledger' = [ledger EXCEPT ![audited] = r]
      BY <1>2, <2>2
    <2>6. /\ DOMAIN ledger' = DOMAIN ledger /\ ledger' = [i \in DOMAIN ledger |-> ledger'[i]]
          /\ ledger'[audited] = r /\ \A i \in DOMAIN ledger : i # audited => ledger'[i] = ledger[i]
      BY <2>1, <2>5 DEF BookTypes
    <2>7. \A i \in DOMAIN ledger : ledger[i] \in Entry
      BY DEF BookTypes
    <2>8. \A i \in DOMAIN ledger : /\ ledger'[i] \in Entry /\ ledger'[i].amount = ledger[i].amount
                                   /\ ledger'[i].code = ledger[i].code /\ ledger'[i].kind = ledger[i].kind
      BY <2>4, <2>6, <2>7
    <2>9. Len(ledger') = Len(ledger)
      BY <2>6, <2>8, ReledgeredTyped
    <2> QED BY <2>6, <2>8, <2>9, LikeSame, MarkedTyped
  <1> QED BY <1>1, <1>2

LEMMA NearerTyped ==
    ASSUME BookTypes, recovery' = [i \in DOMAIN recovery |-> Nearer(recovery[i])]
    PROVE  /\ recovery' \in Seq(Request) /\ OneRequest' /\ DOMAIN recovery' = DOMAIN recovery
           /\ \A i \in DOMAIN recovery :
                /\ recovery'[i].code = recovery[i].code /\ recovery'[i].link = recovery[i].link
                /\ recovery'[i].goods = recovery[i].goods /\ recovery'[i].status = recovery[i].status
  <1>1. ASSUME NEW r \in Request
        PROVE  /\ Nearer(r) \in Request /\ Nearer(r).key = r.key /\ Nearer(r).code = r.code
               /\ Nearer(r).link = r.link /\ Nearer(r).goods = r.goods
               /\ Nearer(r).status = r.status
    BY DEF Request, Nearer
  <1>2. \A i \in DOMAIN recovery : recovery[i] \in Request
    BY DEF BookTypes
  <1>3. /\ DOMAIN recovery' = DOMAIN recovery /\ recovery' = [i \in DOMAIN recovery |-> recovery'[i]]
        /\ \A i \in DOMAIN recovery : recovery'[i] = Nearer(recovery[i])
    OBVIOUS
  <1>4. \A i \in DOMAIN recovery :
          /\ recovery'[i] \in Request /\ recovery'[i].key = recovery[i].key
          /\ recovery'[i].code = recovery[i].code /\ recovery'[i].link = recovery[i].link
          /\ recovery'[i].goods = recovery[i].goods /\ recovery'[i].status = recovery[i].status
    BY <1>1, <1>2, <1>3
  <1> QED BY <1>3, <1>4, RewrittenTyped

LEMMA OneMoreBill ==
    ASSUME BillTypes, NEW o \in Order, status[o] = "asked",
           status' = [status EXCEPT ![o] = "billed"], billed' = Append(billed, o),
           fresh' = fresh \cup {o}, period' = period \cup {o}
    PROVE  BillTypes'
  <1>1. billed \in Seq(Order) /\ Len(billed) \in Nat /\ DOMAIN billed = 1 .. Len(billed)
        /\ o \notin Range(billed)
    BY DEF BillTypes, BillsSound, Charged
  <1>2. /\ billed' \in Seq(Order) /\ DOMAIN billed' = 1 .. Len(billed) + 1
        /\ \A i \in DOMAIN billed : billed'[i] = billed[i]
        /\ billed'[Len(billed) + 1] = o
    BY <1>1, AppendFacts
  <1>3. \A i \in DOMAIN billed' : i \in DOMAIN billed \/ i = Len(billed) + 1
    BY <1>1, <1>2
  <1>4. \A i \in DOMAIN billed : i \in DOMAIN billed' /\ billed[i] # o
    BY <1>1, <1>2 DEF Range
  <1>5. IsInjective(billed')
    <2> SUFFICES ASSUME NEW i \in DOMAIN billed', NEW j \in DOMAIN billed', billed'[i] = billed'[j]
                 PROVE  i = j
      BY DEF IsInjective
    <2>1. \A m, n \in DOMAIN billed : billed[m] = billed[n] => m = n
      BY DEF BillTypes, IsInjective
    <2> QED BY <1>2, <1>3, <1>4, <2>1
  <1>6. Range(billed') = Range(billed) \cup {o}
    <2>1. Len(billed) + 1 \in DOMAIN billed'
      BY <1>1, <1>2
    <2> QED BY <1>2, <1>3, <1>4, <2>1 DEF Range
  <1>7. BillsSound'
    BY <1>6 DEF BillTypes, BillsSound, Charged
  <1> QED BY <1>2, <1>5, <1>6, <1>7 DEF BillTypes

LEMMA OthersTyped ==
    ASSUME Typed, \/ \E told \in BOOLEAN : Audit(told)
                  \/ \E o \in Order : Bill(o) \/ List(o) \/ Repay(o)
                  \/ \E amount \in TopUps : TopUp(amount)
                  \/ \E g \in Retirable : RetireProduct(g)
                  \/ Tick
    PROVE  Typed'
  <1> SUFFICES BillTypes' /\ BookTypes' /\ RestTypes'
    BY TypedPartsNext
  <1>0. BillTypes /\ BookTypes /\ RestTypes
    BY TypedParts
  <1> USE DEF supplier, shop, books
  <1>1. ASSUME NEW told \in BOOLEAN, Audit(told) PROVE BillTypes' /\ BookTypes' /\ RestTypes'
    <2>1. LikeBook(ledger')
      BY <1>0, <1>1, ReconciledTyped, AlertedTyped DEF Audit
    <2>2. PICK n \in Purchases \cup {0} : state' = [balance |-> funds, last |-> n, known |-> TRUE]
      BY <1>1 DEF Audit
    <2>3. Len(ledger) \in Nat /\ Len(ledger') \in Nat /\ DOMAIN ledger = 1 .. Len(ledger)
          /\ Len(ledger) <= Len(ledger')
      BY <1>0, <2>1 DEF BookTypes, LikeBook
    <2>4. n \in 0 .. Len(ledger')
      BY <2>3 DEF Purchases
    <2>5. state' \in [balance: Int, last: 0..Len(ledger'), known: BOOLEAN]
      BY <1>0, <2>2, <2>4 DEF RestTypes
    <2>6. audited' \in 0 .. Len(ledger')
      BY <1>0, <1>1, <2>3 DEF Audit, BookTypes
    <2>7. BookTypes'
      BY <1>0, <1>1, <2>1, <2>5, <2>6 DEF Audit, BookTypes, OneRequest, LikeBook
    <2>8. BillTypes'
      <3>1. fresh \subseteq Range(billed)
        BY <1>0 DEF BillTypes
      <3> QED BY <1>0, <1>1, <3>1, BillsKept DEF Audit
    <2>9. RestTypes'
      BY <1>0, <1>1, PassTyped DEF Audit, RestTypes
    <2> QED BY <2>7, <2>8, <2>9
  <1>2. ASSUME NEW o \in Order, Bill(o) PROVE BillTypes' /\ BookTypes' /\ RestTypes'
    <2>1. BillTypes'
      BY <1>0, <1>2, OneMoreBill DEF Bill
    <2>2. LikeBook(ledger') /\ Len(ledger') = Len(ledger)
      BY <1>0, <1>2, BilledTyped DEF Bill
    <2>3. BookTypes'
      BY <1>0, <1>2, <2>2 DEF Bill, BookTypes, OneRequest, LikeBook
    <2>4. funds' \in Int
      <3>1. Price(o) \in Nat
        BY <1>0, PriceNat DEF RestTypes
      <3> QED BY <1>0, <1>2, <3>1 DEF Bill, RestTypes
    <2> QED BY <1>0, <1>2, <2>1, <2>3, <2>4 DEF Bill, RestTypes, HasOrder
  <1>3. ASSUME NEW o \in Order, List(o) \/ Repay(o) PROVE BillTypes' /\ BookTypes' /\ RestTypes'
    <2>1. PICK v \in {"listed", "repaid"} : status' = [status EXCEPT ![o] = v]
      BY <1>3 DEF List, Repay
    <2>2. BillTypes'
      <3>1. status[o] \in Charged <=> v \in Charged
        BY <1>3 DEF List, Repay, Charged
      <3> QED BY <1>0, <1>3, <2>1, <3>1, StatusKept DEF List, Repay
    <2>3. BookTypes'
      BY <1>0, <1>3, BookKept DEF List, Repay
    <2>4. funds' \in Int
      <3>1. Price(o) \in Nat
        BY <1>0, PriceNat DEF RestTypes
      <3> QED BY <1>0, <1>3, <3>1 DEF List, Repay, RestTypes
    <2> QED BY <1>0, <1>3, <2>2, <2>3, <2>4 DEF List, Repay, RestTypes, HasOrder
  <1>4. ASSUME NEW amount \in TopUps, TopUp(amount) PROVE BillTypes' /\ BookTypes' /\ RestTypes'
    <2>1. BillTypes'
      BY <1>0, <1>4, BillsKept DEF TopUp, BillTypes
    <2>2. BookTypes'
      BY <1>0, <1>4, BookKept DEF TopUp
    <2>3. funds' \in Int /\ toppedUp' \in BOOLEAN
      BY <1>0, <1>4, BoundAssumption DEF TopUp, RestTypes
    <2> QED BY <1>0, <1>4, <2>1, <2>2, <2>3 DEF TopUp, RestTypes, HasOrder
  <1>5. ASSUME NEW g \in Retirable, RetireProduct(g) PROVE BillTypes' /\ BookTypes' /\ RestTypes'
    <2>1. BillTypes'
      BY <1>0, <1>5, BillsKept DEF RetireProduct, BillTypes
    <2>2. BookTypes'
      BY <1>0, <1>5, BookKept DEF RetireProduct
    <2>3. retired' \subseteq Goods
      BY <1>0, <1>5, OrderAssumption DEF RetireProduct, RestTypes
    <2> QED BY <1>0, <1>5, <2>1, <2>2, <2>3 DEF RetireProduct, RestTypes, HasOrder
  <1>6. CASE Tick
    <2>1. LikeBook(ledger') /\ recovery' \in Seq(Request) /\ OneRequest'
      BY <1>0, <1>6, OlderTyped, NearerTyped DEF Tick
    <2>2. BookTypes'
      <3>1. Len(ledger) \in Nat /\ Len(ledger') \in Nat /\ Len(ledger) <= Len(ledger')
        BY <1>0, <2>1 DEF BookTypes, LikeBook
      <3>2. state' = [balance |-> state.balance, last |-> state.last, known |-> state.known]
            /\ state.balance \in Int /\ state.last \in 0..Len(ledger) /\ state.known \in BOOLEAN
        BY <1>0, <1>6 DEF Tick, BookTypes
      <3>3. state.last \in 0..Len(ledger') /\ audited' \in 0..Len(ledger')
        BY <1>6, <3>1, <3>2 DEF Tick
      <3>4. state' \in [balance: Int, last: 0..Len(ledger'), known: BOOLEAN]
        BY <3>2, <3>3
      <3> QED BY <2>1, <3>3, <3>4 DEF BookTypes, LikeBook
    <2>3. BillTypes'
      BY <1>0, <1>6, BillsKept DEF Tick, BillTypes
    <2> QED BY <1>0, <1>6, <2>2, <2>3 DEF Tick, RestTypes, HasOrder
  <1> QED BY <1>1, <1>2, <1>3, <1>4, <1>5, <1>6

LEMMA TypedNext == Typed /\ [Next]_vars => Typed'
  <1> SUFFICES ASSUME Typed, [Next]_vars PROVE Typed'
    OBVIOUS
  <1>1. CASE UNCHANGED vars
    BY <1>1 DEF vars, supplier, shop, books, Typed, TypeOK, BillsSound, HasOrder
  <1>2. CASE Next
    BY <1>2, PurchaseTyped, PassesTyped, OthersTyped DEF Next
  <1> QED BY <1>1, <1>2

\* Type correctness: in every state each variable is of its type, no order is
\* billed twice, and no key has two recovery requests
\* (queue_supplier_recovery's look-up before the row is added).
THEOREM SupplierTypeCorrect == Spec => []TypeOK
  <1>1. Typed => TypeOK
    BY DEF Typed
  <1> QED BY <1>1, TypedInit, TypedNext, PTL DEF Spec

-----------------------------------------------------------------------------
(***************************************************************************)
(* What becomes of an order.                                               *)
(***************************************************************************)
RequestCodes == {recovery[i].code : i \in DOMAIN recovery} \ {NoOrder}
PurchaseCodes == {ledger[i].code : i \in Purchases}

\* No two rows claim an order, and the accounts in the shop are those of the
\* orders that were bought or recovered.
FateSound ==
    /\ \A i \in Purchases : ledger[i].code \in Order \ RequestCodes
    /\ \A i, j \in Purchases : ledger[i].code = ledger[j].code => i = j
    /\ \A i \in DOMAIN recovery : recovery[i].status = "recovered" => recovery[i].code \in Order
    /\ \A i, j \in DOMAIN recovery :
         recovery[i].code = recovery[j].code /\ i # j => recovery[i].code = NoOrder
    /\ \A i \in DOMAIN ledger \ Purchases : ledger[i].code \in RequestCodes \cup {NoOrder}
    /\ \A o \in Order : o \in Held <=> \/ o \in PurchaseCodes
                                       \/ \E i \in DOMAIN recovery : /\ recovery[i].code = o
                                                                     /\ recovery[i].status = "recovered"

\* An order that the shop knows has been billed, and at Le Hai its key is over.
KnownSound ==
    /\ \A o \in PurchaseCodes \cup RequestCodes :
         status[o] \in Charged /\ (provider = "lehai" => asker[o] \in over)
    /\ provider = "lehai" => DOMAIN recovery = {}

\* The order a purchase asked for, and the order it takes, are not known yet.
BuySound ==
    /\ buy # NoBuy => /\ buy.key \notin over /\ asker[buy.order] = buy.key
                      /\ buy.order \notin PurchaseCodes \cup RequestCodes
    /\ HasOrder => /\ buy.found \notin PurchaseCodes \cup RequestCodes
                   /\ status[buy.found] \in Charged
                   /\ provider = "lehai" => buy.found = buy.order

\* A request explains at most one audit, and together those that explain an
\* audit cost what it is short of.
LinkSound ==
    /\ \A i \in DOMAIN recovery : recovery[i].link = 0 \/ recovery[i].link \in DOMAIN ledger
    /\ RecoveredBalances

Sound == Typed /\ PassSound /\ FateSound /\ KnownSound /\ BuySound /\ LinkSound

\* What most steps leave as it is.
RequestsKept ==
    /\ \A i \in DOMAIN recovery :
         /\ i \in DOMAIN recovery' /\ recovery'[i].code = recovery[i].code
         /\ recovery'[i].link = recovery[i].link /\ recovery'[i].goods = recovery[i].goods
         /\ recovery'[i].status = "recovered" <=> recovery[i].status = "recovered"
    /\ \A i \in DOMAIN recovery' \ DOMAIN recovery :
         /\ recovery'[i].code = NoOrder /\ recovery'[i].link = 0
         /\ recovery'[i].status # "recovered"

LEMMA PurchasesKept ==
    ASSUME LikeBook(ledger')
    PROVE  Purchases' = Purchases /\ PurchaseCodes' = PurchaseCodes
  <1>1. \A i : i \in Purchases' <=> i \in Purchases
    BY DEF LikeBook, LikeRow, Purchases
  <1>2. \A i \in Purchases : ledger'[i].code = ledger[i].code
    BY DEF LikeBook, LikeRow, Purchases
  <1>3. Purchases' = Purchases
    BY <1>1
  <1> QED BY <1>2, <1>3 DEF PurchaseCodes

LEMMA CodesKept ==
    ASSUME RequestsKept
    PROVE  RequestCodes' = RequestCodes
  <1>1. \A o : o \in RequestCodes' => o \in RequestCodes
    BY DEF RequestsKept, RequestCodes
  <1>2. \A o : o \in RequestCodes => o \in RequestCodes'
    BY DEF RequestsKept, RequestCodes
  <1> QED BY <1>1, <1>2

LEMMA FateKept ==
    ASSUME FateSound, LikeBook(ledger'), RequestsKept, Held' = Held
    PROVE  FateSound'
  <1>1. Purchases' = Purchases /\ PurchaseCodes' = PurchaseCodes /\ RequestCodes' = RequestCodes
    BY PurchasesKept, CodesKept
  <1>2. \A i \in Purchases : i \in DOMAIN ledger /\ ledger'[i].code = ledger[i].code
    BY DEF LikeBook, LikeRow, Purchases
  <1>3. \A i \in Purchases' : ledger'[i].code \in Order \ RequestCodes'
    BY <1>1, <1>2 DEF FateSound
  <1>4. \A i, j \in Purchases' : ledger'[i].code = ledger'[j].code => i = j
    BY <1>1, <1>2 DEF FateSound
  <1>5. \A i \in DOMAIN recovery' : recovery'[i].status = "recovered" => recovery'[i].code \in Order
    BY DEF FateSound, RequestsKept
  <1>6. \A i, j \in DOMAIN recovery' :
           recovery'[i].code = recovery'[j].code /\ i # j => recovery'[i].code = NoOrder
    BY DEF FateSound, RequestsKept
  <1>7. \A i \in DOMAIN ledger' \ Purchases' : ledger'[i].code \in RequestCodes' \cup {NoOrder}
    BY <1>1 DEF FateSound, LikeBook, LikeRow
  <1>8. ASSUME NEW o
        PROVE  (\E i \in DOMAIN recovery' : recovery'[i].code = o /\ recovery'[i].status = "recovered")
               <=> (\E i \in DOMAIN recovery : recovery[i].code = o /\ recovery[i].status = "recovered")
    BY DEF RequestsKept
  <1>9. \A o \in Order : o \in Held' <=> \/ o \in PurchaseCodes'
                                         \/ \E i \in DOMAIN recovery' : /\ recovery'[i].code = o
                                                                       /\ recovery'[i].status = "recovered"
    BY <1>1, <1>8 DEF FateSound
  <1> QED BY <1>3, <1>4, <1>5, <1>6, <1>7, <1>9 DEF FateSound

LEMMA KnownKept ==
    ASSUME KnownSound, PurchaseCodes' = PurchaseCodes, RequestCodes' = RequestCodes,
           provider' = provider, over \subseteq over',
           \A o \in PurchaseCodes \cup RequestCodes :
             status[o] \in Charged => status'[o] \in Charged /\ asker'[o] = asker[o],
           provider = "lehai" => DOMAIN recovery' = DOMAIN recovery
    PROVE  KnownSound'
  BY DEF KnownSound, Charged

LEMMA BuyKept ==
    ASSUME RestTypes, BuySound, PurchaseCodes' = PurchaseCodes, RequestCodes' = RequestCodes,
           provider' = provider,
           buy' = NoBuy \/ (buy' = buy /\ over' = over),
           buy # NoBuy => asker' = asker,
           \A o \in Order : status[o] \in Charged => status'[o] \in Charged
    PROVE  BuySound'
  <1>1. CASE buy' = NoBuy
    BY <1>1 DEF BuySound, HasOrder
  <1>2. CASE buy' = buy /\ over' = over /\ buy # NoBuy
    <2>1. HasOrder' <=> HasOrder
      BY <1>2 DEF HasOrder
    <2>2. HasOrder => buy.found \in Order
      BY DEF RestTypes
    <2>3. PICK b : b = buy
      OBVIOUS
    <2> QED BY <1>2, <2>1, <2>2, <2>3 DEF BuySound, Charged
  <1> QED BY <1>1, <1>2

\* The requests that explain an audit.
Linked(a) == {i \in DOMAIN recovery : recovery[i].link = a}

LEMMA Balances ==
    RecoveredBalances <=>
      \A a \in DOMAIN ledger :
        IF ledger[a].kind = "recovered" THEN WorthOf(Linked(a)) = 0 - ledger[a].amount
        ELSE Linked(a) = {}
  BY DEF RecoveredBalances, Linked

LEMMA BalancesNext ==
    RecoveredBalances' <=>
      \A a \in DOMAIN ledger' :
        IF ledger'[a].kind = "recovered" THEN WorthOf(Linked(a))' = 0 - ledger'[a].amount
        ELSE Linked(a)' = {}
  BY DEF RecoveredBalances, Linked

LEMMA LinkKept ==
    ASSUME BookTypes, LinkSound, LikeBook(ledger'), RequestsKept
    PROVE  LinkSound'
  <1>1. DOMAIN ledger \subseteq DOMAIN ledger'
    BY DEF LikeBook
  <1>2. \A i \in DOMAIN recovery' : recovery'[i].link = 0 \/ recovery'[i].link \in DOMAIN ledger'
    BY <1>1 DEF LinkSound, RequestsKept
  <1>3. 0 \notin DOMAIN ledger'
    BY DEF LikeBook
  <1>4. ASSUME NEW a \in DOMAIN ledger'
        PROVE  /\ \A i : i \in Linked(a)' <=> i \in Linked(a)
               /\ \A i \in Linked(a) : recovery'[i].goods = recovery[i].goods
    BY <1>3, <1>4 DEF RequestsKept, Linked
  <1>5. ASSUME NEW a \in DOMAIN ledger'
        PROVE  Linked(a)' = Linked(a) /\ WorthOf(Linked(a))' = WorthOf(Linked(a))
    <2>1. Linked(a)' = Linked(a)
      BY <1>4
    <2>2. [i \in Linked(a)' |-> Cost[recovery'[i].goods]] = [i \in Linked(a) |-> Cost[recovery[i].goods]]
      BY <1>4, <2>1
    <2> QED BY <2>1, <2>2 DEF WorthOf
  <1>6. ASSUME NEW a \in DOMAIN ledger
        PROVE  IF ledger'[a].kind = "recovered" THEN WorthOf(Linked(a))' = 0 - ledger'[a].amount
               ELSE Linked(a)' = {}
    <2>1. LikeRow(ledger[a], ledger'[a]) /\ a \in DOMAIN ledger'
      BY DEF LikeBook
    <2>2. IF ledger[a].kind = "recovered" THEN WorthOf(Linked(a)) = 0 - ledger[a].amount
          ELSE Linked(a) = {}
      BY Balances DEF LinkSound
    <2> QED BY <1>5, <2>1, <2>2 DEF LikeRow
  <1>7. ASSUME NEW a \in DOMAIN ledger' \ DOMAIN ledger
        PROVE  IF ledger'[a].kind = "recovered" THEN WorthOf(Linked(a))' = 0 - ledger'[a].amount
               ELSE Linked(a)' = {}
    <2>1. ledger'[a].kind # "recovered"
      BY DEF LikeBook
    <2>2. Linked(a) = {}
      BY <1>3, <1>7 DEF LinkSound, Linked
    <2> QED BY <1>5, <2>1, <2>2
  <1>8. RecoveredBalances'
    BY <1>6, <1>7, BalancesNext
  <1> QED BY <1>2, <1>8 DEF LinkSound

\* No row is lost, no row gets another order, and the accounts stay in the shop.
Frame == LikeBook(ledger') /\ RequestsKept /\ Held' = Held

LEMMA FrameKept ==
    ASSUME Sound, Frame
    PROVE  /\ FateSound' /\ LinkSound'
           /\ PurchaseCodes' = PurchaseCodes /\ RequestCodes' = RequestCodes
  BY FateKept, LinkKept, PurchasesKept, CodesKept, TypedParts DEF Sound, Frame

LEMMA FrameSame ==
    ASSUME BookTypes, UNCHANGED <<ledger, recovery, rows>>
    PROVE  Frame
  BY LikeSame DEF Frame, RequestsKept, Held

\* Everything the shop knows is an order.
LEMMA KnownIs ==
    ASSUME FateSound
    PROVE  /\ KnownOrders = PurchaseCodes \cup RequestCodes
           /\ PurchaseCodes \subseteq Order
           /\ NoOrder \notin KnownOrders
  <1>1. PurchaseCodes \subseteq Order /\ NoOrder \notin PurchaseCodes
    BY OrderAssumption DEF FateSound, PurchaseCodes
  <1>2. Held \subseteq PurchaseCodes \cup RequestCodes
    <2> SUFFICES ASSUME NEW o \in Held PROVE o \in PurchaseCodes \cup RequestCodes
      OBVIOUS
    <2>1. o \in Order /\ o # NoOrder
      BY OrderAssumption DEF Held
    <2>2. \/ o \in PurchaseCodes
          \/ \E i \in DOMAIN recovery : recovery[i].code = o /\ recovery[i].status = "recovered"
      BY <2>1 DEF FateSound
    <2> QED BY <2>1, <2>2 DEF RequestCodes
  <1>3. \A i \in DOMAIN ledger : ledger[i].code \in PurchaseCodes \cup RequestCodes \cup {NoOrder}
    BY DEF FateSound, PurchaseCodes, Purchases
  <1>4. KnownOrders \subseteq PurchaseCodes \cup RequestCodes
    BY <1>2, <1>3 DEF KnownOrders, RequestCodes
  <1>5. PurchaseCodes \subseteq KnownOrders
    BY <1>1 DEF KnownOrders, PurchaseCodes, Purchases
  <1>6. RequestCodes \subseteq KnownOrders
    BY DEF KnownOrders, RequestCodes
  <1> QED BY <1>1, <1>4, <1>5, <1>6 DEF KnownOrders

LEMMA SoundInit == Init => Sound
  <1> SUFFICES ASSUME Init PROVE Sound
    OBVIOUS
  <1>1. DOMAIN ledger = {} /\ DOMAIN recovery = {} /\ Purchases = {} /\ PurchaseCodes = {}
        /\ RequestCodes = {} /\ Held = {} /\ buy = NoBuy /\ pass = NoPass
    BY DEF Init, Purchases, PurchaseCodes, RequestCodes, Held
  <1>2. Typed
    BY TypedInit
  <1>3. FateSound
    BY <1>1 DEF FateSound
  <1>4. KnownSound
    BY <1>1 DEF KnownSound
  <1>5. BuySound /\ PassSound
    BY <1>1 DEF BuySound, HasOrder, PassSound
  <1>6. LinkSound
    BY <1>1 DEF LinkSound, RecoveredBalances
  <1> QED BY <1>2, <1>3, <1>4, <1>5, <1>6 DEF Sound

\* Purchases and sales that store nothing.
LEMMA AskSound ==
    ASSUME Sound, NEW k \in Key, Ask(k)
    PROVE  Frame /\ KnownSound' /\ BuySound' /\ PassSound'
  <1>0. BillTypes /\ BookTypes /\ RestTypes
    BY TypedParts DEF Sound
  <1>1. PICK o \in Order :
             /\ IsOrderOf(o, k)
             /\ status' = IF status[o] = "none" THEN [status EXCEPT ![o] = "asked"] ELSE status
             /\ asker' = [asker EXCEPT ![o] = k]
             /\ buy' = [key |-> k, order |-> o, older |-> OlderOrders, found |-> NoOrder, step |-> "asked"]
             /\ UNCHANGED <<provider, billed, fresh, scant, funds, toppedUp, pass, over, rows, retired, books>>
    BY DEF Ask
  <1>2. Frame
    BY <1>0, <1>1, FrameSame DEF books
  <1>3. PurchaseCodes' = PurchaseCodes /\ RequestCodes' = RequestCodes
    BY <1>2, FrameKept
  <1>4. k \notin over /\ pass = NoPass
    BY DEF Ask, GuardFree
  <1>5. \/ provider = "lehai" /\ asker[o] = k
        \/ status[o] = "none"
    BY <1>1 DEF IsOrderOf
  <1>6. o \notin PurchaseCodes \cup RequestCodes
    BY <1>4, <1>5 DEF Sound, KnownSound, Charged
  <1>7. \A q \in Order : status[q] \in Charged => status'[q] \in Charged
    BY <1>0, <1>1 DEF BillTypes, Charged
  <1>8. \A q \in PurchaseCodes \cup RequestCodes : asker'[q] = asker[q] /\ status'[q] = status[q]
    <2>1. \A q \in PurchaseCodes \cup RequestCodes : q # o
      BY <1>6
    <2>2. PurchaseCodes \cup RequestCodes \subseteq Order
      <3>1. \A i \in DOMAIN recovery : recovery[i].code \in Order \cup {NoOrder}
        BY <1>0, RequestFacts DEF BookTypes
      <3> QED BY <3>1, KnownIs DEF Sound, RequestCodes
    <2> QED BY <1>0, <1>1, <2>1, <2>2 DEF BillTypes, RestTypes
  <1>9. KnownSound'
    BY <1>1, <1>3, <1>8, KnownKept DEF Sound, books
  <1>10. BuySound'
    <2>1. buy'.key = k /\ buy'.order = o /\ ~HasOrder'
      BY <1>1 DEF HasOrder
    <2>2. asker'[o] = k
      BY <1>0, <1>1 DEF RestTypes
    <2> QED BY <1>1, <1>3, <1>4, <1>6, <2>1, <2>2 DEF BuySound
  <1>11. PassSound'
    BY <1>1, <1>4 DEF PassSound
  <1> QED BY <1>2, <1>9, <1>10, <1>11

LEMMA AnswerSound ==
    ASSUME Sound, AnswerDelivered \/ AnswerLost \/ FindRecent \/ AskAgain
    PROVE  Frame /\ KnownSound' /\ BuySound' /\ PassSound'
  <1>0. BillTypes /\ BookTypes /\ RestTypes
    BY TypedParts DEF Sound
  <1>1. /\ buy # NoBuy
        /\ UNCHANGED <<provider, supplier, pass, shop, books>>
    BY DEF AnswerDelivered, AnswerLost, FindRecent, AskAgain, Asked, Doubt, Goes
  <1>2. Frame
    BY <1>0, <1>1, FrameSame DEF books, shop
  <1>3. PurchaseCodes' = PurchaseCodes /\ RequestCodes' = RequestCodes
    BY <1>2, FrameKept
  <1>4. KnownSound'
    BY <1>1, <1>3, KnownKept DEF Sound, supplier, shop, books
  <1>5. PassSound'
    BY <1>1 DEF Sound, PassSound
  <1>6. buy \in Purchase /\ buy.order \in Order
    BY <1>0, <1>1, BuyFacts
  <1>7. PICK step \in {"doubt", "held"}, o \in Order \cup {NoOrder} :
          /\ Goes(step, o)
          /\ step = "held" => /\ o \in Order \ (PurchaseCodes \cup RequestCodes)
                              /\ status[o] \in Charged
                              /\ provider = "lehai" => o = buy.order
    <2>1. CASE AnswerDelivered \/ AskAgain
      BY <1>1, <1>6, <2>1 DEF AnswerDelivered, AskAgain, Made, Charged, Sound, BuySound
    <2>2. CASE AnswerLost
      BY <2>2 DEF AnswerLost
    <2>3. CASE FindRecent
      <3>1. PICK o \in Order : o \in RecentOrders /\ Goes("held", o)
        BY <2>3 DEF FindRecent, IsFirst
      <3> QED BY <2>3, <3>1, KnownIs DEF FindRecent, RecentOrders, Listed, Charged, Sound
    <2> QED BY <2>1, <2>2, <2>3
  <1>8. /\ buy' # NoBuy => buy'.key = buy.key /\ buy'.order = buy.order
        /\ buy'.step = step /\ buy'.found = o
    BY <1>6, <1>7 DEF Goes, Purchase
  <1>9. BuySound'
    <2>1. /\ buy' # NoBuy => /\ buy'.key \notin over' /\ asker'[buy'.order] = buy'.key
                             /\ buy'.order \notin PurchaseCodes' \cup RequestCodes'
      BY <1>1, <1>3, <1>8 DEF Sound, BuySound, supplier, shop
    <2>2. HasOrder' => step = "held"
      BY <1>8 DEF HasOrder
    <2>3. HasOrder' => /\ buy'.found \notin PurchaseCodes' \cup RequestCodes'
                       /\ status'[buy'.found] \in Charged
                       /\ provider' = "lehai" => buy'.found = buy'.order
      BY <1>1, <1>3, <1>7, <1>8, <2>2 DEF supplier, HasOrder
    <2> QED BY <2>1, <2>3 DEF BuySound, Charged
  <1> QED BY <1>2, <1>4, <1>5, <1>9

LEMMA QueueFrame ==
    ASSUME BookTypes, NEW k \in Key, NEW older \in SUBSET Order, NEW left \in Int,
           QueueRecovery(k, older, left)
    PROVE  RequestsKept
  BY QueueTyped DEF BookTypes, RequestsKept

\* Purchases that end with nothing, sales from stock, stale preorders, a crash.
LEMMA EndSound ==
    ASSUME Sound, \/ AnswerRefused \/ GiveUp
                  \/ \E k \in Key, o \in Order : SellStock(k, o)
                  \/ \E k \in Preordered : RecoverStale(k)
                  \/ Crash
    PROVE  Frame /\ KnownSound' /\ BuySound' /\ PassSound'
  <1>0. BillTypes /\ BookTypes /\ RestTypes
    BY TypedParts DEF Sound
  <1>1. /\ buy' = NoBuy \/ (buy' = buy /\ over' = over)
        /\ over \subseteq over'
        /\ UNCHANGED <<provider, asker, ledger>> /\ pass' = pass
        /\ provider = "lehai" => recovery' = recovery
    BY DEF AnswerRefused, GiveUp, SellStock, RecoverStale, Crash, EndPurchase, Asked, Doubt, supplier,
           books, GuardFree
  <1>2. PassSound'
    <2>1. pass = NoPass
      BY DEF AnswerRefused, GiveUp, SellStock, RecoverStale, Crash, Asked, Doubt, GuardFree, Sound,
             PassSound
    <2> QED BY <1>1, <2>1 DEF PassSound
  <1>3. Held' = Held
    <2>1. ASSUME NEW k \in Key, NEW o \in Order, SellStock(k, o) PROVE Held' = Held
      BY <1>0, <2>1 DEF SellStock, Held, RestTypes
    <2>2. rows' = rows => Held' = Held
      BY DEF Held
    <2> QED BY <2>1, <2>2 DEF AnswerRefused, GiveUp, RecoverStale, Crash, EndPurchase, shop
  <1>4. RequestsKept
    <2>0. recovery' = recovery => RequestsKept
      BY DEF RequestsKept
    <2>1. CASE GiveUp
      <3>1. buy # NoBuy /\ (QueueRecovery(buy.key, buy.older, Window) \/ recovery' = recovery)
        BY <2>1 DEF GiveUp, Doubt
      <3>2. Window \in Int /\ buy.key \in Key /\ buy.older \in SUBSET Order
        BY <1>0, <3>1, BoundAssumption, BuyFacts
      <3> QED BY <1>0, <2>0, <3>1, <3>2, QueueFrame
    <2>2. ASSUME NEW k \in Preordered, RecoverStale(k) PROVE RequestsKept
      <3>1. called[k] # Idle /\ (QueueRecovery(k, called[k], 0) \/ recovery' = recovery)
        BY <2>2 DEF RecoverStale
      <3>2. 0 \in Int /\ k \in Key /\ called[k] \in SUBSET Order
        BY <1>0, <3>1, KeyAssumption DEF RestTypes
      <3> QED BY <1>0, <2>0, <3>1, <3>2, QueueFrame
    <2> QED BY <2>0, <2>1, <2>2 DEF AnswerRefused, SellStock, Crash, books
  <1>5. Frame
    BY <1>0, <1>1, <1>3, <1>4, LikeSame DEF Frame
  <1>6. PurchaseCodes' = PurchaseCodes /\ RequestCodes' = RequestCodes
    BY <1>5, FrameKept
  <1>7. \A q \in Order : status[q] \in Charged => status'[q] = status[q]
    <2>1. CASE AnswerRefused
      <3>1. buy.order \in Order /\ status[buy.order] \notin Charged
            /\ status' = [status EXCEPT ![buy.order] = "refused"]
        BY <1>0, <2>1, BuyFacts DEF AnswerRefused, Asked, Charged
      <3> QED BY <1>0, <3>1 DEF BillTypes
    <2> QED BY <2>1 DEF GiveUp, SellStock, RecoverStale, Crash, EndPurchase, supplier
  <1>8. PurchaseCodes \cup RequestCodes \subseteq Order
      <3>1. \A i \in DOMAIN recovery : recovery[i].code \in Order \cup {NoOrder}
        BY <1>0, RequestFacts DEF BookTypes
      <3> QED BY <3>1, KnownIs DEF Sound, RequestCodes
  <1>9. KnownSound'
    BY <1>1, <1>6, <1>7, <1>8, KnownKept DEF Sound
  <1>10. BuySound'
    BY <1>0, <1>1, <1>6, <1>7, BuyKept DEF Sound
  <1> QED BY <1>2, <1>5, <1>9, <1>10

\* A sale is committed: the only step that adds a purchase.
LEMMA ConcludeSound ==
    ASSUME Sound, HasOrder, NEW fate \in {"withdrawn", "sold", "stock"}, Conclude(fate)
    PROVE  FateSound' /\ KnownSound' /\ BuySound' /\ PassSound' /\ LinkSound'
  <1>0. BillTypes /\ BookTypes /\ RestTypes
    BY TypedParts DEF Sound
  <1> DEFINE n == Len(ledger) + 1
  <1>1. PICK o : o = buy.found
    OBVIOUS
  <1>2. /\ buy # NoBuy /\ o \in Order \ (PurchaseCodes \cup RequestCodes) /\ status[o] \in Charged
        /\ provider = "lehai" => asker[o] = buy.key
    BY <1>0, <1>1 DEF RestTypes, HasOrder, Sound, BuySound, Conclude
  <1>3. /\ rows' = [rows EXCEPT ![o] = fate] /\ recovery' = recovery /\ pass' = pass
        /\ buy' = NoBuy /\ over' = over \cup {buy.key}
        /\ UNCHANGED <<provider, status, asker>>
        /\ ledger' = Append(ledger, NewEntry("purchase", 0 - Price(o), o, {}))
    BY <1>1 DEF Conclude, EndPurchase
  <1>4. PICK e : e = NewEntry("purchase", 0 - Price(o), o, {})
    OBVIOUS
  <1>5. e \in Entry /\ e.kind = "purchase" /\ e.code = o
    <2>1. Price(o) \in Nat
      BY <1>0, <1>2, PriceNat DEF RestTypes
    <2> QED BY <1>2, <1>4, <2>1 DEF NewEntry, Entry
  <1>6. /\ Len(ledger) \in Nat /\ DOMAIN ledger = 1 .. Len(ledger) /\ DOMAIN ledger' = 1 .. n
        /\ \A i \in DOMAIN ledger : ledger'[i] = ledger[i]
        /\ ledger'[n] = e
    BY <1>0, <1>3, <1>4, <1>5, AppendFacts DEF BookTypes
  <1> HIDE DEF n
  <1>7. n \notin DOMAIN ledger /\ DOMAIN ledger' = DOMAIN ledger \cup {n}
    BY <1>6 DEF n
  <1>8. Purchases' = Purchases \cup {n} /\ n \notin Purchases
    BY <1>5, <1>6, <1>7 DEF Purchases
  <1>9. \A i \in Purchases : i \in DOMAIN ledger /\ ledger'[i].code = ledger[i].code
    BY <1>6 DEF Purchases
  <1>10. PurchaseCodes' = PurchaseCodes \cup {o}
    BY <1>5, <1>6, <1>8, <1>9 DEF PurchaseCodes
  <1>11. RequestCodes' = RequestCodes
    BY <1>3 DEF RequestCodes
  <1>12. FateSound'
    <2>1. \A i \in Purchases' : ledger'[i].code \in Order \ RequestCodes'
      BY <1>2, <1>5, <1>6, <1>8, <1>9, <1>11 DEF Sound, FateSound
    <2>2. \A i, j \in Purchases' : ledger'[i].code = ledger'[j].code => i = j
      <3>1. \A i \in Purchases : ledger'[i].code # o
        BY <1>2, <1>9 DEF PurchaseCodes
      <3> QED BY <1>5, <1>6, <1>8, <1>9, <3>1 DEF Sound, FateSound
    <2>3. \A i \in DOMAIN ledger' \ Purchases' : ledger'[i].code \in RequestCodes' \cup {NoOrder}
      BY <1>6, <1>7, <1>8, <1>11 DEF Sound, FateSound
    <2>4. \A q \in Order : q \in Held' <=> q \in Held \/ q = o
      BY <1>0, <1>2, <1>3 DEF Held, RestTypes
    <2>5. \A q \in Order : q \in Held' <=> \/ q \in PurchaseCodes'
                                           \/ \E i \in DOMAIN recovery' : /\ recovery'[i].code = q
                                                                         /\ recovery'[i].status = "recovered"
      BY <1>3, <1>10, <2>4 DEF Sound, FateSound
    <2> QED BY <1>3, <2>1, <2>2, <2>3, <2>5 DEF Sound, FateSound
  <1>13. KnownSound'
    <2>1. \A q \in PurchaseCodes' \cup RequestCodes' : q = o \/ q \in PurchaseCodes \cup RequestCodes
      BY <1>10, <1>11
    <2>2. \A q \in PurchaseCodes \cup RequestCodes :
            status[q] \in Charged /\ (provider = "lehai" => asker[q] \in over)
      BY DEF Sound, KnownSound
    <2>3. \A q \in PurchaseCodes' \cup RequestCodes' :
            status'[q] \in Charged /\ (provider' = "lehai" => asker'[q] \in over')
      BY <1>2, <1>3, <2>1, <2>2
    <2>4. provider' = "lehai" => DOMAIN recovery' = {}
      BY <1>3 DEF Sound, KnownSound
    <2> QED BY <2>3, <2>4 DEF KnownSound, Charged
  <1>14. BuySound'
    BY <1>3 DEF BuySound, HasOrder
  <1>15. PassSound'
    BY <1>2, <1>3 DEF Sound, PassSound
  <1>16. LinkSound'
    <2>1. 0 \notin DOMAIN ledger'
      BY <1>6 DEF n
    <2>2. \A a : Linked(a)' = Linked(a) /\ WorthOf(Linked(a))' = WorthOf(Linked(a))
      BY <1>3 DEF Linked, WorthOf
    <2>3. Linked(n) = {}
      BY <1>7, <2>1 DEF Sound, LinkSound, Linked
    <2>4. \A a \in DOMAIN ledger :
            IF ledger[a].kind = "recovered" THEN WorthOf(Linked(a)) = 0 - ledger[a].amount
            ELSE Linked(a) = {}
      BY Balances DEF Sound, LinkSound
    <2>5. RecoveredBalances'
      BY <1>5, <1>6, <1>7, <2>2, <2>3, <2>4, BalancesNext
    <2> QED BY <1>3, <1>7, <2>5 DEF Sound, LinkSound
  <1> QED BY <1>12, <1>13, <1>14, <1>15, <1>16

\* Audits, the supplier, the administrator and the clock.
LEMMA OthersSound ==
    ASSUME Sound, \/ \E told \in BOOLEAN : Audit(told)
                  \/ \E o \in Order : Bill(o) \/ List(o) \/ Repay(o)
                  \/ \E amount \in TopUps : TopUp(amount)
                  \/ \E g \in Retirable : RetireProduct(g)
                  \/ Tick
    PROVE  Frame /\ KnownSound' /\ BuySound' /\ PassSound'
  <1>0. BillTypes /\ BookTypes /\ RestTypes
    BY TypedParts DEF Sound
  <1>1. /\ UNCHANGED <<provider, asker, buy, pass, over, rows>>
        /\ Tick \/ recovery' = recovery
    BY DEF Audit, Bill, List, Repay, TopUp, RetireProduct, Tick, supplier, shop, books
  <1>2. PassSound'
    <2>1. pass = NoPass
      BY DEF Audit, Bill, List, Repay, TopUp, RetireProduct, Tick, GuardFree, Sound, PassSound
    <2> QED BY <1>1, <2>1 DEF PassSound
  <1>3. LikeBook(ledger')
    <2>1. ASSUME NEW told \in BOOLEAN, Audit(told) PROVE LikeBook(ledger')
      BY <1>0, <2>1, ReconciledTyped, AlertedTyped DEF Audit
    <2>2. ASSUME NEW o \in Order, Bill(o) PROVE LikeBook(ledger')
      BY <1>0, <2>2, BilledTyped DEF Bill
    <2>3. CASE Tick
      BY <1>0, <2>3, OlderTyped DEF Tick
    <2>4. ledger' = ledger => LikeBook(ledger')
      BY <1>0, LikeSame
    <2> QED BY <2>1, <2>2, <2>3, <2>4 DEF List, Repay, TopUp, RetireProduct, books
  <1>4. RequestsKept /\ DOMAIN recovery' = DOMAIN recovery
    BY <1>0, <1>1, NearerTyped DEF Tick, RequestsKept
  <1>5. Frame
    BY <1>1, <1>3, <1>4 DEF Frame, Held
  <1>6. PurchaseCodes' = PurchaseCodes /\ RequestCodes' = RequestCodes
    BY <1>5, FrameKept
  <1>7. \A q \in Order : status[q] \in Charged => status'[q] \in Charged
    BY <1>0 DEF Audit, Bill, List, Repay, TopUp, RetireProduct, Tick, supplier, BillTypes, Charged
  <1>8. PurchaseCodes \cup RequestCodes \subseteq Order
      <2>1. \A i \in DOMAIN recovery : recovery[i].code \in Order \cup {NoOrder}
        BY <1>0, RequestFacts DEF BookTypes
      <2> QED BY <2>1, KnownIs DEF Sound, RequestCodes
  <1>9. KnownSound'
    BY <1>1, <1>4, <1>6, <1>7, <1>8, KnownKept DEF Sound
  <1>10. BuySound'
    BY <1>0, <1>1, <1>6, <1>7, BuyKept DEF Sound
  <1> QED BY <1>2, <1>5, <1>9, <1>10

\* Passes.  They find the guard free, and learn only of orders that are listed.
LEMMA PassQuiet ==
    ASSUME Sound, BeginPass \/ PassStep
    PROVE  /\ buy = NoBuy /\ provider = "sumistore"
           /\ UNCHANGED <<provider, supplier, buy, over, called, retired, state, period, audited>>
           /\ BuySound'
  <1>1. UNCHANGED <<provider, supplier, buy, over, called, retired, state, period, audited>>
    BY DEF BeginPass, PassStep, MatchNext, EndMatching, LinkRecovered, EndLinking, QueueOrphans,
           EndOrphans, AbortPass, shop, books
  <1>2. buy = NoBuy /\ provider = "sumistore"
    <2>1. CASE BeginPass
      BY <2>1 DEF BeginPass, GuardFree
    <2>2. CASE PassStep
      <3>1. pass # NoPass
        BY <2>2 DEF PassStep, MatchNext, EndMatching, LinkRecovered, EndLinking, QueueOrphans,
                    EndOrphans, AbortPass, Matching, Linking, Orphans
      <3> QED BY <3>1 DEF Sound, PassSound
    <2> QED BY <2>1, <2>2
  <1> QED BY <1>1, <1>2 DEF BuySound, HasOrder

LEMMA KnownMore ==
    ASSUME Sound, BeginPass \/ PassStep,
           \A o \in PurchaseCodes' \cup RequestCodes' :
             o \in PurchaseCodes \cup RequestCodes \/ status[o] \in Charged
    PROVE  KnownSound'
  <1>1. provider' = "sumistore" /\ status' = status
    BY PassQuiet DEF supplier
  <1>2. \A o \in PurchaseCodes' \cup RequestCodes' : status'[o] \in Charged
    BY <1>1 DEF Sound, KnownSound
  <1> QED BY <1>1, <1>2 DEF KnownSound, Charged

\* A pass begins, turns to its next part, or ends.
LEMMA TurnSound ==
    ASSUME Sound, BeginPass \/ EndMatching \/ EndLinking \/ EndOrphans \/ AbortPass
    PROVE  Frame /\ KnownSound' /\ BuySound' /\ PassSound'
  <1>0. BillTypes /\ BookTypes /\ RestTypes
    BY TypedParts DEF Sound
  <1>1. UNCHANGED <<provider, buy, ledger, rows>> /\ buy = NoBuy /\ provider = "sumistore" /\ BuySound'
    <2>1. BeginPass \/ PassStep
      BY DEF PassStep
    <2>2. UNCHANGED <<ledger, rows>>
      BY DEF BeginPass, EndMatching, EndLinking, EndOrphans, AbortPass, shop, books
    <2> QED BY <2>1, <2>2, PassQuiet
  <1>2. CASE BeginPass
    <2> DEFINE todo == {i \in DOMAIN recovery : Active(recovery[i])}
    <2>1. recovery' = [i \in DOMAIN recovery |->
                      IF recovery[i].status = "pending" /\ i \notin todo
                      THEN [recovery[i] EXCEPT !.status = "expired"] ELSE recovery[i]]
      BY <1>2 DEF BeginPass
    <2>2. pass' = NoPass \/ pass' = [step |-> "match", todo |-> todo, skipped |-> {}, queued |-> {}]
      BY <1>2 DEF BeginPass
    <2>3. \A i \in todo : i \in DOMAIN recovery /\ recovery[i].status = "pending"
      BY DEF Active
    <2> HIDE DEF todo
    <2>4. /\ DOMAIN recovery' = DOMAIN recovery
          /\ \A i \in DOMAIN recovery :
                /\ recovery'[i].code = recovery[i].code /\ recovery'[i].link = recovery[i].link
                /\ recovery'[i].goods = recovery[i].goods
                /\ recovery'[i].status = "recovered" <=> recovery[i].status = "recovered"
                /\ i \in todo => recovery'[i] = recovery[i]
      BY <1>0, <2>1, ExpireTyped
    <2>5. Frame
      BY <1>0, <1>1, <2>4, LikeSame DEF Frame, RequestsKept, Held
    <2>6. PassSound'
      <3>1. CASE pass' = NoPass
        BY <3>1 DEF PassSound
      <3>2. CASE pass' = [step |-> "match", todo |-> todo, skipped |-> {}, queued |-> {}]
        <4>1. pass'.step = "match" /\ pass'.todo = todo /\ pass'.queued = {}
          BY <3>2
        <4>2. todo \subseteq {i \in DOMAIN recovery' : recovery'[i].status = "pending"}
          BY <2>3, <2>4
        <4> QED BY <1>1, <4>1, <4>2 DEF PassSound, Matching, Linking, Orphans
      <3> QED BY <2>2, <3>1, <3>2
    <2>7. KnownSound'
      BY <1>2, <2>5, FrameKept, KnownMore
    <2> QED BY <1>1, <2>5, <2>6, <2>7
  <1>3. CASE EndMatching \/ EndLinking \/ EndOrphans \/ AbortPass
    <2>1. UNCHANGED <<ledger, recovery, rows>>
      BY <1>3 DEF EndMatching, EndLinking, EndOrphans, AbortPass, shop, books
    <2>2. Frame
      BY <1>0, <2>1, FrameSame
    <2>3. KnownSound'
      BY <1>3, <2>2, FrameKept, KnownMore DEF PassStep
    <2>4. pass # NoPass /\ pass \in Pass
      BY <1>0, <1>3 DEF EndMatching, EndLinking, EndOrphans, AbortPass, Matching, Linking, Orphans,
                        RestTypes
    <2>5. PassSound'
      <3>1. CASE pass' = NoPass
        BY <3>1 DEF PassSound
      <3>2. CASE EndMatching
        <4>1. /\ pass'.todo = {i \in DOMAIN ledger : IsSuspicious(i)} /\ pass'.queued = pass.queued
              /\ pass'.step = IF pass.step = "match" THEN "link" ELSE "relink"
          BY <2>4, <3>2 DEF EndMatching, Pass
        <4>2. pass'.todo \subseteq {a \in DOMAIN ledger' : IsSuspicious(a)'}
          BY <2>1, <4>1 DEF IsSuspicious
        <4>3. pass.step \in {"match", "rematch"} /\ (pass.step = "match" => pass.queued = {})
          BY <3>2 DEF EndMatching, Matching, Sound, PassSound
        <4>4. ~Matching' /\ ~Orphans' /\ (pass'.step \in {"match", "link"} => pass'.queued = {})
          BY <4>1, <4>3 DEF Matching, Orphans
        <4> QED BY <1>1, <4>2, <4>4 DEF PassSound
      <3>3. CASE EndLinking /\ pass.step # "relink"
        <4>1. /\ pass'.queued = pass.queued /\ pass'.step = "orphans" /\ pass.step = "link"
          BY <2>4, <3>3 DEF EndLinking, Linking, Pass
        <4> QED BY <1>1, <2>1, <2>4, <4>1 DEF PassSound, Sound, Matching, Linking, Orphans
      <3>4. CASE EndOrphans /\ pass.queued # {}
        <4>1. /\ pass'.queued = pass.queued /\ pass'.step = "rematch" /\ pass'.todo = pass.queued
              /\ pass.step = "orphans"
          BY <2>4, <3>4 DEF EndOrphans, Orphans, Pass
        <4> QED BY <1>1, <2>1, <2>4, <4>1 DEF PassSound, Sound, Matching, Linking, Orphans
      <3> QED BY <1>3, <3>1, <3>2, <3>3, <3>4 DEF EndLinking, EndOrphans, AbortPass
    <2> QED BY <1>1, <2>2, <2>3, <2>5
  <1> QED BY <1>2, <1>3

\* A request gets an order that no other row has.
LEMMA MatchFound ==
    ASSUME Sound, Matching, NEW i \in DOMAIN recovery, IsNext(i), NEW o \in MatchesOf(recovery[i])
    PROVE  /\ o \in Order /\ status[o] \in Charged /\ recovery[i].status = "pending"
           /\ o \notin PurchaseCodes /\ recovery[i].code \in {NoOrder, o}
           /\ \A j \in DOMAIN recovery : j # i => recovery[j].code # o
  <1>1. recovery[i].status = "pending"
    BY DEF Sound, PassSound, IsNext, Matching
  <1>2. o \in Listed
    BY DEF MatchesOf, Unknown
  <1>3. o \in Order /\ status[o] \in Charged /\ o # NoOrder
    BY <1>2, OrderAssumption DEF Listed, Charged
  <1>4. CASE recovery[i].code # NoOrder
    <2>1. o = recovery[i].code
      BY <1>4 DEF MatchesOf
    <2>2. o \in RequestCodes
      BY <1>3, <2>1 DEF RequestCodes
    <2>3. o \notin PurchaseCodes
      BY <2>2 DEF Sound, FateSound, PurchaseCodes
    <2>4. \A j \in DOMAIN recovery : j # i => recovery[j].code # o
      BY <1>3, <2>1 DEF Sound, FateSound
    <2> QED BY <1>1, <1>3, <2>1, <2>3, <2>4
  <1>5. CASE recovery[i].code = NoOrder
    <2>1. o \notin KnownOrders
      BY <1>5 DEF MatchesOf, Unknown
    <2>2. o \notin PurchaseCodes \cup RequestCodes
      BY <2>1, KnownIs DEF Sound
    <2>3. \A j \in DOMAIN recovery : recovery[j].code # o
      BY <1>3, <2>2 DEF RequestCodes
    <2> QED BY <1>1, <1>3, <1>5, <2>2, <2>3
  <1> QED BY <1>4, <1>5

\* A request is answered: the only step that makes a request recovered.
LEMMA AnsweredSound ==
    ASSUME Sound, NEW i \in DOMAIN recovery, NEW o \in Order, StoreRecovered(i, o),
           ledger' = ledger, recovery[i].status = "pending", o \notin PurchaseCodes,
           recovery[i].code \in {NoOrder, o},
           \A j \in DOMAIN recovery : j # i => recovery[j].code # o
    PROVE  /\ FateSound' /\ LinkSound' /\ PurchaseCodes' = PurchaseCodes
           /\ \A q \in RequestCodes' : q \in RequestCodes \/ q = o
  <1>0. BillTypes /\ BookTypes /\ RestTypes
    BY TypedParts DEF Sound
  <1>1. /\ rows' \in [Order -> {"none", "stock", "sold", "withdrawn"}]
        /\ \A j \in DOMAIN recovery : j # i => recovery'[j] = recovery[j]
        /\ DOMAIN recovery' = DOMAIN recovery
        /\ recovery'[i].link = recovery[i].link /\ recovery'[i].goods = recovery[i].goods
        /\ \/ /\ recovery'[i].status = "invalid_product" /\ recovery'[i].code = recovery[i].code
              /\ rows' = rows
           \/ /\ recovery'[i].status = "recovered" /\ recovery'[i].code = o
              /\ rows'[o] # "none" /\ \A q \in Order : q # o => rows'[q] = rows[q]
    BY <1>0, StoreTyped
  <1>2. CASE /\ recovery'[i].status = "invalid_product" /\ recovery'[i].code = recovery[i].code
             /\ rows' = rows
    <2>1. Frame
      BY <1>0, <1>1, <1>2, LikeSame DEF Frame, RequestsKept, Held
    <2> QED BY <2>1, FrameKept
  <1>3. CASE /\ recovery'[i].status = "recovered" /\ recovery'[i].code = o
             /\ rows'[o] # "none" /\ \A q \in Order : q # o => rows'[q] = rows[q]
    <2>1. Purchases' = Purchases /\ PurchaseCodes' = PurchaseCodes
      BY DEF Purchases, PurchaseCodes
    <2>2. \A q \in RequestCodes' : q \in RequestCodes \/ q = o
      BY <1>1, <1>3 DEF RequestCodes
    <2>3. \A q \in RequestCodes : q \in RequestCodes' \/ q = recovery[i].code
      BY <1>1 DEF RequestCodes
    <2>4. \A j \in Purchases' : ledger'[j].code \in Order \ RequestCodes'
      <3>1. \A j \in Purchases : ledger[j].code \in PurchaseCodes
        BY DEF PurchaseCodes
      <3> QED BY <2>1, <2>2, <3>1 DEF Sound, FateSound
    <2>5. \A j, m \in Purchases' : ledger'[j].code = ledger'[m].code => j = m
      BY <2>1 DEF Sound, FateSound
    <2>6. \A j \in DOMAIN recovery' : recovery'[j].status = "recovered" => recovery'[j].code \in Order
      BY <1>1, <1>3 DEF Sound, FateSound
    <2>7. \A j, m \in DOMAIN recovery' :
             recovery'[j].code = recovery'[m].code /\ j # m => recovery'[j].code = NoOrder
      BY <1>1, <1>3 DEF Sound, FateSound
    <2>8. \A q \in RequestCodes : q \in RequestCodes'
      <3>1. recovery[i].code = o => o \in RequestCodes'
        BY <1>1, <1>3, OrderAssumption DEF RequestCodes
      <3> QED BY <2>3, <3>1 DEF RequestCodes
    <2>9. \A j \in DOMAIN ledger' \ Purchases' : ledger'[j].code \in RequestCodes' \cup {NoOrder}
      BY <2>1, <2>8 DEF Sound, FateSound
    <2>10. \A q \in Order : q \in Held' <=> q \in Held \/ q = o
      BY <1>3 DEF Held
    <2>11. ASSUME NEW q \in Order
           PROVE  (\E j \in DOMAIN recovery' : recovery'[j].code = q /\ recovery'[j].status = "recovered")
                  <=> q = o \/ \E j \in DOMAIN recovery : recovery[j].code = q /\ recovery[j].status = "recovered"
      BY <1>1, <1>3
    <2>12. \A q \in Order : q \in Held' <=> \/ q \in PurchaseCodes'
                                            \/ \E j \in DOMAIN recovery' : /\ recovery'[j].code = q
                                                                          /\ recovery'[j].status = "recovered"
      BY <2>1, <2>10, <2>11 DEF Sound, FateSound
    <2>13. FateSound'
      BY <2>4, <2>5, <2>6, <2>7, <2>9, <2>12 DEF FateSound
    <2>14. LinkSound'
      <3>1. \A a : Linked(a)' = Linked(a) /\ \A j \in Linked(a) : recovery'[j].goods = recovery[j].goods
        <4>1. \A j \in DOMAIN recovery : /\ recovery'[j].link = recovery[j].link
                                         /\ recovery'[j].goods = recovery[j].goods
          BY <1>1
        <4> QED BY <1>1, <4>1 DEF Linked
      <3>2. ASSUME NEW a PROVE WorthOf(Linked(a))' = WorthOf(Linked(a))
        <4>1. [j \in Linked(a)' |-> Cost[recovery'[j].goods]] = [j \in Linked(a) |-> Cost[recovery[j].goods]]
          BY <3>1
        <4> QED BY <3>1, <4>1 DEF WorthOf
      <3>3. RecoveredBalances'
        BY <3>1, <3>2, Balances, BalancesNext DEF Sound, LinkSound
      <3>4. \A j \in DOMAIN recovery' : recovery'[j].link = 0 \/ recovery'[j].link \in DOMAIN ledger'
        BY <1>1 DEF Sound, LinkSound
      <3> QED BY <3>3, <3>4 DEF LinkSound
    <2> QED BY <2>1, <2>2, <2>13, <2>14
  <1> QED BY <1>1, <1>2, <1>3

LEMMA MatchSound ==
    ASSUME Sound, MatchNext
    PROVE  FateSound' /\ KnownSound' /\ BuySound' /\ PassSound' /\ LinkSound'
  <1>0. BillTypes /\ BookTypes /\ RestTypes
    BY TypedParts DEF Sound
  <1>1. /\ buy' = NoBuy /\ provider' = "sumistore" /\ BuySound' /\ ledger' = ledger
        /\ Matching /\ pass \in Pass /\ PassStep
    BY <1>0, PassQuiet DEF PassStep, MatchNext, Matching, RestTypes
  <1>2. PICK i \in DOMAIN recovery :
          LET found == MatchesOf(recovery[i])
              next == [pass EXCEPT !.todo = @ \ {i}] IN
          /\ IsNext(i)
          /\ \/ found = {} /\ pass' = next /\ UNCHANGED <<rows, recovery>>
             \/ \E o \in found :
                  IF o \in scant
                    THEN pass' = NoPass /\ UNCHANGED <<rows, recovery>>
                    ELSE /\ StoreRecovered(i, o)
                         /\ pass' = [next EXCEPT !.skipped = @ \cup {o}]
    BY DEF MatchNext
  <1> DEFINE next == [pass EXCEPT !.todo = @ \ {i}]
  <1>3. /\ next \in Pass /\ next.step = pass.step /\ next.todo = pass.todo \ {i}
        /\ next.queued = pass.queued
    BY <1>1 DEF Pass
  <1> HIDE DEF next
  <1>4. ASSUME \A j \in DOMAIN recovery : j # i => j \in DOMAIN recovery' /\ recovery'[j] = recovery[j],
               pass' = NoPass \/ (pass'.step = next.step /\ pass'.todo = next.todo
                                  /\ pass'.queued = next.queued)
        PROVE  PassSound'
    <2>1. CASE pass' = NoPass
      BY <2>1 DEF PassSound
    <2>2. CASE pass'.step = next.step /\ pass'.todo = next.todo /\ pass'.queued = next.queued
      <3>1. pass.todo \subseteq {j \in DOMAIN recovery : recovery[j].status = "pending"}
        BY <1>1 DEF Sound, PassSound, Matching
      <3>2. pass'.todo \subseteq {j \in DOMAIN recovery' : recovery'[j].status = "pending"}
        BY <1>3, <1>4, <2>2, <3>1
      <3>3. ~Linking' /\ ~Orphans'
        BY <1>1, <1>3, <2>2 DEF Matching, Linking, Orphans
      <3>4. pass'.step \in {"match", "link"} => pass'.queued = {}
        BY <1>1, <1>3, <2>2 DEF Sound, PassSound, Matching
      <3> QED BY <1>1, <3>2, <3>3, <3>4 DEF PassSound
    <2> QED BY <1>4, <2>1, <2>2
  <1>5. CASE UNCHANGED <<rows, recovery>> /\ pass' \in {next, NoPass}
    <2>1. Frame
      BY <1>0, <1>1, <1>5, FrameSame
    <2>2. KnownSound'
      BY <1>1, <2>1, FrameKept, KnownMore
    <2>3. PassSound'
      BY <1>4, <1>5
    <2> QED BY <1>1, <2>1, <2>2, <2>3, FrameKept
  <1>6. ASSUME NEW o \in MatchesOf(recovery[i]), StoreRecovered(i, o),
               pass' = [next EXCEPT !.skipped = @ \cup {o}]
        PROVE  FateSound' /\ KnownSound' /\ BuySound' /\ PassSound' /\ LinkSound'
    <2>1. /\ o \in Order /\ status[o] \in Charged /\ recovery[i].status = "pending"
          /\ o \notin PurchaseCodes /\ recovery[i].code \in {NoOrder, o}
          /\ \A j \in DOMAIN recovery : j # i => recovery[j].code # o
      BY <1>1, <1>2, <1>6, MatchFound
    <2>2. /\ FateSound' /\ LinkSound' /\ PurchaseCodes' = PurchaseCodes
          /\ \A q \in RequestCodes' : q \in RequestCodes \/ q = o
      BY <1>1, <1>6, <2>1, AnsweredSound
    <2>3. KnownSound'
      BY <1>1, <2>1, <2>2, KnownMore
    <2>4. \A j \in DOMAIN recovery : j # i => j \in DOMAIN recovery' /\ recovery'[j] = recovery[j]
      BY <1>0, <1>6, <2>1, StoreTyped
    <2>5. pass'.step = next.step /\ pass'.todo = next.todo /\ pass'.queued = next.queued
      BY <1>3, <1>6 DEF Pass
    <2>6. PassSound'
      BY <1>4, <2>4, <2>5
    <2> QED BY <1>1, <2>2, <2>3, <2>6
  <1> QED BY <1>2, <1>5, <1>6 DEF next

\* Orders are queued for an audit: none of them is known.
LEMMA QueuedSound ==
    ASSUME Sound, QueueOrphans
    PROVE  FateSound' /\ KnownSound' /\ BuySound' /\ PassSound' /\ LinkSound'
  <1>0. BillTypes /\ BookTypes /\ RestTypes
    BY TypedParts DEF Sound
  <1>1. /\ buy' = NoBuy /\ provider' = "sumistore" /\ BuySound' /\ UNCHANGED <<ledger, rows>>
        /\ pass # NoPass /\ pass.step = "orphans" /\ PassStep
    BY PassQuiet DEF PassStep, QueueOrphans, Orphans, shop
  <1>2. PICK a \in DOMAIN ledger : QueueOne(a)
    BY DEF QueueOrphans
  <1>3. /\ \A i \in DOMAIN recovery : i \in DOMAIN recovery' /\ recovery'[i] = recovery[i]
        /\ \A i \in DOMAIN recovery' \ DOMAIN recovery :
             /\ recovery'[i].code \in Unknown /\ recovery'[i].link = 0
             /\ recovery'[i].status = "pending"
        /\ \A i, j \in DOMAIN recovery' \ DOMAIN recovery :
             i # j => recovery'[i].code # recovery'[j].code
        /\ pass'.step = pass.step
        /\ \A i \in pass'.queued : \/ i \in pass.queued
                                   \/ i \in DOMAIN recovery' /\ recovery'[i].status = "pending"
    BY <1>0, <1>1, <1>2, QueueOneTyped
  <1>4. \A o \in Unknown : /\ o \in Order /\ status[o] \in Charged
                           /\ o \notin PurchaseCodes \cup RequestCodes
    BY KnownIs DEF Sound, Unknown, Listed, Charged
  <1>5. Purchases' = Purchases /\ PurchaseCodes' = PurchaseCodes /\ Held' = Held
    BY <1>1 DEF Purchases, PurchaseCodes, Held
  <1>6. /\ RequestCodes \subseteq RequestCodes'
        /\ \A q \in RequestCodes' : q \in RequestCodes \cup Unknown
    BY <1>3 DEF RequestCodes
  <1>7. FateSound'
    <2>1. \A i \in Purchases' : ledger'[i].code \in Order \ RequestCodes'
      <3>1. \A i \in Purchases : ledger[i].code \in PurchaseCodes
        BY DEF PurchaseCodes
      <3> QED BY <1>1, <1>4, <1>5, <1>6, <3>1 DEF Sound, FateSound
    <2>2. \A i, j \in Purchases' : ledger'[i].code = ledger'[j].code => i = j
      BY <1>1, <1>5 DEF Sound, FateSound
    <2>3. \A i \in DOMAIN recovery' : recovery'[i].status = "recovered" => recovery'[i].code \in Order
      BY <1>3 DEF Sound, FateSound
    <2>4. \A i, j \in DOMAIN recovery' :
             recovery'[i].code = recovery'[j].code /\ i # j => recovery'[i].code = NoOrder
      <3>1. \A i \in DOMAIN recovery : recovery[i].code = NoOrder \/ recovery[i].code \in RequestCodes
        BY DEF RequestCodes
      <3> QED BY <1>3, <1>4, <3>1 DEF Sound, FateSound
    <2>5. \A i \in DOMAIN ledger' \ Purchases' : ledger'[i].code \in RequestCodes' \cup {NoOrder}
      BY <1>1, <1>5, <1>6 DEF Sound, FateSound
    <2>6. ASSUME NEW q \in Order
          PROVE  (\E j \in DOMAIN recovery' : recovery'[j].code = q /\ recovery'[j].status = "recovered")
                 <=> \E j \in DOMAIN recovery : recovery[j].code = q /\ recovery[j].status = "recovered"
      BY <1>3
    <2>7. \A q \in Order : q \in Held' <=> \/ q \in PurchaseCodes'
                                           \/ \E j \in DOMAIN recovery' : /\ recovery'[j].code = q
                                                                         /\ recovery'[j].status = "recovered"
      BY <1>5, <2>6 DEF Sound, FateSound
    <2> QED BY <2>1, <2>2, <2>3, <2>4, <2>5, <2>7 DEF FateSound
  <1>8. KnownSound'
    BY <1>1, <1>4, <1>5, <1>6, KnownMore
  <1>9. LinkSound'
    <2>1. 0 \notin DOMAIN ledger
      BY <1>0 DEF BookTypes
    <2>2. ASSUME NEW b \in DOMAIN ledger
          PROVE  Linked(b)' = Linked(b) /\ WorthOf(Linked(b))' = WorthOf(Linked(b))
      <3>1. Linked(b)' = Linked(b)
        BY <1>3, <2>1, <2>2 DEF Linked
      <3>2. [j \in Linked(b)' |-> Cost[recovery'[j].goods]] = [j \in Linked(b) |-> Cost[recovery[j].goods]]
        BY <1>3, <3>1 DEF Linked
      <3> QED BY <3>1, <3>2 DEF WorthOf
    <2>3. RecoveredBalances'
      BY <1>1, <2>2, Balances, BalancesNext DEF Sound, LinkSound
    <2>4. \A j \in DOMAIN recovery' : recovery'[j].link = 0 \/ recovery'[j].link \in DOMAIN ledger'
      BY <1>1, <1>3 DEF Sound, LinkSound
    <2> QED BY <2>3, <2>4 DEF LinkSound
  <1>10. PassSound'
    <2>1. \A i \in pass.queued : i \in DOMAIN recovery /\ recovery[i].status = "pending"
      BY <1>1 DEF Sound, PassSound, Orphans
    <2>2. pass'.queued \subseteq {i \in DOMAIN recovery' : recovery'[i].status = "pending"}
      BY <1>3, <2>1
    <2>3. ~Matching' /\ ~Linking' /\ pass'.step = "orphans"
      BY <1>1, <1>3 DEF Matching, Linking
    <2> QED BY <1>1, <2>2, <2>3 DEF PassSound
  <1> QED BY <1>1, <1>7, <1>8, <1>9, <1>10

\* An audit is explained by the recovered orders of its period.
LEMMA ExplainedFacts ==
    ASSUME Sound, NEW a \in DOMAIN ledger, LinkOne(a), ~UNCHANGED <<ledger, recovery>>
    PROVE  \E found \in SUBSET DOMAIN recovery, code \in RequestCodes \cup {NoOrder} :
             /\ WorthOf(found) = 0 - ledger[a].amount
             /\ \A i \in found : recovery[i].status = "recovered" /\ recovery[i].link = 0
             /\ DOMAIN ledger' = DOMAIN ledger
             /\ ledger'[a].kind = "recovered" /\ ledger'[a].code = code
             /\ ledger'[a].amount = ledger[a].amount
             /\ \A i \in DOMAIN ledger : i # a => ledger'[i] = ledger[i]
             /\ DOMAIN recovery' = DOMAIN recovery
             /\ \A i \in DOMAIN recovery :
                  /\ recovery'[i].code = recovery[i].code /\ recovery'[i].status = recovery[i].status
                  /\ recovery'[i].goods = recovery[i].goods
                  /\ recovery'[i].link = IF i \in found THEN a ELSE recovery[i].link
  <1>0. BookTypes
    BY TypedParts DEF Sound
  <1> DEFINE found == Explaining(a)
             code == OnlyCode({recovery[i].code : i \in found})
  <1>1. /\ WorthOf(found) = 0 - ledger[a].amount
        /\ ledger' = [ledger EXCEPT ![a].kind = "recovered", ![a].code = code]
        /\ recovery' = [i \in DOMAIN recovery |->
                          IF i \in found THEN [recovery[i] EXCEPT !.link = a] ELSE recovery[i]]
    BY DEF LinkOne
  <1>2. \A i \in found : /\ i \in DOMAIN recovery /\ recovery[i].status = "recovered"
                         /\ recovery[i].link = 0 /\ recovery[i].code \in RequestCodes
    BY OrderAssumption DEF Explaining, Sound, FateSound, RequestCodes
  <1>3. code \in RequestCodes \cup {NoOrder}
    BY <1>2 DEF OnlyCode
  <1> HIDE DEF found, code
  <1>4. /\ \A i \in DOMAIN recovery : recovery[i] \in Request
        /\ ledger[a] \in Entry
    BY <1>0 DEF BookTypes
  <1>5. ASSUME NEW r \in Request
        PROVE  /\ [r EXCEPT !.link = a].code = r.code /\ [r EXCEPT !.link = a].status = r.status
               /\ [r EXCEPT !.link = a].goods = r.goods /\ [r EXCEPT !.link = a].link = a
    BY DEF Request
  <1>6. /\ DOMAIN recovery' = DOMAIN recovery
        /\ \A i \in DOMAIN recovery :
             /\ recovery'[i].code = recovery[i].code /\ recovery'[i].status = recovery[i].status
             /\ recovery'[i].goods = recovery[i].goods
             /\ recovery'[i].link = IF i \in found THEN a ELSE recovery[i].link
    BY <1>1, <1>4, <1>5
  <1>7. PICK e : e = [ledger[a] EXCEPT !.kind = "recovered", !.code = code]
    OBVIOUS
  <1>8. e.kind = "recovered" /\ e.code = code /\ e.amount = ledger[a].amount
    BY <1>4, <1>7 DEF Entry
  <1>9. /\ DOMAIN ledger' = DOMAIN ledger /\ ledger'[a] = e
        /\ \A i \in DOMAIN ledger : i # a => ledger'[i] = ledger[i]
    <2>1. ledger' = [ledger EXCEPT ![a] = e]
      BY <1>1, <1>7
    <2> QED BY <1>0, <2>1 DEF BookTypes
  <1>10. found \in SUBSET DOMAIN recovery
    BY <1>2
  <1> QED BY <1>1, <1>2, <1>3, <1>6, <1>8, <1>9, <1>10

LEMMA ExplainedSound ==
    ASSUME Sound, NEW a \in DOMAIN ledger, IsSuspicious(a), rows' = rows,
           LinkOne(a), ~UNCHANGED <<ledger, recovery>>
    PROVE  /\ FateSound' /\ LinkSound'
           /\ PurchaseCodes' = PurchaseCodes /\ RequestCodes' = RequestCodes
           /\ \A i \in DOMAIN ledger : i # a => i \in DOMAIN ledger' /\ ledger'[i] = ledger[i]
  <1>0. BillTypes /\ BookTypes /\ RestTypes
    BY TypedParts DEF Sound
  <1>1. PICK found \in SUBSET DOMAIN recovery, code \in RequestCodes \cup {NoOrder} :
             /\ WorthOf(found) = 0 - ledger[a].amount
             /\ \A i \in found : recovery[i].status = "recovered" /\ recovery[i].link = 0
             /\ DOMAIN ledger' = DOMAIN ledger
             /\ ledger'[a].kind = "recovered" /\ ledger'[a].code = code
             /\ ledger'[a].amount = ledger[a].amount
             /\ \A i \in DOMAIN ledger : i # a => ledger'[i] = ledger[i]
             /\ DOMAIN recovery' = DOMAIN recovery
             /\ \A i \in DOMAIN recovery :
                  /\ recovery'[i].code = recovery[i].code /\ recovery'[i].status = recovery[i].status
                  /\ recovery'[i].goods = recovery[i].goods
                  /\ recovery'[i].link = IF i \in found THEN a ELSE recovery[i].link
    BY ExplainedFacts
  <1>2. \A i \in found : i \in DOMAIN recovery /\ recovery[i].link = 0
    BY <1>1
  <1>3. code \in RequestCodes \cup {NoOrder}
    OBVIOUS
  <1>4. /\ DOMAIN recovery' = DOMAIN recovery
        /\ \A i \in DOMAIN recovery :
             /\ recovery'[i].code = recovery[i].code /\ recovery'[i].status = recovery[i].status
             /\ recovery'[i].goods = recovery[i].goods
             /\ recovery'[i].link = IF i \in found THEN a ELSE recovery[i].link
    BY <1>1
  <1>5. /\ ledger'[a].kind = "recovered" /\ ledger'[a].code = code
        /\ ledger'[a].amount = ledger[a].amount
    BY <1>1
  <1>6. /\ DOMAIN ledger' = DOMAIN ledger
        /\ \A i \in DOMAIN ledger : i # a => ledger'[i] = ledger[i]
    BY <1>1
  <1>7. Purchases' = Purchases /\ a \notin Purchases
    BY <1>5, <1>6 DEF Purchases, IsSuspicious
  <1>8. \A i \in Purchases : i \in DOMAIN ledger /\ ledger'[i].code = ledger[i].code
    BY <1>6, <1>7 DEF Purchases
  <1>9. PurchaseCodes' = PurchaseCodes /\ RequestCodes' = RequestCodes /\ Held' = Held
    BY <1>4, <1>7, <1>8 DEF PurchaseCodes, RequestCodes, Held
  <1>10. FateSound'
    <2>1. \A i \in Purchases' : ledger'[i].code \in Order \ RequestCodes'
      BY <1>7, <1>8, <1>9 DEF Sound, FateSound
    <2>2. \A i, j \in Purchases' : ledger'[i].code = ledger'[j].code => i = j
      BY <1>7, <1>8 DEF Sound, FateSound
    <2>3. \A i \in DOMAIN recovery' : recovery'[i].status = "recovered" => recovery'[i].code \in Order
      BY <1>4 DEF Sound, FateSound
    <2>4. \A i, j \in DOMAIN recovery' :
             recovery'[i].code = recovery'[j].code /\ i # j => recovery'[i].code = NoOrder
      BY <1>4 DEF Sound, FateSound
    <2>5. \A i \in DOMAIN ledger' \ Purchases' : ledger'[i].code \in RequestCodes' \cup {NoOrder}
      BY <1>3, <1>5, <1>6, <1>7, <1>9 DEF Sound, FateSound
    <2>6. \A q \in Order : q \in Held' <=> \/ q \in PurchaseCodes'
                                           \/ \E j \in DOMAIN recovery' : /\ recovery'[j].code = q
                                                                         /\ recovery'[j].status = "recovered"
      BY <1>4, <1>9 DEF Sound, FateSound
    <2> QED BY <2>1, <2>2, <2>3, <2>4, <2>5, <2>6 DEF FateSound
  <1>11. LinkSound'
    <2>1. 0 \notin DOMAIN ledger
      BY <1>0 DEF BookTypes
    <2>2. \A b \in DOMAIN ledger :
            IF ledger[b].kind = "recovered" THEN WorthOf(Linked(b)) = 0 - ledger[b].amount
            ELSE Linked(b) = {}
      BY Balances DEF Sound, LinkSound
    <2>3. Linked(a) = {}
      BY <2>2 DEF IsSuspicious
    <2>4. Linked(a)' = found
      BY <1>2, <1>4, <2>3 DEF Linked
    <2>5. ASSUME NEW b \in DOMAIN ledger, b # a
          PROVE  Linked(b)' = Linked(b)
      BY <1>2, <1>4, <2>1, <2>5 DEF Linked
    <2>6. ASSUME NEW b, NEW T, T \subseteq DOMAIN recovery, Linked(b)' = T
          PROVE  WorthOf(Linked(b))' = WorthOf(T)
      <3>1. [j \in Linked(b)' |-> Cost[recovery'[j].goods]] = [j \in T |-> Cost[recovery[j].goods]]
        BY <1>4, <2>6
      <3> QED BY <2>6, <3>1 DEF WorthOf
    <2>7. WorthOf(Linked(a))' = 0 - ledger'[a].amount
      BY <1>1, <1>2, <1>5, <1>6, <2>4, <2>6
    <2>8. ASSUME NEW b \in DOMAIN ledger, b # a
          PROVE  WorthOf(Linked(b))' = WorthOf(Linked(b))
      <3>1. Linked(b) \subseteq DOMAIN recovery
        BY DEF Linked
      <3> QED BY <2>5, <2>6, <2>8, <3>1
    <2>9. RecoveredBalances'
      <3> SUFFICES ASSUME NEW b \in DOMAIN ledger'
                   PROVE  IF ledger'[b].kind = "recovered" THEN WorthOf(Linked(b))' = 0 - ledger'[b].amount
                          ELSE Linked(b)' = {}
        BY BalancesNext
      <3>1. CASE b = a
        BY <1>5, <1>6, <2>7, <3>1
      <3>2. CASE b # a
        BY <1>6, <2>2, <2>5, <2>8, <3>2
      <3> QED BY <3>1, <3>2
    <2>10. \A j \in DOMAIN recovery' : recovery'[j].link = 0 \/ recovery'[j].link \in DOMAIN ledger'
      BY <1>4, <1>6 DEF Sound, LinkSound
    <2> QED BY <2>9, <2>10 DEF LinkSound
  <1> QED BY <1>6, <1>9, <1>10, <1>11

LEMMA LinkedSound ==
    ASSUME Sound, LinkRecovered
    PROVE  FateSound' /\ KnownSound' /\ BuySound' /\ PassSound' /\ LinkSound'
  <1>0. BillTypes /\ BookTypes /\ RestTypes
    BY TypedParts DEF Sound
  <1>1. /\ buy' = NoBuy /\ provider' = "sumistore" /\ BuySound' /\ rows' = rows
        /\ Linking /\ pass \in Pass /\ PassStep
    BY <1>0, PassQuiet DEF PassStep, LinkRecovered, Linking, shop, RestTypes
  <1>2. PICK a \in DOMAIN ledger : IsNext(a) /\ LinkOne(a) /\ pass' = [pass EXCEPT !.todo = @ \ {a}]
    BY DEF LinkRecovered
  <1>3. pass.todo \subseteq {i \in DOMAIN ledger : IsSuspicious(i)}
    BY <1>1 DEF Sound, PassSound, Linking
  <1>4. IsSuspicious(a)
    BY <1>2, <1>3 DEF IsNext
  <1>5. pass'.step = pass.step /\ pass'.todo = pass.todo \ {a} /\ pass'.queued = pass.queued
    BY <1>1, <1>2 DEF Pass
  <1>6. ASSUME \A i \in DOMAIN ledger : i # a => i \in DOMAIN ledger' /\ ledger'[i] = ledger[i]
        PROVE  PassSound'
    <2>1. pass'.todo \subseteq {i \in DOMAIN ledger' : IsSuspicious(i)'}
      BY <1>3, <1>5, <1>6 DEF IsSuspicious
    <2>2. ~Matching' /\ ~Orphans' /\ (pass'.step \in {"match", "link"} => pass'.queued = {})
      BY <1>1, <1>5 DEF Linking, Matching, Orphans, Sound, PassSound
    <2> QED BY <1>1, <2>1, <2>2 DEF PassSound
  <1>7. CASE UNCHANGED <<ledger, recovery>>
    <2>1. Frame
      BY <1>0, <1>1, <1>7, FrameSame
    <2> QED BY <1>1, <1>6, <1>7, <2>1, FrameKept, KnownMore
  <1>8. CASE ~UNCHANGED <<ledger, recovery>>
    <2>1. /\ FateSound' /\ LinkSound'
          /\ PurchaseCodes' = PurchaseCodes /\ RequestCodes' = RequestCodes
          /\ \A i \in DOMAIN ledger : i # a => i \in DOMAIN ledger' /\ ledger'[i] = ledger[i]
      BY <1>1, <1>2, <1>4, <1>8, ExplainedSound
    <2> QED BY <1>1, <1>6, <2>1, KnownMore
  <1> QED BY <1>7, <1>8

LEMMA SoundNext == Sound /\ [Next]_vars => Sound'
  <1> SUFFICES ASSUME Sound, [Next]_vars PROVE Sound'
    OBVIOUS
  <1>1. Typed'
    BY TypedNext DEF Sound
  <1>2. ASSUME Frame /\ KnownSound' /\ BuySound' /\ PassSound' PROVE Sound'
    BY <1>1, <1>2, FrameKept DEF Sound
  <1>3. CASE UNCHANGED vars
    <2>1. Frame
      BY <1>3, TypedParts, FrameSame DEF Sound, vars, books, shop
    <2>2. KnownSound' /\ BuySound' /\ PassSound'
      BY <1>3 DEF Sound, vars, supplier, books, shop, KnownSound, BuySound, PassSound, HasOrder,
                  Matching, Linking, Orphans, IsSuspicious, PurchaseCodes, RequestCodes, Purchases
    <2> QED BY <1>2, <2>1, <2>2
  <1>4. CASE \/ \E k \in Key : Ask(k)
             \/ \E k \in Key, o \in Order : SellStock(k, o)
             \/ \E k \in Preordered : RecoverStale(k)
             \/ Crash
             \/ AnswerDelivered \/ AnswerLost \/ AnswerRefused \/ FindRecent \/ AskAgain \/ GiveUp
    BY <1>2, <1>4, AskSound, AnswerSound, EndSound
  <1>5. CASE Deliver \/ KeepAsStock
    <2>1. HasOrder /\ \E fate \in {"withdrawn", "sold", "stock"} : Conclude(fate)
      BY <1>5 DEF Deliver, KeepAsStock
    <2> QED BY <1>1, <2>1, ConcludeSound DEF Sound
  <1>6. CASE \/ \E told \in BOOLEAN : Audit(told)
             \/ \E o \in Order : Bill(o) \/ List(o) \/ Repay(o)
             \/ \E amount \in TopUps : TopUp(amount)
             \/ \E g \in Retirable : RetireProduct(g)
             \/ Tick
    BY <1>2, <1>6, OthersSound
  <1>7. CASE BeginPass \/ PassStep
    BY <1>1, <1>2, <1>7, TurnSound, MatchSound, QueuedSound, LinkedSound DEF PassStep, Sound
  <1> QED BY <1>3, <1>4, <1>5, <1>6, <1>7 DEF Next, PurchaseStep

LEMMA SoundAlways == Spec => []Sound
  BY SoundInit, SoundNext, PTL DEF Spec

\* An order at the supplier is brought into the shop once, by one purchase or
\* one recovery request, and nobody else claims the order that a purchase is
\* about to commit (supplier_balance_guard, _known_supplier_order_codes).
THEOREM OneFateAlways == Spec => []OneFate
  <1>1. Sound => OneFate
    <2> SUFFICES ASSUME Sound PROVE OneFate
      OBVIOUS
    <2>1. HasOrder => buy.found \notin KnownOrders
      BY KnownIs DEF Sound, BuySound
    <2>2. ASSUME NEW o \in Order
          PROVE  /\ Cardinality(Bought(o)) + Cardinality(Recovered(o)) <= 1
                 /\ o \in Held <=> Bought(o) \cup Recovered(o) # {}
      <3>1. \A i, j \in Bought(o) : i = j
        BY DEF Sound, FateSound, Bought
      <3>2. \A i, j \in Recovered(o) : i = j
        BY OrderAssumption DEF Sound, FateSound, Recovered
      <3>3. Bought(o) = {} \/ Recovered(o) = {}
        BY OrderAssumption DEF Sound, FateSound, Bought, Recovered, RequestCodes
      <3>4. \A S : (\A i, j \in S : i = j) => S = {} \/ \E i : S = {i}
        OBVIOUS
      <3>5. Cardinality(Bought(o)) + Cardinality(Recovered(o)) <= 1
        <4>1. Cardinality({}) = 0 /\ \A i : Cardinality({i}) = 1
          BY FS_EmptySet, FS_Singleton
        <4>2. Cardinality(Bought(o)) = 0 \/ Cardinality(Bought(o)) = 1
          BY <3>1, <3>4, <4>1
        <4>3. Cardinality(Recovered(o)) = 0 \/ Cardinality(Recovered(o)) = 1
          BY <3>2, <3>4, <4>1
        <4> QED BY <3>3, <4>1, <4>2, <4>3
      <3>6. o \in PurchaseCodes <=> Bought(o) # {}
        BY DEF PurchaseCodes, Bought
      <3>7. o \in Held <=> Bought(o) # {} \/ Recovered(o) # {}
        BY <3>6 DEF Sound, FateSound, Recovered
      <3> QED BY <3>5, <3>7
    <2> QED BY <2>1, <2>2 DEF OneFate
  <1> QED BY <1>1, SoundAlways, PTL

\* What the audit calls recovered is worth what its recovered orders cost, and
\* no recovered order explains two debits (_link_recovered_audits).
THEOREM RecoveredBalancesAlways == Spec => []RecoveredBalances
  <1>1. Sound => RecoveredBalances
    BY DEF Sound, LinkSound
  <1> QED BY <1>1, SoundAlways, PTL

-----------------------------------------------------------------------------
(***************************************************************************)
(* What the audit may report.                                              *)
(***************************************************************************)
\* The orders of the audited period that were not bought before it.
Since == {o \in period : \A i \in Purchases : ledger[i].code = o => i > state.last}

\* A purchase is entered at its price, and the balance has not fallen by more
\* than those orders cost.
MoneySound ==
    /\ \A i \in Purchases : ledger[i].amount = 0 - Price(ledger[i].code)
    /\ state.known => state.balance - funds <= PriceOf(Since)

LEMMA PricesFinite ==
    ASSUME BillTypes, RestTypes, NEW S, S \subseteq period \/ S \subseteq fresh
    PROVE  /\ IsFiniteSet(Pairs(S, [o \in S |-> Price(o)])) /\ PriceOf(S) \in Nat
           /\ \A o \in S : o \in Order /\ status[o] \in Charged /\ Price(o) \in Nat
  <1>1. \A o \in S : o \in Order /\ status[o] \in Charged
    <2>1. S \subseteq Range(billed) /\ S \subseteq Order
      BY OldOrders DEF BillTypes
    <2> QED BY <2>1 DEF BillTypes, BillsSound
  <1>2. IsFiniteSet(S)
    BY FiniteBilled DEF BillTypes
  <1>3. \A o \in S : Price(o) \in Nat
    BY <1>1, PriceNat DEF RestTypes
  <1> DEFINE f == [o \in S |-> Price(o)]
  <1>4. \A o \in S : f[o] \in Int
    BY <1>3
  <1> HIDE DEF f
  <1>5. IsFiniteSet(Pairs(S, f)) /\ SumOver(S, f) \in Nat
    BY <1>2, <1>4, PairsFinite
  <1> QED BY <1>1, <1>3, <1>5 DEF f, PriceOf

\* Only an order that is not billed yet changes hands.
AskersKept == \A o \in Order : status[o] \in Charged => asker'[o] = asker[o]
BoughtKept ==
    /\ Purchases' = Purchases
    /\ \A i \in Purchases : ledger'[i].code = ledger[i].code /\ ledger'[i].amount = ledger[i].amount

LEMMA PricesKept ==
    ASSUME BillTypes, RestTypes, AskersKept, NEW S, S \subseteq period
    PROVE  /\ \A o \in S : Price(o)' = Price(o)
           /\ [o \in S |-> Price(o)'] = [o \in S |-> Price(o)]
  <1>1. \A o \in S : o \in Order /\ status[o] \in Charged
    BY PricesFinite
  <1> QED BY <1>1 DEF AskersKept, Price, GoodsOf

LEMMA AmountsKept ==
    ASSUME Sound, MoneySound, AskersKept, BoughtKept
    PROVE  \A i \in Purchases' : ledger'[i].amount = 0 - Cost[Wants[asker'[ledger'[i].code]]]
  <1>1. ASSUME NEW i \in Purchases
        PROVE  ledger[i].code \in Order /\ status[ledger[i].code] \in Charged
    BY DEF Sound, FateSound, KnownSound, PurchaseCodes
  <1>2. ASSUME NEW i \in Purchases
        PROVE  ledger'[i].amount = 0 - Cost[Wants[asker'[ledger'[i].code]]]
    <2>1. ledger[i].amount = 0 - Cost[Wants[asker[ledger[i].code]]]
      BY DEF MoneySound, Price, GoodsOf
    <2>2. asker'[ledger[i].code] = asker[ledger[i].code]
      BY <1>1 DEF AskersKept
    <2> QED BY <2>1, <2>2 DEF BoughtKept
  <1> QED BY <1>2 DEF BoughtKept

LEMMA MoneyKept ==
    ASSUME Sound, MoneySound, AskersKept, BoughtKept,
           UNCHANGED <<period, state>>, funds' \in Int, funds <= funds'
    PROVE  MoneySound'
  <1>0. BillTypes /\ BookTypes /\ RestTypes
    BY TypedParts DEF Sound
  <1>1. Since' = Since /\ Since \subseteq period
    BY DEF Since, BoughtKept
  <1>2. PriceOf(Since)' = PriceOf(Since)
    <2>1. [o \in Since' |-> Price(o)'] = [o \in Since |-> Price(o)]
      BY <1>0, <1>1, PricesKept
    <2> QED BY <1>1, <2>1 DEF PriceOf
  <1>3. PriceOf(Since) \in Nat /\ funds \in Int /\ state.balance \in Int
    BY <1>0, <1>1, PricesFinite DEF RestTypes, BookTypes
  <1>4. state'.known => state'.balance - funds' <= PriceOf(Since)'
    BY <1>2, <1>3 DEF MoneySound
  <1>5. \A i \in Purchases' : ledger'[i].amount = (0 - Price(ledger[i].code))'
    BY AmountsKept DEF Price, GoodsOf
  <1> QED BY <1>4, <1>5 DEF MoneySound

LEMMA BoughtLike ==
    ASSUME LikeBook(ledger')
    PROVE  BoughtKept
  <1>1. \A i \in Purchases : ledger'[i].code = ledger[i].code /\ ledger'[i].amount = ledger[i].amount
    BY DEF LikeBook, LikeRow, Purchases
  <1> QED BY <1>1, PurchasesKept DEF BoughtKept

\* Steps that neither bill an order, nor buy one, nor audit.
LEMMA MoneyQuiet ==
    ASSUME Sound, MoneySound,
           \/ \E k \in Key : Ask(k)
           \/ \E k \in Key, o \in Order : SellStock(k, o)
           \/ \E k \in Preordered : RecoverStale(k)
           \/ Crash \/ AnswerDelivered \/ AnswerLost \/ AnswerRefused \/ FindRecent \/ AskAgain
           \/ GiveUp \/ BeginPass \/ PassStep
           \/ \E o \in Order : List(o) \/ Repay(o)
           \/ \E amount \in TopUps : TopUp(amount)
           \/ \E g \in Retirable : RetireProduct(g)
           \/ Tick
    PROVE  MoneySound'
  <1>0. BillTypes /\ BookTypes /\ RestTypes
    BY TypedParts DEF Sound
  <1> USE DEF supplier, shop, books
  <1>1. AskersKept
    <2>1. ASSUME NEW k \in Key, Ask(k) PROVE AskersKept
      <3>1. PICK o \in Order : IsOrderOf(o, k) /\ asker' = [asker EXCEPT ![o] = k]
        BY <2>1 DEF Ask
      <3>2. status[o] = "none" \/ asker[o] = k
        BY <3>1 DEF IsOrderOf
      <3> QED BY <1>0, <3>1, <3>2 DEF AskersKept, Charged, RestTypes
    <2>2. asker' = asker => AskersKept
      BY DEF AskersKept
    <2>3. BeginPass \/ PassStep => asker' = asker
      BY PassQuiet
    <2> QED BY <2>1, <2>2, <2>3 DEF SellStock, RecoverStale, Crash, AnswerDelivered, AnswerLost,
                AnswerRefused, FindRecent, AskAgain, GiveUp, Goes, EndPurchase, List, Repay, TopUp,
                RetireProduct, Tick
  <1>2. BoughtKept
    <2>1. Frame => BoughtKept
      BY BoughtLike DEF Frame
    <2>2. CASE LinkRecovered
      <3>1. PICK a \in DOMAIN ledger : IsNext(a) /\ LinkOne(a)
        BY <2>2 DEF LinkRecovered
      <3>2. IsSuspicious(a)
        BY <2>2, <3>1 DEF Sound, PassSound, Linking, LinkRecovered, IsNext
      <3>3. CASE ledger' = ledger
        BY <3>3 DEF BoughtKept, Purchases
      <3>4. CASE ledger' # ledger
        <4>1. /\ DOMAIN ledger' = DOMAIN ledger /\ ledger'[a].kind = "recovered"
              /\ \A i \in DOMAIN ledger : i # a => ledger'[i] = ledger[i]
          BY <3>1, <3>4, ExplainedFacts
        <4> QED BY <3>2, <4>1 DEF BoughtKept, Purchases, IsSuspicious
      <3> QED BY <3>3, <3>4
    <2>3. MatchNext \/ QueueOrphans => BoughtKept
      BY DEF MatchNext, QueueOrphans, BoughtKept, Purchases
    <2>4. PassStep => BoughtKept
      BY <2>1, <2>2, <2>3, TurnSound DEF PassStep
    <2> QED BY <2>1, <2>4, AskSound, AnswerSound, EndSound, OthersSound, TurnSound
  <1>3. UNCHANGED <<period, state>> /\ funds' \in Int /\ funds <= funds'
    <2>1. funds \in Int
      BY <1>0 DEF RestTypes
    <2>2. ASSUME NEW o \in Order, Repay(o)
          PROVE  UNCHANGED <<period, state>> /\ funds' \in Int /\ funds <= funds'
      <3>1. Price(o) \in Nat
        BY <1>0, PriceNat DEF RestTypes
      <3> QED BY <2>1, <2>2, <3>1 DEF Repay
    <2>3. ASSUME NEW amount \in TopUps, TopUp(amount)
          PROVE  UNCHANGED <<period, state>> /\ funds' \in Int /\ funds <= funds'
      BY <2>1, <2>3, BoundAssumption DEF TopUp
    <2>4. UNCHANGED <<period, state, funds>>
          => UNCHANGED <<period, state>> /\ funds' \in Int /\ funds <= funds'
      BY <2>1
    <2>5. BeginPass \/ PassStep => UNCHANGED <<period, state, funds>>
      BY PassQuiet
    <2> QED BY <2>2, <2>3, <2>4, <2>5 DEF Ask, SellStock, RecoverStale, Crash, AnswerDelivered,
                AnswerLost, AnswerRefused, FindRecent, AskAgain, GiveUp, Goes, EndPurchase, List,
                RetireProduct, Tick
  <1> QED BY <1>1, <1>2, <1>3, MoneyKept

\* The money of an order is taken while it is not bought.
LEMMA MoneyBilled ==
    ASSUME Sound, MoneySound, NEW o \in Order, Bill(o)
    PROVE  MoneySound'
  <1>0. BillTypes /\ BookTypes /\ RestTypes
    BY TypedParts DEF Sound
  <1>1. status[o] = "asked" /\ UNCHANGED <<asker, state>> /\ period' = period \cup {o}
        /\ funds' = funds - Price(o) /\ AskersKept
    BY DEF Bill, AskersKept
  <1>2. BoughtKept
    BY <1>0, BilledTyped, BoughtLike DEF Bill
  <1>3. \A i \in Purchases : ledger[i].code # o
    BY <1>1 DEF Sound, KnownSound, PurchaseCodes, Charged
  <1>4. Since' = Since \cup {o} /\ Since \subseteq period
    BY <1>1, <1>2, <1>3 DEF Since, BoughtKept
  <1>5. o \notin Since
    <2>1. o \notin period
      BY <1>0, <1>1 DEF BillTypes, BillsSound, Charged
    <2> QED BY <1>4, <2>1
  <1>6. /\ IsFiniteSet(Pairs(Since, [q \in Since |-> Price(q)])) /\ PriceOf(Since) \in Nat
        /\ \A q \in Since : Price(q) \in Nat
    BY <1>0, <1>4, PricesFinite
  <1>7. Price(o) \in Nat
    BY <1>0, PriceNat DEF RestTypes
  <1>8. PriceOf(Since)' = PriceOf(Since) + Price(o)
    <2>1. PICK S : S = Since
      OBVIOUS
    <2> DEFINE f == [q \in S |-> Price(q)]
               g == [q \in S \cup {o} |-> Price(q)]
    <2>2. g[o] = Price(o)
      OBVIOUS
    <2>3. SumOver(S \cup {o}, g) = SumOver(S, f) + g[o]
      <3>1. g[o] \in Nat
        BY <1>7
      <3>2. \A e \in S : f[e] \in Nat /\ g[e] = f[e]
        BY <1>6, <2>1
      <3>3. IsFiniteSet(Pairs(S, f))
        BY <1>6, <2>1
      <3>4. o \notin S
        BY <1>5, <2>1
      <3> HIDE DEF f, g
      <3> QED BY <3>1, <3>2, <3>3, <3>4, SumAdd
    <2>4. PriceOf(Since)' = SumOver(S \cup {o}, g)
      <3>1. \A q : Price(q)' = Price(q)
        BY <1>1 DEF Price, GoodsOf
      <3> QED BY <1>4, <2>1, <3>1 DEF PriceOf
    <2> QED BY <2>1, <2>2, <2>3, <2>4 DEF PriceOf
  <1>9. funds \in Int /\ state.balance \in Int
    BY <1>0 DEF RestTypes, BookTypes
  <1>10. state'.known => state'.balance - funds' <= PriceOf(Since)'
    BY <1>1, <1>6, <1>7, <1>8, <1>9 DEF MoneySound
  <1>11. \A i \in Purchases' : ledger'[i].amount = (0 - Price(ledger[i].code))'
    BY <1>1, <1>2, AmountsKept DEF Price, GoodsOf
  <1> QED BY <1>10, <1>11 DEF MoneySound

\* A purchase is entered after the last audit.
LEMMA MoneyBought ==
    ASSUME Sound, MoneySound, Deliver \/ KeepAsStock
    PROVE  MoneySound'
  <1>0. BillTypes /\ BookTypes /\ RestTypes
    BY TypedParts DEF Sound
  <1>1. PICK o : o = buy.found
    OBVIOUS
  <1>2. PICK e : e = NewEntry("purchase", 0 - Price(o), o, {})
    OBVIOUS
  <1>3. UNCHANGED <<asker, funds, state, period>> /\ ledger' = Append(ledger, e) /\ o \in Order
    BY <1>0, <1>1, <1>2 DEF Deliver, KeepAsStock, Conclude, EndPurchase, RestTypes
  <1>4. e \in Entry /\ e.kind = "purchase" /\ e.code = o /\ e.amount = 0 - Price(o)
    <2>1. Price(o) \in Nat
      BY <1>0, <1>3, PriceNat DEF RestTypes
    <2> QED BY <1>2, <1>3, <2>1 DEF NewEntry, Entry
  <1> DEFINE n == Len(ledger) + 1
  <1>5. /\ DOMAIN ledger = 1 .. Len(ledger) /\ DOMAIN ledger' = 1 .. n
        /\ \A i \in DOMAIN ledger : ledger'[i] = ledger[i]
        /\ ledger'[n] = e
    BY <1>0, <1>3, <1>4, AppendFacts DEF BookTypes
  <1>6. Len(ledger) \in Nat /\ state.last \in 0 .. Len(ledger)
    BY <1>0 DEF BookTypes
  <1>7. DOMAIN ledger' = DOMAIN ledger \cup {n} /\ n > state.last
    BY <1>5, <1>6
  <1> HIDE DEF n
  <1>8. Purchases' = Purchases \cup {n}
    BY <1>4, <1>5, <1>7 DEF Purchases
  <1>9. \A i \in Purchases : ledger'[i] = ledger[i]
    BY <1>5 DEF Purchases
  <1>10. Since' = Since
    BY <1>3, <1>5, <1>7, <1>8, <1>9 DEF Since
  <1>11. \A q : Price(q)' = Price(q)
    BY <1>3 DEF Price, GoodsOf
  <1>12. PriceOf(Since)' = PriceOf(Since)
    BY <1>10, <1>11 DEF PriceOf
  <1>13. \A i \in Purchases' : ledger'[i].amount = (0 - Price(ledger[i].code))'
    BY <1>4, <1>5, <1>8, <1>9, <1>11 DEF MoneySound, Price, GoodsOf
  <1>14. state'.known => state'.balance - funds' <= PriceOf(Since)'
    BY <1>3, <1>12 DEF MoneySound
  <1> QED BY <1>13, <1>14 DEF MoneySound

\* An audit starts the account afresh.
LEMMA MoneyAudited ==
    ASSUME Sound, MoneySound, NEW told \in BOOLEAN, Audit(told)
    PROVE  MoneySound'
  <1>0. BillTypes /\ BookTypes /\ RestTypes
    BY TypedParts DEF Sound
  <1>1. UNCHANGED <<asker, funds>> /\ period' = fresh /\ state'.balance = funds
    BY DEF Audit, supplier
  <1>2. BoughtKept /\ AskersKept
    <2>1. LikeBook(ledger')
      BY <1>0, ReconciledTyped, AlertedTyped DEF Audit
    <2> QED BY <1>1, <2>1, BoughtLike DEF AskersKept
  <1>3. \A q : Price(q)' = Price(q)
    BY <1>1 DEF Price, GoodsOf
  <1>4. PICK S : S = Since'
    OBVIOUS
  <1>5. S \subseteq fresh
    BY <1>1, <1>4 DEF Since
  <1>6. PriceOf(S) \in Nat
    BY <1>0, <1>5, PricesFinite
  <1>7. PriceOf(Since)' = PriceOf(S)
    BY <1>3, <1>4 DEF PriceOf
  <1>8. funds \in Int
    BY <1>0 DEF RestTypes
  <1>9. state'.balance - funds' <= PriceOf(Since)'
    BY <1>1, <1>6, <1>7, <1>8
  <1>10. \A i \in Purchases' : ledger'[i].amount = (0 - Price(ledger[i].code))'
    BY <1>2, AmountsKept DEF Price, GoodsOf
  <1> QED BY <1>9, <1>10 DEF MoneySound

LEMMA MoneyInit == Init => MoneySound
  <1> SUFFICES ASSUME Init PROVE MoneySound
    OBVIOUS
  <1>1. Purchases = {}
    BY DEF Init, Purchases
  <1>2. state = [balance |-> 0, last |-> 0, known |-> FALSE]
    BY DEF Init
  <1>3. state.known = FALSE
    BY <1>2
  <1> QED BY <1>1, <1>3 DEF MoneySound

LEMMA MoneyNext == Sound /\ MoneySound /\ [Next]_vars => MoneySound'
  <1> SUFFICES ASSUME Sound, MoneySound, [Next]_vars PROVE MoneySound'
    OBVIOUS
  <1>1. CASE UNCHANGED vars
    BY <1>1 DEF vars, supplier, shop, books, MoneySound, Since, Purchases, PriceOf, Price, GoodsOf
  <1>2. CASE Next
    BY <1>2, MoneyQuiet, MoneyBilled, MoneyBought, MoneyAudited DEF Next, PurchaseStep
  <1> QED BY <1>1, <1>2

LEMMA MoneyAlways == Spec => [](Sound /\ MoneySound)
  BY SoundInit, SoundNext, MoneyInit, MoneyNext, PTL DEF Spec

\* The purchases of the orders in S have been entered since the last audit,
\* each at its price, so what they cost is among the debits that it counts.
LEMMA BoughtSince ==
    ASSUME Sound, MoneySound, NEW S, S = {o \in Since : Bought(o) # {}}
    PROVE  PriceOf(S) <= Debits({i \in Purchases : i > state.last})
  <1>0. BillTypes /\ BookTypes /\ RestTypes
    BY TypedParts DEF Sound
  <1>1. PICK T : T = {i \in Purchases : i > state.last}
    OBVIOUS
  <1> DEFINE f == [o \in S |-> Price(o)]
             g == [i \in T |-> 0 - ledger[i].amount]
             h == [o \in S |-> CHOOSE i \in Bought(o) : TRUE]
  <1>2. ASSUME NEW o \in S
        PROVE  h[o] \in T /\ ledger[h[o]].code = o
    <2>1. h[o] \in Bought(o)
      OBVIOUS
    <2>2. h[o] \in Purchases /\ ledger[h[o]].code = o
      BY <2>1 DEF Bought
    <2>3. h[o] > state.last
      BY <2>2 DEF Since
    <2> QED BY <1>1, <2>2, <2>3
  <1>3. \A o \in S : Price(o) \in Nat
    <2>1. S \subseteq period
      BY DEF Since
    <2> QED BY <1>0, <2>1, PricesFinite
  <1>4. \A o \in S : f[o] \in Int /\ g[h[o]] \in Int /\ f[o] <= g[h[o]]
    <2> SUFFICES ASSUME NEW o \in S
                 PROVE  f[o] \in Int /\ g[h[o]] \in Int /\ f[o] <= g[h[o]]
      OBVIOUS
    <2>1. h[o] \in T /\ h[o] \in Purchases /\ ledger[h[o]].code = o
      BY <1>1, <1>2
    <2> HIDE DEF h
    <2>2. ledger[h[o]].amount = 0 - Price(o)
      BY <2>1 DEF MoneySound
    <2>3. f[o] = Price(o) /\ g[h[o]] = 0 - (0 - Price(o))
      BY <2>1, <2>2
    <2> QED BY <1>3, <2>3
  <1>5. \A o, q \in S : h[o] = h[q] => o = q
    <2> HIDE DEF h
    <2> QED BY <1>2
  <1>6. h \in [S -> T]
    BY <1>2
  <1>7. IsFiniteSet(Pairs(T, g))
    <2>1. T \subseteq DOMAIN ledger /\ DOMAIN ledger = 1 .. Len(ledger) /\ Len(ledger) \in Int
      BY <1>0, <1>1 DEF Purchases, BookTypes
    <2>2. IsFiniteSet(1 .. Len(ledger))
      BY <2>1, FS_Interval
    <2>3. IsFiniteSet(T)
      BY <2>1, <2>2, FS_Subset
    <2>4. \A i \in T : g[i] \in Int
      BY <1>0, <2>1, EntryFacts DEF BookTypes
    <2> HIDE DEF g
    <2> QED BY <2>3, <2>4, PairsFinite
  <1> HIDE DEF f, g, h
  <1>8. SumOver(S, f) <= SumOver(T, g)
    BY <1>4, <1>5, <1>6, <1>7, SumInjection
  <1> QED BY <1>1, <1>8 DEF f, g, PriceOf, Debits

\* What is missing is covered by the orders that no purchase accounts for.
LEMMA MissingCovered ==
    ASSUME Sound, MoneySound, state.known
    PROVE  0 - Unexplained <= PriceOf({o \in period : Bought(o) = {}})
  <1>0. BillTypes /\ BookTypes /\ RestTypes
    BY TypedParts DEF Sound
  <1>1. PICK L, A, B : /\ L = {o \in period : Bought(o) = {}}
                       /\ A = {o \in Since : Bought(o) = {}} /\ B = {o \in Since : Bought(o) # {}}
    OBVIOUS
  <1>2. Since = A \cup B /\ Since \subseteq period /\ A \subseteq L /\ L \subseteq period
        /\ A \subseteq period /\ B \subseteq period
    BY <1>1 DEF Since
  <1>3. ASSUME NEW S, S \subseteq period
        PROVE  /\ IsFiniteSet(Pairs(S, [o \in S |-> Price(o)])) /\ PriceOf(S) \in Nat
               /\ \A o \in S : Price(o) \in Nat
    BY <1>0, <1>3, PricesFinite
  <1>4. PriceOf(Since) <= PriceOf(A) + PriceOf(B)
    <2> DEFINE f == [o \in Since |-> Price(o)]
               g == [o \in A |-> Price(o)]
               h == [o \in B |-> Price(o)]
    <2>1. (\A o \in A : g[o] = f[o]) /\ (\A o \in B : h[o] = f[o])
      BY <1>2
    <2>2. IsFiniteSet(Pairs(A, g)) /\ IsFiniteSet(Pairs(B, h))
      BY <1>2, <1>3
    <2> HIDE DEF f, g, h
    <2>3. SumOver(Since, f) <= SumOver(A, g) + SumOver(B, h)
      BY <1>2, <2>1, <2>2, SumParts
    <2> QED BY <2>3 DEF f, g, h, PriceOf
  <1>5. PriceOf(A) <= PriceOf(L)
    <2> DEFINE f == [o \in A |-> Price(o)]
               g == [o \in L |-> Price(o)]
               h == [o \in A |-> o]
    <2>1. /\ h \in [A -> L] /\ \A o, q \in A : h[o] = h[q] => o = q
          /\ \A o \in A : f[o] \in Int /\ g[h[o]] \in Int /\ f[o] <= g[h[o]]
      BY <1>2, <1>3
    <2>2. IsFiniteSet(Pairs(L, g))
      BY <1>2, <1>3
    <2> HIDE DEF f, g, h
    <2>3. SumOver(A, f) <= SumOver(L, g)
      BY <2>1, <2>2, SumInjection
    <2> QED BY <2>3 DEF f, g, PriceOf
  <1>6. PICK d : d = Debits({i \in Purchases : i > state.last})
    OBVIOUS
  <1>7. PriceOf(B) <= d
    BY <1>1, <1>6, BoughtSince
  <1>8. state.balance - funds <= PriceOf(Since) /\ Unexplained = funds - state.balance + d
    BY <1>6 DEF MoneySound, Unexplained
  <1>9. /\ funds \in Int /\ state.balance \in Int /\ PriceOf(Since) \in Nat /\ PriceOf(A) \in Nat
        /\ PriceOf(B) \in Nat /\ PriceOf(L) \in Nat
    BY <1>0, <1>2, <1>3 DEF RestTypes, BookTypes
  <1>10. d \in Nat
    BY <1>0, <1>6, UnexplainedInt
  <1> QED BY <1>1, <1>4, <1>5, <1>7, <1>8, <1>9, <1>10

\* Only an audit enters a suspicious row.
LEMMA NewSuspicion ==
    ASSUME Sound, Next, NEW i \in DOMAIN ledger' \ DOMAIN ledger, ledger'[i].kind = "suspicious"
    PROVE  /\ buy = NoBuy /\ state.known
           /\ ledger'[i].amount = Unexplained
  <1>0. BillTypes /\ BookTypes /\ RestTypes
    BY TypedParts DEF Sound
  <1> USE DEF supplier, shop, books
  <1>1. ASSUME NEW told \in BOOLEAN, Audit(told)
        PROVE  /\ buy = NoBuy /\ state.known
               /\ ledger'[i].amount = Unexplained
    <2>1. ledger' = Reconciled \/ ledger' = Alerted(Reconciled)
      BY <1>1 DEF Audit
    <2>2. PICK book : book = Reconciled
      OBVIOUS
    <2>3. \A j \in DOMAIN book : /\ Alerted(book)[j].kind = book[j].kind
                                 /\ Alerted(book)[j].amount = book[j].amount
      <3>1. \A j \in DOMAIN book : book[j] \in Entry
        BY <1>0, <2>2, ReconciledTyped DEF LikeBook
      <3>2. ASSUME NEW r \in Entry
            PROVE  [r EXCEPT !.alerted = TRUE].kind = r.kind /\ [r EXCEPT !.alerted = TRUE].amount = r.amount
        BY DEF Entry
      <3> QED BY <3>1, <3>2 DEF Alerted
    <2>4. DOMAIN ledger' = DOMAIN book
      BY <2>1, <2>2 DEF Alerted
    <2>5. book[i].kind = "suspicious" /\ book[i].amount = ledger'[i].amount
      BY <2>1, <2>2, <2>3, <2>4
    <2>6. state.known /\ book[i].amount = Unexplained
      BY <1>0, <2>2, <2>4, <2>5, ReconciledTyped
    <2> QED BY <1>1, <2>5, <2>6 DEF Audit, GuardFree
  <1>2. CASE Deliver \/ KeepAsStock
    <2>1. PICK e : /\ e = NewEntry("purchase", 0 - Price(buy.found), buy.found, {})
                   /\ ledger' = Append(ledger, e)
      BY <1>2 DEF Deliver, KeepAsStock, Conclude
    <2>2. e \in Entry /\ e.kind = "purchase"
      <3>1. buy.found \in Order
        BY <1>0, <1>2 DEF RestTypes, Deliver, KeepAsStock
      <3>2. Price(buy.found) \in Nat
        BY <1>0, <3>1, PriceNat DEF RestTypes
      <3> QED BY <2>1, <3>1, <3>2 DEF NewEntry, Entry
    <2>3. ledger'[i] = e
      BY <1>0, <2>1, <2>2, AppendFacts DEF BookTypes
    <2> QED BY <2>2, <2>3
  <1>3. CASE LinkRecovered
    <2>1. PICK a \in DOMAIN ledger : LinkOne(a)
      BY <1>3 DEF LinkRecovered
    <2>2. ledger' = ledger \/ DOMAIN ledger' = DOMAIN ledger
      BY <2>1, ExplainedFacts
    <2> QED BY <2>2
  <1>4. ASSUME NEW o \in Order, Bill(o) PROVE FALSE
    <2>1. DOMAIN ledger' = DOMAIN ledger
      BY <1>0, <1>4 DEF Bill, BookTypes
    <2> QED BY <2>1
  <1>5. CASE Tick
    BY <1>5 DEF Tick
  <1>6. ledger' # ledger
    OBVIOUS
  <1>7. ~MatchNext /\ ~EndMatching /\ ~EndLinking /\ ~QueueOrphans /\ ~EndOrphans /\ ~AbortPass
        /\ ~BeginPass
    BY <1>6 DEF MatchNext, EndMatching, EndLinking, QueueOrphans, EndOrphans, AbortPass, BeginPass
  <1>8. /\ ~AnswerDelivered /\ ~AnswerLost /\ ~AnswerRefused /\ ~FindRecent /\ ~AskAgain /\ ~GiveUp
        /\ ~Crash
    BY <1>6 DEF AnswerDelivered, AnswerLost, AnswerRefused, FindRecent, AskAgain, GiveUp, Goes, Crash
  <1>9. /\ \A k \in Key : ~Ask(k)
        /\ \A k \in Key, o \in Order : ~SellStock(k, o)
        /\ \A k \in Preordered : ~RecoverStale(k)
    BY <1>6 DEF Ask, SellStock, RecoverStale
  <1>10. /\ \A o \in Order : ~List(o) /\ ~Repay(o)
         /\ \A amount \in TopUps : ~TopUp(amount)
         /\ \A g \in Retirable : ~RetireProduct(g)
    BY <1>6 DEF List, Repay, TopUp, RetireProduct
  <1> QED BY <1>1, <1>2, <1>3, <1>4, <1>5, <1>7, <1>8, <1>9, <1>10 DEF Next, PurchaseStep, PassStep

\* A new suspicion never exceeds what the last round charged and no purchase
\* accounts for: the price of the charges that have no book row.
THEOREM NoFalseAlertAlways == Spec => NoFalseAlert
  <1>1. ASSUME Sound, MoneySound, Next,
               NEW i \in DOMAIN ledger' \ DOMAIN ledger, ledger'[i].kind = "suspicious"
        PROVE  0 - ledger'[i].amount
                 <= PriceOf({o \in period : Bought(o) = {} /\ (buy # NoBuy => buy.order # o)})
    <2>1. buy = NoBuy /\ state.known /\ ledger'[i].amount = Unexplained
      BY <1>1, NewSuspicion
    <2>2. {o \in period : Bought(o) = {} /\ (buy # NoBuy => buy.order # o)}
            = {o \in period : Bought(o) = {}}
      BY <2>1
    <2>3. 0 - Unexplained <= PriceOf({o \in period : Bought(o) = {}})
      BY <1>1, <2>1, MissingCovered
    <2> QED BY <2>1, <2>2, <2>3
  <1>2. ASSUME Sound, MoneySound, [Next]_vars,
               NEW i \in DOMAIN ledger' \ DOMAIN ledger, ledger'[i].kind = "suspicious"
        PROVE  0 - ledger'[i].amount
                 <= PriceOf({o \in period : Bought(o) = {} /\ (buy # NoBuy => buy.order # o)})
    <2>1. CASE Next
      BY <1>1, <1>2, <2>1
    <2>2. CASE UNCHANGED vars
      BY <1>2, <2>2 DEF vars, books
    <2> QED BY <1>2, <2>1, <2>2
  <1>3. Sound /\ MoneySound /\ [Next]_vars =>
          [\A i \in DOMAIN ledger' \ DOMAIN ledger :
             ledger'[i].kind = "suspicious" =>
               LET lost == {o \in period : Bought(o) = {} /\ (buy # NoBuy => buy.order # o)}
               IN 0 - ledger'[i].amount <= PriceOf(lost)]_vars
    BY <1>2
  <1> QED BY <1>3, MoneyAlways, PTL DEF Spec, NoFalseAlert
=============================================================================
