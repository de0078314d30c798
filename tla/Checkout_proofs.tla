--------------------------- MODULE Checkout_proofs ---------------------------
(***************************************************************************)
(* The two promises of the checkout for any number of presses, tariffs,    *)
(* balances, orders and upsets.                                            *)
(***************************************************************************)
EXTENDS Checkout, SequenceTheorems, TLAPS

Stops == {"idle", "user", "find", "create", "record", "shown", "leave"}
Kinds == {"CACTUS", "MANUAL"}
Carried == [pc : Stops, plan : Plans, had : Nat, order : Nat, kind : Kinds]
Row == [order : Nat, kind : Kinds, plan : Plans, gap : Int,
        status : {"PENDING", "PAID"}, fresh : BOOLEAN]

CheckoutTypeOK ==
  /\ balance \in Nat /\ invoices \in Seq(Row) /\ latest \in Nat
  /\ lock \in Presses \cup {Nobody}
  /\ press \in [Presses -> Carried] /\ overlap \in BOOLEAN

\* A press for CactusPay that may still make an order.
Guarded(p) == p.kind = "CACTUS" /\ p.pc \in {"user", "find", "create", "record"}
Making(p)  == p.kind = "CACTUS" /\ p.pc \in {"create", "record"}
Missing(p) == Price[p.plan] - p.had

NoneLike(p) ==
  \A i \in DOMAIN invoices \ reopened :
    Open(i) => <<invoices[i].plan, invoices[i].gap>> # <<p.plan, Missing(p)>>

Payable(p) ==
  \E i \in DOMAIN invoices :
    /\ invoices[i].order = p.order /\ invoices[i].plan = p.plan
    /\ invoices[i].gap + p.had = Price[p.plan]
    /\ invoices[i].kind = "CACTUS" => p.order \in orders

\* Only CactusPay's presses search and create.
Sorted   == \A h \in Presses : press[h].pc \in {"find", "create"} => press[h].kind = "CACTUS"

\* Without an overlap whoever may still make an order has the lock, and whoever
\* makes one has seen that there is none.
Holders  == ~overlap => \A h \in Presses : Guarded(press[h]) => lock = h
Unopened == ~overlap => \A h \in Presses : Making(press[h]) => NoneLike(press[h])

\* CactusPay has the order of every invoice of its own, the coming ones included.
Known ==
  /\ \A i \in DOMAIN invoices : invoices[i].kind = "CACTUS" => invoices[i].order \in orders
  /\ \A h \in Presses : press[h].kind = "CACTUS" /\ press[h].pc = "record" =>
       press[h].order \in orders

CheckoutInv ==
  /\ CheckoutTypeOK /\ Sorted /\ Holders /\ Unopened /\ Known
  /\ OneOpenOrder /\ ScreenIsPayable
-----------------------------------------------------------------------------
LEMMA PlanFacts ==
  /\ \A q \in Plans : Price[q] \in Nat
  /\ Nobody \notin Presses
  /\ NoPress \in Carried /\ NoPress.pc = "idle"
  <1>1. (CHOOSE q \in Plans : TRUE) \in Plans
    BY CheckoutAssumption
  <1> QED BY <1>1, CheckoutAssumption DEF Nobody, NoPress, Carried, Stops, Kinds

LEMMA RowFacts ==
  ASSUME CheckoutTypeOK
  PROVE  /\ DOMAIN invoices = 1 .. Len(invoices) /\ Len(invoices) \in Nat
         /\ \A i \in DOMAIN invoices : invoices[i] \in Row
  BY ElementOfSeq DEF CheckoutTypeOK

LEMMA InitInv == CheckoutInit => CheckoutInv
  <1> SUFFICES ASSUME CheckoutInit PROVE CheckoutInv
    OBVIOUS
  <1>1. invoices \in Seq(Row) /\ DOMAIN invoices = {}
    BY DEF CheckoutInit
  <1>2. CheckoutTypeOK
    BY <1>1, PlanFacts, CheckoutAssumption DEF CheckoutInit, CheckoutTypeOK
  <1>3. \A h \in Presses : press[h] = NoPress
    BY DEF CheckoutInit
  <1>4. Sorted /\ Holders /\ Unopened /\ ScreenIsPayable
    BY <1>3, PlanFacts DEF Sorted, Holders, Unopened, ScreenIsPayable, Guarded, Making, At
  <1>5. Known /\ OneOpenOrder
    BY <1>1, <1>3, PlanFacts DEF Known, OneOpenOrder
  <1> QED BY <1>2, <1>4, <1>5 DEF CheckoutInv

-----------------------------------------------------------------------------
\* A step of one press that leaves the table alone need answer only for what
\* it carries away, and for the lock the others hold.
LEMMA PressMoves ==
  ASSUME CheckoutInv, NEW h \in Presses, NEW p \in Carried,
         press' = [press EXCEPT ![h] = p],
         invoices' = invoices, reopened' = reopened, balance' = balance,
         orders \subseteq orders', latest' \in Nat,
         lock' \in Presses \cup {Nobody}, overlap' \in BOOLEAN, overlap => overlap',
         p.pc \in {"find", "create"} => p.kind = "CACTUS",
         ~overlap' => \A g \in Presses \ {h} : Guarded(press[g]) => lock' = g,
         ~overlap' /\ Guarded(p) => lock' = h,
         ~overlap' /\ Making(p) => NoneLike(p),
         p.kind = "CACTUS" /\ p.pc = "record" => p.order \in orders',
         p.pc = "shown" => Payable(p)
  PROVE  CheckoutInv'
  <1>1. /\ press' \in [Presses -> Carried] /\ press'[h] = p
        /\ \A g \in Presses \ {h} : press'[g] = press[g]
    BY DEF CheckoutInv, CheckoutTypeOK
  <1>2. CheckoutTypeOK'
    BY <1>1 DEF CheckoutInv, CheckoutTypeOK
  <1>3. Sorted'
    BY <1>1 DEF CheckoutInv, Sorted
  <1>4. Holders'
    BY <1>1 DEF Holders, Guarded
  <1>5. Unopened'
    <2> SUFFICES ASSUME ~overlap', NEW g \in Presses, Making(press[g])' PROVE NoneLike(press[g])'
      BY DEF Unopened, Making
    <2>1. NoneLike(press'[g])
      BY <1>1 DEF CheckoutInv, Unopened, Making
    <2> QED BY <2>1 DEF NoneLike, Missing, Open, Cactus
  <1>6. Known'
    BY <1>1 DEF CheckoutInv, Known
  <1>7. OneOpenOrder'
    BY DEF CheckoutInv, OneOpenOrder, Open, Cactus
  <1>8. ScreenIsPayable'
    BY <1>1 DEF CheckoutInv, ScreenIsPayable, Payable, At
  <1> QED BY <1>2, <1>3, <1>4, <1>5, <1>6, <1>7, <1>8 DEF CheckoutInv

\* A step of one press that leaves the lock and the overlap alone, too.
LEMMA PressGoesOn ==
  ASSUME CheckoutInv, NEW h \in Presses, NEW p \in Carried,
         press' = [press EXCEPT ![h] = p],
         invoices' = invoices, reopened' = reopened, balance' = balance,
         lock' = lock, overlap' = overlap, orders \subseteq orders', latest' \in Nat,
         p.pc \in {"find", "create"} => p.kind = "CACTUS",
         ~overlap /\ Guarded(p) => lock = h,
         ~overlap /\ Making(p) => NoneLike(p),
         p.kind = "CACTUS" /\ p.pc = "record" => p.order \in orders',
         p.pc = "shown" => Payable(p)
  PROVE  CheckoutInv'
  <1>1. /\ lock' \in Presses \cup {Nobody} /\ overlap' \in BOOLEAN /\ (overlap => overlap')
    BY DEF CheckoutInv, CheckoutTypeOK
  <1>2. ~overlap' => \A g \in Presses \ {h} : Guarded(press[g]) => lock' = g
    BY DEF CheckoutInv, Holders
  <1>3. ~overlap' /\ Guarded(p) => lock' = h
    OBVIOUS
  <1>4. ~overlap' /\ Making(p) => NoneLike(p)
    OBVIOUS
  <1> QED BY <1>1, <1>2, <1>3, <1>4, PressMoves

\* The same press at another place.
LEMMA Elsewhere ==
  ASSUME CheckoutInv, NEW h \in Presses, NEW s \in Stops
  PROVE  \E p \in Carried :
           /\ [press EXCEPT ![h].pc = s] = [press EXCEPT ![h] = p]
           /\ p.pc = s /\ p.plan = press[h].plan /\ p.had = press[h].had
           /\ p.order = press[h].order /\ p.kind = press[h].kind
  <1> DEFINE p == [press[h] EXCEPT !.pc = s]
  <1>1. press[h] \in Carried
    BY DEF CheckoutInv, CheckoutTypeOK
  <1>2. p \in Carried /\ p.pc = s /\ p.plan = press[h].plan /\ p.had = press[h].had
        /\ p.order = press[h].order /\ p.kind = press[h].kind
    BY <1>1 DEF Carried
  <1>3. [press EXCEPT ![h].pc = s] = [press EXCEPT ![h] = p]
    BY DEF CheckoutInv, CheckoutTypeOK
  <1> QED BY <1>2, <1>3

LEMMA BeginStep ==
  ASSUME CheckoutInv, NEW h \in Presses, NEW plan \in Plans,
         PressCactus(h, plan) \/ PressManual(h, plan)
  PROVE  CheckoutInv'
  <1> DEFINE p == [NoPress EXCEPT !.pc = "user", !.plan = plan]
             q == [NoPress EXCEPT !.pc = "user", !.plan = plan, !.kind = "MANUAL"]
  <1>1. /\ p \in Carried /\ p.pc = "user" /\ q \in Carried /\ q.pc = "user" /\ q.kind = "MANUAL"
    BY PlanFacts DEF NoPress, Carried, Stops, Kinds
  <1>2. CASE PressCactus(h, plan)
    <2>1. /\ press' = [press EXCEPT ![h] = p] /\ lock = Nobody /\ lock' = h
          /\ invoices' = invoices /\ reopened' = reopened /\ balance' = balance
          /\ orders' = orders /\ latest' = latest /\ overlap' = overlap
      BY <1>2 DEF PressCactus
    <2>2. ~overlap' => \A g \in Presses \ {h} : Guarded(press[g]) => lock' = g
      BY <2>1, PlanFacts DEF CheckoutInv, Holders
    <2>3. lock' \in Presses \cup {Nobody} /\ overlap' \in BOOLEAN /\ latest' \in Nat
      BY <2>1 DEF CheckoutInv, CheckoutTypeOK
    <2>4. ~Making(p)
      BY <1>1 DEF Making
    <2> HIDE DEF p
    <2> QED BY <1>1, <2>1, <2>2, <2>3, <2>4, PressMoves
  <1>3. CASE PressManual(h, plan)
    <2>1. /\ press' = [press EXCEPT ![h] = q] /\ lock' = lock
          /\ invoices' = invoices /\ reopened' = reopened /\ balance' = balance
          /\ orders' = orders /\ latest' = latest /\ overlap' = overlap
      BY <1>3 DEF PressManual
    <2>2. latest' \in Nat
      BY <2>1 DEF CheckoutInv, CheckoutTypeOK
    <2>3. ~Making(q) /\ ~Guarded(q)
      BY <1>1 DEF Making, Guarded
    <2> HIDE DEF q
    <2> QED BY <1>1, <2>1, <2>2, <2>3, PressGoesOn
  <1> QED BY <1>2, <1>3

\* A new number keeps a press what it was.
LEMMA NumberedAs ==
  ASSUME CheckoutInv, NEW h \in Presses, NEW s \in Stops, NEW had \in Nat, Numbered(h, s, had)
  PROVE  \E p \in Carried :
           /\ press' = [press EXCEPT ![h] = p] /\ latest' \in Nat
           /\ p.pc = s /\ p.plan = press[h].plan /\ p.had = had /\ p.kind = press[h].kind
  <1> DEFINE p == [press[h] EXCEPT !.pc = s, !.order = latest', !.had = had]
  <1>1. press[h] \in Carried /\ latest' \in Nat
    BY DEF CheckoutInv, CheckoutTypeOK, Numbered
  <1>2. p \in Carried /\ p.pc = s /\ p.plan = press[h].plan /\ p.had = had /\ p.kind = press[h].kind
    BY <1>1 DEF Carried
  <1>3. press' = [press EXCEPT ![h] = p]
    BY DEF CheckoutInv, CheckoutTypeOK, Numbered
  <1> QED BY <1>1, <1>2, <1>3

LEMMA ReadStep ==
  ASSUME CheckoutInv, NEW h \in Presses, ReadBalance(h)
  PROVE  CheckoutInv'
  <1>1. /\ invoices' = invoices /\ reopened' = reopened /\ balance' = balance /\ lock' = lock
        /\ orders' = orders /\ overlap' = overlap /\ press[h].pc = "user"
        /\ balance \in Nat /\ latest \in Nat /\ press[h] \in Carried
    BY DEF ReadBalance, At, CheckoutInv, CheckoutTypeOK
  <1>2. CASE balance < Price[press[h].plan] /\ press[h].kind = "MANUAL" /\ Numbered(h, "record", balance)
    <2>1. PICK p \in Carried :
            /\ press' = [press EXCEPT ![h] = p] /\ latest' \in Nat
            /\ p.pc = "record" /\ p.kind = "MANUAL"
      BY <1>1, <1>2, NumberedAs DEF Stops
    <2>2. ~Making(p) /\ ~Guarded(p)
      BY <2>1 DEF Making, Guarded
    <2> QED BY <1>1, <2>1, <2>2, PressGoesOn
  <1>3. CASE /\ balance >= Price[press[h].plan] \/ press[h].kind = "CACTUS"
             /\ press' = [press EXCEPT ![h].had = balance, ![h].pc =
                            IF balance >= Price[press[h].plan] THEN "leave" ELSE "find"]
             /\ UNCHANGED latest
    <2> DEFINE s == IF balance >= Price[press[h].plan] THEN "leave" ELSE "find"
               p == [press[h] EXCEPT !.had = balance, !.pc = s]
    <2>1. s \in Stops /\ (s = "find" => press[h].kind = "CACTUS") /\ s \in {"find", "leave"}
      BY <1>3 DEF Stops
    <2>2. press' = [press EXCEPT ![h] = p]
      BY <1>3 DEF CheckoutInv, CheckoutTypeOK
    <2> HIDE DEF s
    <2>3. p \in Carried /\ p.pc = s /\ p.kind = press[h].kind
      BY <1>1, <2>1 DEF Carried
    <2> HIDE DEF p
    <2>4. ~Making(p) /\ p.pc # "record" /\ p.pc # "shown"
          /\ (p.pc \in {"find", "create"} => p.kind = "CACTUS")
      BY <2>1, <2>3 DEF Making
    <2>5. Guarded(p) => Guarded(press[h])
      BY <1>1, <2>3 DEF Guarded
    <2>6. ~overlap' /\ Guarded(p) => lock' = h
      BY <1>1, <2>5 DEF CheckoutInv, Holders
    <2> QED BY <1>1, <1>3, <2>2, <2>3, <2>4, <2>6, PressGoesOn
  <1> QED BY <1>2, <1>3 DEF ReadBalance

LEMMA FindStep ==
  ASSUME CheckoutInv, NEW h \in Presses, FindOrder(h)
  PROVE  CheckoutInv'
  <1> DEFINE open == {i \in DOMAIN invoices : Reusable(i, h)}
  <1>1. /\ invoices' = invoices /\ reopened' = reopened /\ balance' = balance /\ lock' = lock
        /\ orders' = orders /\ overlap' = overlap /\ press[h].pc = "find" /\ press[h].kind = "CACTUS"
        /\ press[h] \in Carried /\ latest \in Nat /\ Guarded(press[h])
    BY DEF FindOrder, At, CheckoutInv, CheckoutTypeOK, Sorted, Guarded
  <1>2. ~overlap' => lock' = h
    BY <1>1 DEF CheckoutInv, Holders
  <1>3. CASE open = {} /\ NewOrder(h)
    <2>1. press[h].had \in Nat
      BY <1>1 DEF Carried
    <2>2. PICK p \in Carried :
            /\ press' = [press EXCEPT ![h] = p] /\ latest' \in Nat
            /\ p.pc = "create" /\ p.plan = press[h].plan /\ p.had = press[h].had
            /\ p.kind = "CACTUS"
      BY <1>1, <1>3, <2>1, NumberedAs DEF NewOrder, Stops
    <2>3. NoneLike(p)
      BY <1>3, <2>2 DEF NoneLike, Missing, Reusable, Open, Cactus, Gap
    <2> QED BY <1>1, <1>2, <2>2, <2>3, PressGoesOn
  <1>4. CASE \E newest \in open :
               /\ press' = [press EXCEPT ![h].pc = "shown", ![h].order = invoices[newest].order]
               /\ UNCHANGED latest
    <2>1. PICK i \in open :
            /\ press' = [press EXCEPT ![h].pc = "shown", ![h].order = invoices[i].order]
            /\ latest' = latest
      BY <1>4
    <2> DEFINE p == [press[h] EXCEPT !.pc = "shown", !.order = invoices[i].order]
    <2>2. i \in DOMAIN invoices /\ invoices[i] \in Row /\ Reusable(i, h)
      BY RowFacts DEF CheckoutInv
    <2>3. press' = [press EXCEPT ![h] = p]
      BY <2>1 DEF CheckoutInv, CheckoutTypeOK
    <2>4. /\ p \in Carried /\ p.pc = "shown" /\ p.plan = press[h].plan /\ p.had = press[h].had
          /\ p.order = invoices[i].order /\ p.kind = press[h].kind
      BY <1>1, <2>2 DEF Carried, Stops, Row
    <2> HIDE DEF p
    <2>5. invoices[i].plan = p.plan /\ invoices[i].gap = Price[p.plan] - p.had
      BY <2>2, <2>4 DEF Reusable, Gap
    <2>6. Price[p.plan] \in Nat /\ p.had \in Nat
      BY <2>4, PlanFacts DEF Carried
    <2>7. invoices[i].gap + p.had = Price[p.plan]
      BY <2>5, <2>6
    <2>8. invoices[i].kind = "CACTUS" => p.order \in orders
      BY <2>2, <2>4 DEF CheckoutInv, Known
    <2>9. Payable(p)
      BY <2>2, <2>4, <2>5, <2>7, <2>8 DEF Payable
    <2>10. ~Making(p) /\ ~Guarded(p)
      BY <2>4 DEF Making, Guarded
    <2> QED BY <1>1, <2>1, <2>3, <2>4, <2>9, <2>10, PressGoesOn
  <1>5. (open = {} /\ NewOrder(h)) \/
        \E newest \in open :
          /\ press' = [press EXCEPT ![h].pc = "shown", ![h].order = invoices[newest].order]
          /\ UNCHANGED latest
    BY DEF FindOrder
  <1> QED BY <1>3, <1>4, <1>5

LEMMA FindFailsStep ==
  ASSUME CheckoutInv, NEW h \in Presses, FindFails(h)
  PROVE  CheckoutInv'
  <1>1. /\ invoices' = invoices /\ reopened' = reopened /\ balance' = balance /\ lock' = lock
        /\ orders' = orders /\ overlap' = TRUE /\ press[h].pc = "find" /\ press[h].kind = "CACTUS"
        /\ press[h] \in Carried /\ lock \in Presses \cup {Nobody} /\ NewOrder(h)
    BY DEF FindFails, At, CheckoutInv, CheckoutTypeOK, Sorted
  <1>2. press[h].had \in Nat
    BY <1>1 DEF Carried
  <1>3. PICK p \in Carried :
          /\ press' = [press EXCEPT ![h] = p] /\ latest' \in Nat
          /\ p.pc = "create" /\ p.kind = "CACTUS"
    BY <1>1, <1>2, NumberedAs DEF NewOrder, Stops
  <1> QED BY <1>1, <1>3, PressMoves

\* A step to another place, with the same plan, balance, order and kind.
LEMMA CreateStep ==
  ASSUME CheckoutInv, NEW h \in Presses, CreatePayment(h)
  PROVE  CheckoutInv'
  <1>1. /\ invoices' = invoices /\ reopened' = reopened /\ balance' = balance /\ lock' = lock
        /\ orders' = orders \cup {press[h].order} /\ overlap' = overlap /\ latest' = latest
        /\ press[h].pc = "create" /\ press[h].kind = "CACTUS" /\ latest \in Nat
        /\ press' = [press EXCEPT ![h].pc = "record"]
    BY DEF CreatePayment, At, Moves, CheckoutInv, CheckoutTypeOK, Sorted
  <1>2. PICK p \in Carried :
           /\ press' = [press EXCEPT ![h] = p]
           /\ p.pc = "record" /\ p.plan = press[h].plan /\ p.had = press[h].had
           /\ p.order = press[h].order /\ p.kind = press[h].kind
    BY <1>1, Elsewhere DEF Stops
  <1>3. Guarded(press[h]) /\ Making(press[h])
    BY <1>1 DEF Guarded, Making
  <1>4. ~overlap' => lock' = h
    BY <1>1, <1>3 DEF CheckoutInv, Holders
  <1>5. ~overlap' => NoneLike(p)
    BY <1>1, <1>2, <1>3 DEF CheckoutInv, Unopened, NoneLike, Missing
  <1> QED BY <1>1, <1>2, <1>4, <1>5, PressGoesOn

LEMMA LeavingStep ==
  ASSUME CheckoutInv, NEW h \in Presses, Moves(h, "leave"),
         invoices' = invoices, reopened' = reopened, balance' = balance, lock' = lock,
         orders \subseteq orders', overlap' = overlap, latest' = latest
  PROVE  CheckoutInv'
  <1>1. PICK p \in Carried : press' = [press EXCEPT ![h] = p] /\ p.pc = "leave"
    BY Elsewhere DEF Stops, Moves
  <1>2. ~Guarded(p) /\ ~Making(p)
    BY <1>1 DEF Guarded, Making
  <1>3. latest' \in Nat
    BY DEF CheckoutInv, CheckoutTypeOK
  <1> QED BY <1>1, <1>2, <1>3, PressGoesOn

LEMMA LeaveStep ==
  ASSUME CheckoutInv, NEW h \in Presses, Leave(h)
  PROVE  CheckoutInv'
  <1>1. /\ invoices' = invoices /\ reopened' = reopened /\ balance' = balance
        /\ orders' = orders /\ overlap' = overlap /\ latest' = latest
        /\ press' = [press EXCEPT ![h] = NoPress]
        /\ lock' = lock \/ (lock = h /\ lock' = Nobody)
    BY DEF Leave, Release, Owns
  <1>2. ~Guarded(NoPress) /\ ~Making(NoPress)
    BY PlanFacts DEF Guarded, Making
  <1>3. ~overlap' => \A g \in Presses \ {h} : Guarded(press[g]) => lock' = g
    BY <1>1 DEF CheckoutInv, Holders
  <1>4. latest' \in Nat /\ overlap' \in BOOLEAN /\ lock' \in Presses \cup {Nobody}
    BY <1>1 DEF CheckoutInv, CheckoutTypeOK
  <1> QED BY <1>1, <1>2, <1>3, <1>4, PlanFacts, PressMoves

-----------------------------------------------------------------------------
LEMMA RecordedRow ==
  ASSUME CheckoutInv, NEW h \in Presses
  PROVE  /\ Recorded(h) \in Row
         /\ Recorded(h).gap + press[h].had = Price[press[h].plan]
  <1>1. press[h] \in Carried
    BY DEF CheckoutInv, CheckoutTypeOK
  <1>2. Price[press[h].plan] \in Nat /\ press[h].had \in Nat
    BY <1>1, PlanFacts DEF Carried
  <1> QED BY <1>1, <1>2 DEF Recorded, Row, Carried, Gap

\* The one step that adds a row.
LEMMA InsertStep ==
  ASSUME CheckoutInv, NEW h \in Presses, press[h].pc = "record", Moves(h, "shown"),
         invoices' = Append(invoices, Recorded(h)),
         reopened' = reopened, balance' = balance, lock' = lock,
         orders' = orders, overlap' = overlap, latest' = latest
  PROVE  CheckoutInv'
  <1> PICK r : r = Recorded(h)
    OBVIOUS
  <1> PICK n : n = Len(invoices) + 1
    OBVIOUS
  <1>1. PICK p \in Carried :
           /\ press' = [press EXCEPT ![h] = p]
           /\ p.pc = "shown" /\ p.plan = press[h].plan /\ p.had = press[h].had
           /\ p.order = press[h].order /\ p.kind = press[h].kind
    BY Elsewhere DEF Stops, Moves
  <1>2. /\ press' \in [Presses -> Carried] /\ press'[h] = p
        /\ \A g \in Presses \ {h} : press'[g] = press[g]
    BY <1>1 DEF CheckoutInv, CheckoutTypeOK
  <1>3. /\ r \in Row /\ r.gap + press[h].had = Price[press[h].plan]
        /\ r.kind = press[h].kind /\ r.plan = press[h].plan /\ r.order = press[h].order
        /\ r.gap = Missing(press[h])
    BY RecordedRow DEF Recorded, Missing, Gap
  <1>4. invoices \in Seq(Row)
    BY DEF CheckoutInv, CheckoutTypeOK
  <1>5. /\ invoices' \in Seq(Row) /\ Len(invoices') = n
        /\ \A i \in 1 .. Len(invoices) : invoices'[i] = invoices[i]
        /\ invoices'[n] = r
    BY <1>3, <1>4, AppendProperties
  <1>6. /\ DOMAIN invoices = 1 .. Len(invoices) /\ Len(invoices) \in Nat
        /\ DOMAIN invoices' = 1 .. n
    BY <1>4, <1>5
  <1>7. /\ DOMAIN invoices' = DOMAIN invoices \cup {n} /\ n \notin DOMAIN invoices
        /\ \A i \in DOMAIN invoices : invoices'[i] = invoices[i]
    BY <1>5, <1>6
  <1>8. CheckoutTypeOK'
    BY <1>2, <1>5 DEF CheckoutInv, CheckoutTypeOK
  <1>9. Sorted'
    BY <1>1, <1>2 DEF CheckoutInv, Sorted
  <1>10. Holders'
    BY <1>1, <1>2 DEF CheckoutInv, Holders, Guarded
  <1>11. \A i \in DOMAIN invoices : Open(i)' => Open(i)
    BY <1>7 DEF Open, Cactus
  <1>12. Unopened'
    <2> SUFFICES ASSUME ~overlap', NEW g \in Presses, Making(press[g])' PROVE NoneLike(press[g])'
      BY DEF Unopened, Making
    <2>1. g # h /\ press'[g] = press[g] /\ Making(press[g])
      BY <1>1, <1>2 DEF Making
    <2>2. NoneLike(press[g]) /\ lock = g
      BY <2>1 DEF CheckoutInv, Unopened, Holders, Guarded, Making
    <2>3. press[h].kind # "CACTUS"
      BY <2>1, <2>2 DEF CheckoutInv, Holders, Guarded
    <2>4. ~Open(n)'
      BY <1>3, <1>5, <2>3 DEF Open, Cactus
    <2> QED BY <1>7, <1>11, <2>1, <2>2, <2>4 DEF NoneLike, Missing
  <1>13. Known'
    <2>1. r.kind = "CACTUS" => r.order \in orders
      BY <1>3 DEF CheckoutInv, Known
    <2> QED BY <1>1, <1>2, <1>5, <1>7, <2>1 DEF CheckoutInv, Known
  <1>14. OneOpenOrder'
    <2> SUFFICES ASSUME ~overlap, NEW i \in DOMAIN invoices' \ reopened,
                        NEW j \in DOMAIN invoices' \ reopened, Open(i)', Open(j)', i # j
                 PROVE  <<invoices'[i].plan, invoices'[i].gap>> # <<invoices'[j].plan, invoices'[j].gap>>
      BY DEF OneOpenOrder
    <2>1. Open(n)' => NoneLike(press[h])
      BY <1>3, <1>5 DEF CheckoutInv, Unopened, Making, Open, Cactus
    <2>2. CASE i # n /\ j # n
      BY <1>7, <1>11, <2>2 DEF CheckoutInv, OneOpenOrder
    <2>3. CASE i = n
      BY <1>3, <1>5, <1>7, <1>11, <2>1, <2>3 DEF NoneLike
    <2>4. CASE j = n
      BY <1>3, <1>5, <1>7, <1>11, <2>1, <2>4 DEF NoneLike
    <2> QED BY <2>2, <2>3, <2>4
  <1>15. ScreenIsPayable'
    <2> SUFFICES ASSUME NEW g \in Presses, press'[g].pc = "shown" PROVE Payable(press[g])'
      BY DEF ScreenIsPayable, Payable, At
    <2>1. CASE g = h
      <3>1. p.kind = "CACTUS" => p.order \in orders
        BY <1>1 DEF CheckoutInv, Known
      <3> QED BY <1>1, <1>2, <1>3, <1>5, <1>7, <2>1, <3>1 DEF Payable
    <2>2. CASE g # h
      <3>1. Payable(press[g])
        BY <1>2, <2>2 DEF CheckoutInv, ScreenIsPayable, Payable, At
      <3> QED BY <1>2, <1>7, <2>2, <3>1 DEF Payable
    <2> QED BY <2>1, <2>2
  <1> QED BY <1>8, <1>9, <1>10, <1>12, <1>13, <1>14, <1>15 DEF CheckoutInv

\* An invoice that changes its status or grows old stays the same order.
LEMMA RowStep ==
  ASSUME CheckoutInv, NEW k \in DOMAIN invoices, NEW r \in Row,
         invoices' = [invoices EXCEPT ![k] = r],
         r.order = invoices[k].order, r.kind = invoices[k].kind,
         r.plan = invoices[k].plan, r.gap = invoices[k].gap,
         reopened \subseteq reopened',
         k \in reopened' \/ ~(r.status = "PENDING" /\ r.fresh),
         UNCHANGED <<balance, orders, latest, lock, press, overlap>>
  PROVE  CheckoutInv'
  <1>1. /\ invoices' \in Seq(Row) /\ DOMAIN invoices' = DOMAIN invoices
        /\ \A i \in DOMAIN invoices : invoices'[i] = IF i = k THEN r ELSE invoices[i]
    BY ExceptSeq DEF CheckoutInv, CheckoutTypeOK
  <1>2. \A i \in DOMAIN invoices :
          /\ invoices'[i].order = invoices[i].order /\ invoices'[i].kind = invoices[i].kind
          /\ invoices'[i].plan = invoices[i].plan /\ invoices'[i].gap = invoices[i].gap
    BY <1>1
  <1>3. \A i \in DOMAIN invoices \ reopened' : Open(i)' => Open(i) /\ i \notin reopened
    BY <1>1, <1>2 DEF Open, Cactus
  <1>4. CheckoutTypeOK' /\ Sorted' /\ Holders'
    BY <1>1 DEF CheckoutInv, CheckoutTypeOK, Sorted, Holders, Guarded
  <1>5. Unopened'
    <2> SUFFICES ASSUME ~overlap, NEW g \in Presses, Making(press[g]) PROVE NoneLike(press[g])'
      BY DEF Unopened, Making, NoneLike, Missing
    <2>1. NoneLike(press[g])
      BY DEF CheckoutInv, Unopened
    <2> QED BY <1>1, <1>2, <1>3, <2>1 DEF NoneLike, Missing
  <1>6. Known'
    BY <1>1, <1>2 DEF CheckoutInv, Known
  <1>7. OneOpenOrder'
    BY <1>1, <1>2, <1>3 DEF CheckoutInv, OneOpenOrder
  <1>8. ScreenIsPayable'
    BY <1>1, <1>2 DEF CheckoutInv, ScreenIsPayable, At
  <1> QED BY <1>4, <1>5, <1>6, <1>7, <1>8 DEF CheckoutInv

LEMMA SettlesStep ==
  ASSUME CheckoutInv, NEW k \in 1 .. MaxOrders, Grows(k) \/ Settles(k) \/ Reopens(k)
  PROVE  CheckoutInv'
  <1>1. k \in DOMAIN invoices /\ invoices \in Seq(Row)
    BY DEF Grows, Settles, Reopens, Cactus, CheckoutInv, CheckoutTypeOK
  <1>2. invoices[k] \in Row /\ DOMAIN invoices = 1 .. Len(invoices)
    BY <1>1, RowFacts DEF CheckoutInv
  <1>3. CASE Grows(k)
    <2> DEFINE r == [invoices[k] EXCEPT !.fresh = FALSE]
    <2>1. /\ r \in Row /\ r.fresh = FALSE /\ r.order = invoices[k].order
          /\ r.kind = invoices[k].kind /\ r.plan = invoices[k].plan /\ r.gap = invoices[k].gap
      BY <1>2 DEF Row
    <2>2. invoices' = [invoices EXCEPT ![k] = r]
      BY <1>1, <1>3 DEF Grows
    <2> HIDE DEF r
    <2> QED BY <1>1, <1>3, <2>1, <2>2, RowStep DEF Grows
  <1>4. CASE Settles(k)
    <2> DEFINE r == [invoices[k] EXCEPT !.status = "PAID"]
    <2>1. /\ r \in Row /\ r.status = "PAID" /\ r.order = invoices[k].order
          /\ r.kind = invoices[k].kind /\ r.plan = invoices[k].plan /\ r.gap = invoices[k].gap
      BY <1>2 DEF Row
    <2>2. invoices' = [invoices EXCEPT ![k] = r]
      BY <1>1, <1>4 DEF Settles
    <2> HIDE DEF r
    <2> QED BY <1>1, <1>4, <2>1, <2>2, RowStep DEF Settles
  <1>5. CASE Reopens(k)
    <2> DEFINE r == [invoices[k] EXCEPT !.status = "PENDING"]
    <2>1. /\ r \in Row /\ r.order = invoices[k].order
          /\ r.kind = invoices[k].kind /\ r.plan = invoices[k].plan /\ r.gap = invoices[k].gap
      BY <1>2 DEF Row
    <2>2. invoices' = [invoices EXCEPT ![k] = r]
      BY <1>1, <1>5 DEF Reopens
    <2> HIDE DEF r
    <2> QED BY <1>1, <1>5, <2>1, <2>2, RowStep DEF Reopens
  <1> QED BY <1>3, <1>4, <1>5

-----------------------------------------------------------------------------
\* What leaves every press and the table alone, or ends all presses.
LEMMA WorldStep ==
  ASSUME CheckoutInv, Lapse \/ BotDies \/ (\E b \in Balances : BalanceMoves(b))
  PROVE  CheckoutInv'
  <1>1. /\ invoices' = invoices /\ reopened' = reopened /\ orders' = orders /\ latest' = latest
        /\ balance' \in Nat
    BY CheckoutAssumption DEF Lapse, BotDies, BalanceMoves, CheckoutInv, CheckoutTypeOK
  <1>2. \A g \in Presses : press'[g] = press[g] \/ press'[g].pc = "idle"
    BY PlanFacts DEF Lapse, BotDies, BalanceMoves, CheckoutInv, CheckoutTypeOK
  <1>3. press' \in [Presses -> Carried] /\ lock' \in Presses \cup {Nobody}
        /\ overlap' \in BOOLEAN /\ (overlap => overlap')
    BY PlanFacts DEF Lapse, BotDies, BalanceMoves, Upset, CheckoutInv, CheckoutTypeOK
  <1>4. CheckoutTypeOK'
    BY <1>1, <1>3 DEF CheckoutInv, CheckoutTypeOK
  <1>5. Sorted'
    BY <1>2 DEF CheckoutInv, Sorted
  <1>6. Holders'
    <2>1. ~overlap' /\ lock' # lock => \A g \in Presses : ~Guarded(press[g])
      BY DEF Lapse, BotDies, BalanceMoves, Owns, At, CheckoutInv, Holders, Guarded
    <2> QED BY <1>2, <1>3, <2>1 DEF CheckoutInv, Holders, Guarded
  <1>7. Unopened'
    <2> SUFFICES ASSUME ~overlap', NEW g \in Presses, Making(press[g])' PROVE NoneLike(press[g])'
      BY DEF Unopened, Making
    <2>1. press'[g] = press[g]
      BY <1>2 DEF Making
    <2>2. NoneLike(press[g])
      BY <1>3, <2>1 DEF CheckoutInv, Unopened
    <2> QED BY <1>1, <2>1, <2>2 DEF NoneLike, Missing, Open, Cactus
  <1>8. Known'
    BY <1>1, <1>2 DEF CheckoutInv, Known
  <1>9. OneOpenOrder'
    BY <1>1, <1>3 DEF CheckoutInv, OneOpenOrder, Open, Cactus
  <1>10. ScreenIsPayable'
    BY <1>1, <1>2 DEF CheckoutInv, ScreenIsPayable, At
  <1> QED BY <1>4, <1>5, <1>6, <1>7, <1>8, <1>9, <1>10 DEF CheckoutInv

LEMMA RecordStep ==
  ASSUME CheckoutInv, NEW h \in Presses, Record(h)
  PROVE  CheckoutInv'
  <1>1. /\ press[h].pc = "record" /\ reopened' = reopened /\ balance' = balance /\ lock' = lock
        /\ orders' = orders /\ overlap' = overlap /\ latest' = latest
    BY DEF Record, At
  <1>2. CASE invoices' = Append(invoices, Recorded(h)) /\ Moves(h, "shown")
    BY <1>1, <1>2, InsertStep
  <1>3. CASE Moves(h, "leave") /\ invoices' = invoices
    BY <1>1, <1>3, LeavingStep
  <1> QED BY <1>2, <1>3 DEF Record

LEMMA NextKeeps == CheckoutInv /\ [CheckoutNext]_choVars => CheckoutInv'
  <1> SUFFICES ASSUME CheckoutInv, [CheckoutNext]_choVars PROVE CheckoutInv'
    OBVIOUS
  <1>1. ASSUME NEW h \in Presses, CreateFails(h) PROVE CheckoutInv'
    BY <1>1, LeavingStep DEF CreateFails
  <1>2. ASSUME NEW h \in Presses, Shown(h) PROVE CheckoutInv'
    BY <1>2, LeavingStep DEF Shown
  <1>3. CASE UNCHANGED choVars
    BY <1>3 DEF choVars, CheckoutInv, CheckoutTypeOK, Sorted, Holders, Unopened, Known,
                OneOpenOrder, ScreenIsPayable, Guarded, Making, NoneLike, Missing, Open, Cactus, At
  <1>4. CASE CheckoutNext
    BY <1>1, <1>2, <1>4, BeginStep, ReadStep, FindStep, FindFailsStep, CreateStep, RecordStep,
       LeaveStep, WorldStep, SettlesStep DEF CheckoutNext
  <1> QED BY <1>3, <1>4

LEMMA InvHolds == CheckoutSpec => []CheckoutInv
  BY InitInv, NextKeeps, PTL DEF CheckoutSpec

\* Whatever the presses, restarts and balances, one tariff and gap has one open
\* CactusPay order (_start_cactus_payment_flow with its lock and its search).
THEOREM OneOrderAtATime == CheckoutSpec => []OneOpenOrder
  <1>1. CheckoutInv => OneOpenOrder
    BY DEF CheckoutInv
  <1> QED BY <1>1, InvHolds, PTL

\* Every screen shown has an invoice behind it that makes up the price.
THEOREM ScreensPay == CheckoutSpec => []ScreenIsPayable
  <1>1. CheckoutInv => ScreenIsPayable
    BY DEF CheckoutInv
  <1> QED BY <1>1, InvHolds, PTL
=============================================================================
