------------------------- MODULE Gatekeeper_proofs -------------------------
(***************************************************************************)
(* The gate's promise for any number of resources, any life of the key and *)
(* any duration of a check: an admission is never older than both together.*)
(***************************************************************************)
EXTENDS Gatekeeper, TLAPS

Edge   == GateTtl + Slow
Places == {"idle", "ask", "write", "gate", "menu"}
Words  == {"none", "serve", "skip", "vip", "active", "paused"}

Stage  == [pc : Places, at : Nat \ {0}, ok : BOOLEAN, took : 0 .. Slow, vip : BOOLEAN]

GateTypeOK ==
  /\ vip \in BOOLEAN /\ inside \in SUBSET Resources
  /\ ago \in [Resources -> 0 .. Edge]
  /\ gate \in BOOLEAN /\ left \in 0 .. GateTtl
  /\ check \in [Checkers -> Stage]
  /\ word \in Words /\ rare \in Nat

\* Whoever is inside was so a moment ago.
Present == \A r \in inside : ago[r] = 0

\* A favourable check has seen him in every resource asked about so far, none
\* of them longer ago than the check has taken.
SeenBy(c, n) == \A i \in DOMAIN Asked : i <= n => ago[Asked[i]] <= check[c].took

Fair(c) ==
  /\ check[c].pc = "ask" => check[c].at \in DOMAIN Asked
  /\ check[c].pc = "ask" /\ check[c].ok => SeenBy(c, check[c].at - 1)
  /\ check[c].pc = "write" /\ check[c].ok => SeenBy(c, Len(Asked))

Favourable == \A c \in Checkers : Fair(c)

\* The key loses as much time as his absence gains.
KeyIsYoung == gate /\ left > 0 => \A r \in Resources : ago[r] + left <= Edge

GateInv == GateTypeOK /\ Present /\ Favourable /\ KeyIsYoung
-----------------------------------------------------------------------------
LEMMA AskedFacts ==
  /\ DOMAIN Asked = 1 .. Len(Asked) /\ Len(Asked) \in Nat
  /\ \A i \in DOMAIN Asked : Asked[i] \in Resources
  /\ \A r \in Resources : \E i \in DOMAIN Asked : r = Asked[i]
  /\ GateTtl \in Nat \ {0} /\ Slow \in Nat /\ Edge \in Nat
  BY GatekeeperAssumption DEF Resources, Edge

LEMMA NoCheckTyped ==
  /\ NoCheck \in Stage
  /\ \A v \in BOOLEAN : [NoCheck EXCEPT !.pc = "menu", !.vip = v] \in Stage
  /\ \A p \in Places : [NoCheck EXCEPT !.pc = p] \in Stage
  <1>1. 1 \in Nat \ {0} /\ 0 \in 0 .. Slow
    BY AskedFacts
  <1>2. NoCheck \in Stage
    BY <1>1 DEF NoCheck, Stage, Places
  <1> QED BY <1>2 DEF Stage, Places

LEMMA GateTypeInit == ASSUME GatekeeperInit PROVE GateTypeOK
  <1>1. check \in [Checkers -> Stage]
    BY NoCheckTyped DEF GatekeeperInit
  <1>2. ago \in [Resources -> 0 .. Edge]
    BY AskedFacts DEF GatekeeperInit, Edge
  <1>3. left \in 0 .. GateTtl /\ rare \in Nat
    BY AskedFacts DEF GatekeeperInit
  <1>4. word \in Words /\ gate \in BOOLEAN /\ vip \in BOOLEAN /\ inside \in SUBSET Resources
    BY DEF GatekeeperInit, Words
  <1> QED BY <1>1, <1>2, <1>3, <1>4 DEF GateTypeOK

\* What a move of one check leaves typed.
LEMMA ToTyped ==
  ASSUME check \in [Checkers -> Stage], NEW c \in Checkers, NEW p \in Stage, To(c, p)
  PROVE  /\ check' \in [Checkers -> Stage]
         /\ check'[c] = p
         /\ \A d \in Checkers \ {c} : check'[d] = check[d]
  BY DEF To

LEMMA StartTo ==
  ASSUME NEW c \in Checkers, Start(c)
  PROVE  \E p \in Stage : /\ To(c, p) /\ p.took = 0 /\ p.at = 1 /\ p.ok = TRUE
                          /\ p.pc = IF Asked = <<>> THEN "write" ELSE "ask"
  <1> DEFINE p == [NoCheck EXCEPT !.pc = IF Asked = <<>> THEN "write" ELSE "ask"]
  <1>1. p \in Stage
    BY NoCheckTyped DEF Places
  <1>2. p.took = 0 /\ p.at = 1 /\ p.ok = TRUE /\ p.pc = IF Asked = <<>> THEN "write" ELSE "ask"
    BY DEF NoCheck
  <1>3. To(c, p)
    BY DEF Start
  <1> QED BY <1>1, <1>2, <1>3

\* Every move of a check but a verdict's ends it, begins it, or takes it
\* where it promises nothing.
Blank(p) == p.pc \in {"idle", "gate", "menu"} \/ (p.pc = "write" /\ p.ok = FALSE)

LEMMA BlankPlaces ==
  ASSUME NEW v \in BOOLEAN
  PROVE  /\ NoCheck \in Stage /\ Blank(NoCheck)
         /\ [NoCheck EXCEPT !.pc = "gate"] \in Stage /\ Blank([NoCheck EXCEPT !.pc = "gate"])
         /\ [NoCheck EXCEPT !.pc = "menu", !.vip = v] \in Stage
         /\ Blank([NoCheck EXCEPT !.pc = "menu", !.vip = v])
  <1>1. /\ NoCheck.pc = "idle" /\ [NoCheck EXCEPT !.pc = "gate"].pc = "gate"
        /\ [NoCheck EXCEPT !.pc = "menu", !.vip = v].pc = "menu"
    BY DEF NoCheck
  <1>2. \A p \in Stage : p.pc = "idle" \/ p.pc = "gate" \/ p.pc = "menu" => Blank(p)
    BY DEF Blank
  <1>3. "gate" \in Places
    BY DEF Places
  <1> QED BY <1>1, <1>2, <1>3, NoCheckTyped

LEMMA StartFavours ==
  ASSUME GateTypeOK, Favourable, NEW c \in Checkers, Start(c), ago' = ago
  PROVE  Favourable' /\ check' \in [Checkers -> Stage]
  <1>1. PICK p \in Stage : /\ To(c, p) /\ p.took = 0 /\ p.at = 1 /\ p.ok = TRUE
                           /\ p.pc = IF Asked = <<>> THEN "write" ELSE "ask"
    BY StartTo
  <1>2. /\ check' \in [Checkers -> Stage] /\ check'[c] = p
        /\ \A d \in Checkers \ {c} : check'[d] = check[d]
    BY <1>1, ToTyped DEF GateTypeOK
  <1>3. \A d \in Checkers \ {c} : Fair(d)'
    BY <1>2 DEF Favourable, Fair, SeenBy
  <1>4. CASE Asked = <<>>
    <2>1. DOMAIN Asked = {} /\ p.pc = "write"
      BY <1>1, <1>4
    <2> QED BY <1>2, <1>3, <2>1 DEF Favourable, Fair, SeenBy
  <1>5. CASE Asked # <<>>
    <2>1. 1 \in DOMAIN Asked /\ p.pc = "ask"
      BY <1>1, <1>5, AskedFacts, GatekeeperAssumption
    <2>2. \A i \in DOMAIN Asked : ~(i <= check'[c].at - 1)
      BY <1>1, <1>2, AskedFacts
    <2> QED BY <1>1, <1>2, <1>3, <2>1, <2>2 DEF Favourable, Fair, SeenBy
  <1> QED BY <1>2, <1>4, <1>5

\* A move of one check keeps the others fair and the table of checks typed.
LEMMA OthersFair ==
  ASSUME GateTypeOK, Favourable, NEW c \in Checkers, NEW p \in Stage, To(c, p), ago' = ago
  PROVE  /\ check' \in [Checkers -> Stage] /\ check'[c] = p
         /\ \A d \in Checkers \ {c} : Fair(d)'
  BY ToTyped DEF GateTypeOK, Favourable, Fair, SeenBy

\* After a favourable check he was in every resource while it took.
LEMMA FavourableSeen ==
  ASSUME GateTypeOK, Favourable, NEW c \in Checkers, Stands(c, "write"), check[c].ok
  PROVE  \A r \in Resources : ago[r] <= check[c].took /\ check[c].took <= Slow
  <1>1. SeenBy(c, Len(Asked))
    BY DEF Favourable, Fair, Stands
  <1>2. check[c].took <= Slow
    BY AskedFacts DEF GateTypeOK, Stage
  <1> QED BY <1>1, <1>2, AskedFacts DEF SeenBy

-----------------------------------------------------------------------------
\* The user moves, and no check does.
LEMMA UserStep ==
  ASSUME GateInv, UNCHANGED check,
         (\E r \in Resources : Joins(r) \/ Quits(r)) \/ Buys \/ ServeVip
  PROVE  GateInv'
  <1> USE DEF GateInv
  <1>1. ASSUME NEW r \in Resources, Joins(r) PROVE GateInv'
    <2>1. ago' \in [Resources -> 0 .. Edge] /\ inside' \in SUBSET Resources
      BY <1>1, AskedFacts DEF Joins, GateTypeOK
    <2>2. GateTypeOK'
      BY <1>1, <2>1 DEF Joins, GateTypeOK
    <2>3. Present'
      BY <1>1 DEF Joins, GateTypeOK, Present
    <2>4. \A s \in Resources : ago'[s] <= ago[s] /\ ago'[s] \in Int /\ ago[s] \in Int
      BY <1>1, AskedFacts DEF Joins, GateTypeOK
    <2>5. ASSUME NEW c \in Checkers PROVE Fair(c)'
      <3>1. check[c].took \in Int
        BY AskedFacts DEF GateTypeOK, Stage
      <3>2. \A i \in DOMAIN Asked : ago[Asked[i]] <= check[c].took => ago'[Asked[i]] <= check[c].took
        BY <2>4, <3>1, AskedFacts
      <3> QED BY <3>2 DEF Favourable, Fair, SeenBy
    <2>6. KeyIsYoung'
      <3>1. left \in Int /\ Edge \in Int
        BY AskedFacts DEF GateTypeOK
      <3> QED BY <1>1, <2>4, <3>1 DEF Joins, KeyIsYoung
    <2> QED BY <2>2, <2>3, <2>5, <2>6 DEF Favourable
  <1>2. ASSUME NEW r \in Resources, Quits(r) PROVE GateInv'
    <2>1. GateTypeOK'
      BY <1>2 DEF Quits, Rare, GateTypeOK
    <2> QED BY <1>2, <2>1 DEF Quits, Present, Favourable, Fair, SeenBy, KeyIsYoung
  <1>3. CASE Buys \/ ServeVip
    <2>1. rare' \in Nat
      BY <1>3 DEF Buys, ServeVip, Rare, GateTypeOK
    <2>2. vip' \in BOOLEAN /\ word' \in Words
      BY <1>3 DEF Buys, ServeVip, GateTypeOK, Words
    <2>3. GateTypeOK'
      BY <1>3, <2>1, <2>2 DEF Buys, ServeVip, GateTypeOK
    <2> QED BY <1>3, <2>3 DEF Buys, ServeVip, Present, Favourable, Fair, SeenBy, KeyIsYoung
  <1> QED BY <1>1, <1>2, <1>3

\* Time takes from the key what it adds to absences and to running checks.
LEMMA ClockStep == ASSUME GateInv, ClockTicks PROVE GateInv'
  <1> USE DEF GateInv
  <1>1. \A r \in Resources : /\ ago'[r] \in 0 .. Edge /\ ago'[r] <= ago[r] + 1
                             /\ r \in inside => ago'[r] = 0
    BY AskedFacts DEF ClockTicks, Older, Edge, GateTypeOK
  <1>2. ago' \in [Resources -> 0 .. Edge]
    BY <1>1 DEF ClockTicks
  <1>3. left' \in 0 .. GateTtl /\ (left > 0 => left' = left - 1)
    BY AskedFacts DEF ClockTicks, GateTypeOK
  <1>4. gate' = (gate /\ left > 1)
    BY DEF ClockTicks
  <1>5. ASSUME NEW c \in Checkers
        PROVE  /\ check'[c] \in Stage
               /\ check'[c].pc = check[c].pc /\ check'[c].at = check[c].at /\ check'[c].ok = check[c].ok
               /\ check[c].pc \in {"ask", "write"} => check'[c].took = check[c].took + 1
    <2>1. check[c] \in Stage /\ check[c].took \in 0 .. Slow
      BY DEF GateTypeOK, Stage
    <2>2. CASE Checking(c)
      <3>1. check'[c] = [check[c] EXCEPT !.took = @ + 1] /\ check[c].took < Slow
        BY <2>2 DEF ClockTicks
      <3>2. check[c].took + 1 \in 0 .. Slow
        BY <2>1, <3>1, AskedFacts
      <3> QED BY <2>1, <3>1, <3>2 DEF Stage
    <2>3. CASE ~Checking(c)
      <3>1. check'[c] = check[c]
        BY <2>3 DEF ClockTicks
      <3> QED BY <2>1, <2>3, <3>1 DEF Checking
    <2> QED BY <2>2, <2>3
  <1>6. check' \in [Checkers -> Stage]
    BY <1>5 DEF ClockTicks
  <1>7. GateTypeOK'
    BY <1>2, <1>3, <1>4, <1>6 DEF ClockTicks, GateTypeOK
  <1>8. Present'
    BY <1>1 DEF ClockTicks, Present, GateTypeOK
  <1>9. ASSUME NEW c \in Checkers PROVE Fair(c)'
    <2>1. check[c].took \in Int
      BY AskedFacts DEF GateTypeOK, Stage
    <2>2. \A i \in DOMAIN Asked : ago[Asked[i]] \in Int /\ ago'[Asked[i]] \in Int
      BY <1>1, AskedFacts DEF GateTypeOK
    <2>3. \A i \in DOMAIN Asked :
            ago[Asked[i]] <= check[c].took => ago'[Asked[i]] <= check[c].took + 1
      BY <1>1, <2>1, <2>2, AskedFacts
    <2> QED BY <1>5, <2>3 DEF Favourable, Fair, SeenBy
  <1>10. KeyIsYoung'
    <2>1. /\ left \in Int /\ left' \in Int /\ Edge \in Int
          /\ \A r \in Resources : ago[r] \in Int /\ ago'[r] \in Int
      BY <1>1, <1>3, AskedFacts DEF GateTypeOK
    <2>2. gate' /\ left' > 0 => gate /\ left > 0 /\ left' = left - 1
      <3>1. left > 1 => left > 0
        BY <2>1
      <3> QED BY <1>3, <1>4, <3>1, Zenon
    <2>3. \A r \in Resources : ago[r] + left <= Edge => ago'[r] + (left - 1) <= Edge
      BY <1>1, <2>1
    <2> QED BY <2>2, <2>3 DEF KeyIsYoung
  <1> QED BY <1>7, <1>8, <1>9, <1>10 DEF Favourable

\* A check learns one more answer.
LEMMA AskStep ==
  ASSUME GateInv, NEW c \in Checkers, Ask(c) \/ AskFails(c)
  PROVE  GateInv'
  <1> USE DEF GateInv
  <1>1. /\ check[c] \in Stage /\ check[c].pc = "ask" /\ check[c].at \in DOMAIN Asked
        /\ check[c].ok => SeenBy(c, check[c].at - 1)
    BY DEF Ask, AskFails, Stands, Favourable, Fair, GateTypeOK
  <1>2. UNCHANGED <<vip, inside, ago, gate, left, word>> /\ rare' \in Nat
    BY DEF Ask, AskFails, Rare, GateTypeOK
  <1>3. Present' /\ KeyIsYoung'
    BY <1>2 DEF Present, KeyIsYoung
  <1>4. ASSUME NEW p \in Stage, To(c, p), p.took = check[c].took,
               \/ Blank(p)
               \/ p.pc = "ask" /\ p.at = check[c].at + 1 /\ check[c].at < Len(Asked)
               \/ p.pc = "write" /\ check[c].at >= Len(Asked),
               p.ok => check[c].ok /\ ago[Asked[check[c].at]] = 0
        PROVE  GateInv'
    <2>1. check' \in [Checkers -> Stage] /\ check'[c] = p /\ \A d \in Checkers \ {c} : Fair(d)'
      BY <1>2, <1>4, OthersFair
    <2>2. GateTypeOK'
      BY <1>2, <2>1 DEF GateTypeOK
    <2>3. p.ok => \A i \in DOMAIN Asked : i <= check[c].at => ago[Asked[i]] <= p.took
      <3>1. check[c].at \in Int /\ p.took \in 0 .. Slow /\ Slow \in Nat
        BY <1>1, <1>4, AskedFacts DEF Stage
      <3> QED BY <1>1, <1>4, <3>1, AskedFacts DEF SeenBy
    <2>4. Fair(c)'
      <3>1. check[c].at \in 1 .. Len(Asked) /\ Len(Asked) \in Nat
        BY <1>1, AskedFacts
      <3>2. CASE Blank(p)
        BY <2>1, <3>2 DEF Blank, Fair
      <3>3. CASE p.pc = "ask" /\ p.at = check[c].at + 1 /\ check[c].at < Len(Asked)
        <4>1. p.at \in DOMAIN Asked /\ p.at - 1 = check[c].at
          BY <3>1, <3>3, AskedFacts
        <4> QED BY <1>2, <2>1, <2>3, <3>3, <4>1 DEF Fair, SeenBy
      <3>4. CASE p.pc = "write" /\ check[c].at >= Len(Asked)
        <4>1. check[c].at = Len(Asked)
          BY <3>1, <3>4
        <4> QED BY <1>2, <2>1, <2>3, <3>4, <4>1 DEF Fair, SeenBy
      <3> QED BY <1>4, <3>2, <3>3, <3>4
    <2> QED BY <1>3, <2>1, <2>2, <2>4 DEF Favourable
  <1>5. CASE Ask(c)
    <2> DEFINE ok   == Verdict(check[c].ok, Asked[check[c].at] \in inside)
               more == check[c].at < Len(Asked) /\ (ok \/ ~Early(c))
               on   == [check[c] EXCEPT !.at = @ + 1, !.ok = ok]
               over == [check[c] EXCEPT !.pc = "write", !.ok = ok]
    <2>1. ok \in BOOLEAN /\ (ok => check[c].ok /\ ago[Asked[check[c].at]] = 0)
      BY DEF Verdict, Present
    <2>2. To(c, IF more THEN on ELSE over)
      BY <1>5 DEF Ask, Told
    <2>3. check[c].at + 1 \in Nat \ {0}
      BY <1>1 DEF Stage
    <2>4. CASE more
      <3>1. /\ on \in Stage /\ on.took = check[c].took /\ on.pc = "ask"
            /\ on.at = check[c].at + 1 /\ on.ok = ok
        BY <1>1, <2>1, <2>3 DEF Stage
      <3> QED BY <1>4, <2>1, <2>2, <2>4, <3>1
    <2>5. CASE ~more
      <3>1. /\ over \in Stage /\ over.took = check[c].took /\ over.pc = "write" /\ over.ok = ok
        BY <1>1, <2>1 DEF Stage, Places
      <3>2. Blank(over) \/ check[c].at >= Len(Asked)
        <4>1. ok => check[c].at >= Len(Asked)
          BY <1>1, <2>5, AskedFacts
        <4> QED BY <3>1, <4>1 DEF Blank
      <3> QED BY <1>4, <2>1, <2>2, <2>5, <3>1, <3>2
    <2> QED BY <2>4, <2>5
  <1>6. CASE AskFails(c)
    <2> DEFINE p == [check[c] EXCEPT !.pc = "write", !.ok = FALSE]
    <2>1. p \in Stage /\ p.took = check[c].took /\ p.pc = "write" /\ p.ok = FALSE
      BY <1>1 DEF Stage, Places
    <2>2. To(c, p) /\ Blank(p)
      BY <1>6, <2>1 DEF AskFails, Blank
    <2> QED BY <1>4, <2>1, <2>2
  <1> QED BY <1>5, <1>6

\* A step whose only check goes where it promises nothing, the key as it was.
LEMMA BlankStep ==
  ASSUME GateInv, NEW c \in Checkers, NEW p \in Stage, To(c, p), Blank(p),
         UNCHANGED <<inside, ago, gate, left>>, vip' \in BOOLEAN, word' \in Words, rare' \in Nat
  PROVE  GateInv'
  <1> USE DEF GateInv
  <1>1. check' \in [Checkers -> Stage] /\ check'[c] = p /\ \A d \in Checkers \ {c} : Fair(d)'
    BY OthersFair
  <1>2. Fair(c)'
    BY <1>1 DEF Blank, Fair
  <1> QED BY <1>1, <1>2 DEF GateTypeOK, Present, Favourable, KeyIsYoung

LEMMA StartStep ==
  ASSUME GateInv, NEW c \in Checkers, Start(c),
         UNCHANGED <<inside, ago, gate, left>>, vip' \in BOOLEAN, word' \in Words, rare' \in Nat
  PROVE  GateInv'
  BY StartFavours DEF GateInv, GateTypeOK, Present, KeyIsYoung

\* What its owner does with a verdict; whatever it is, the check ends.
LEMMA MovesOnTo ==
  ASSUME GateInv, NEW c \in Checkers, MovesOn(c)
  PROVE  /\ \E p \in Stage : To(c, p) /\ Blank(p)
         /\ word' \in Words
  <1> USE DEF GateInv
  <1>1. vip \in BOOLEAN /\ word \in Words
    BY DEF GateTypeOK
  <1> QED BY <1>1, BlankPlaces DEF MovesOn, Words

LEMMA WriteStep == ASSUME GateInv, NEW c \in Checkers, Write(c) PROVE GateInv'
  <1>1. PICK p \in Stage : To(c, p) /\ Blank(p)
    BY MovesOnTo DEF Write
  <1> USE DEF GateInv
  <1>2. /\ check' \in [Checkers -> Stage] /\ check'[c] = p
        /\ \A d \in Checkers \ {c} : Fair(d)'
    BY <1>1, OthersFair DEF Write
  <1>3. Favourable'
    BY <1>1, <1>2 DEF Favourable, Blank, Fair
  <1>4. GateTypeOK'
    <2>1. word' \in Words
      BY MovesOnTo DEF Write
    <2>2. gate' = check[c].ok /\ left' = GateTtl
      BY DEF Write, SetGate
    <2>3. gate' \in BOOLEAN /\ left' \in 0 .. GateTtl
      BY <2>2, AskedFacts DEF GateTypeOK, Stage
    <2> QED BY <1>2, <2>1, <2>3 DEF GateTypeOK, Write
  <1>5. KeyIsYoung'
    <2>1. ASSUME gate', NEW r \in Resources PROVE ago'[r] + left' <= Edge
      <3>1. check[c].ok /\ left' = GateTtl /\ ago' = ago
        BY <2>1 DEF Write, SetGate
      <3>2. ago[r] <= check[c].took /\ check[c].took <= Slow
        BY <3>1, FavourableSeen DEF Write
      <3>3. ago[r] \in Int /\ check[c].took \in Int
        BY AskedFacts DEF GateTypeOK, Stage
      <3> QED BY <3>1, <3>2, <3>3, AskedFacts DEF Edge
    <2> QED BY <2>1 DEF KeyIsYoung
  <1> QED BY <1>3, <1>4, <1>5 DEF Write, Present

LEMMA GateInit == ASSUME GatekeeperInit PROVE GateInv
  <1>1. Present
    BY DEF GatekeeperInit, Present
  <1>2. Favourable
    BY DEF GatekeeperInit, Favourable, Fair, NoCheck
  <1>3. KeyIsYoung
    BY DEF GatekeeperInit, KeyIsYoung
  <1> QED BY <1>1, <1>2, <1>3, GateTypeInit DEF GateInv

LEMMA GateStep == ASSUME GateInv, [GatekeeperNext]_gatVars PROVE GateInv'
  <1> USE DEF GateInv
  <1>1. /\ Checkers = {"messenger", "bouncer", "button"}
        /\ vip \in BOOLEAN /\ word \in Words /\ rare \in Nat /\ (Rare => rare' \in Nat)
        /\ {"none", "serve", "skip", "vip", "active", "paused"} = Words
    BY DEF Checkers, GateTypeOK, Words, Rare
  <1>2. /\ NoCheck \in Stage /\ Blank(NoCheck)
        /\ [NoCheck EXCEPT !.pc = "gate"] \in Stage /\ Blank([NoCheck EXCEPT !.pc = "gate"])
        /\ [NoCheck EXCEPT !.pc = "menu", !.vip = vip] \in Stage
        /\ Blank([NoCheck EXCEPT !.pc = "menu", !.vip = vip])
    BY <1>1, BlankPlaces
  <1>3. CASE \/ \E r \in Resources : Joins(r) \/ Quits(r)
             \/ Buys \/ ServeVip
    BY <1>3, UserStep DEF Joins, Quits, Buys, ServeVip
  <1>4. CASE ClockTicks
    BY <1>4, ClockStep
  <1>5. ASSUME NEW c \in Checkers, Ask(c) \/ AskFails(c) PROVE GateInv'
    BY <1>5, AskStep
  <1>6. ASSUME NEW c \in Checkers, Write(c) PROVE GateInv'
    BY <1>6, WriteStep
  <1>7. ASSUME NEW c \in Checkers, WriteFails(c) PROVE GateInv'
    BY <1>1, <1>7, MovesOnTo, BlankStep DEF WriteFails
  <1>8. ASSUME NEW c \in Checkers, Dies(c) PROVE GateInv'
    BY <1>1, <1>2, <1>8, BlankStep DEF Dies
  <1>9. CASE Expires \/ PressVerify \/ ReadGateFails
    BY <1>1, <1>9, StartStep DEF Expires, PressVerify, ReadGateFails
  <1>10. CASE OpenMenu
    BY <1>1, <1>2, <1>10, BlankStep DEF OpenMenu
  <1>11. CASE NewSignal
    BY <1>1, <1>2, <1>11, BlankStep DEF NewSignal
  <1>12. CASE DrawMenu \/ DrawMenuBlind
    <2>1. word' \in Words /\ rare' \in Nat
      BY <1>1, <1>12 DEF DrawMenu, DrawMenuBlind
    <2> QED BY <1>1, <1>2, <1>12, <2>1, BlankStep DEF DrawMenu, DrawMenuBlind
  <1>13. CASE ReadGate
    <2>1. CASE left > 0 /\ Hit
      <3>1. word' \in Words
        BY <1>1, <2>1 DEF Hit
      <3> QED BY <1>1, <1>2, <1>13, <2>1, <3>1, BlankStep DEF ReadGate, Hit
    <2>2. CASE left = 0 /\ Start("messenger") /\ UNCHANGED word
      BY <1>1, <1>13, <2>2, StartStep DEF ReadGate
    <2> QED BY <1>13, <2>1, <2>2 DEF ReadGate
  <1>14. CASE UNCHANGED gatVars
    BY <1>14 DEF gatVars, GateTypeOK, Present, Favourable, Fair, SeenBy, KeyIsYoung
  <1> QED BY <1>1, <1>3, <1>4, <1>5, <1>6, <1>7, <1>8, <1>9, <1>10, <1>11, <1>12, <1>13, <1>14
          DEF GatekeeperNext, Delivers, Draws, Answers

-----------------------------------------------------------------------------
\* No check ends.
Goes == \A d \in Checkers : check'[d] = NoCheck => check[d] = NoCheck

\* The messenger's and the menu's word is as young as the theorem says.
Young ==
  \/ check["messenger"] # NoCheck /\ check'["messenger"] = NoCheck /\ word' = "serve"
  \/ check["button"] # NoCheck /\ check'["button"] = NoCheck /\ word' = "active"
  => \A r \in Resources : ago[r] < Edge

LEMMA GoesYoung == ASSUME Goes PROVE Young
  BY DEF Goes, Young, Checkers

LEMMA ToGoes ==
  ASSUME GateInv, NEW c \in Checkers, NEW p \in Stage, To(c, p), p.pc # "idle"
  PROVE  Goes
  <1>1. p # NoCheck
    BY DEF NoCheck
  <1> QED BY <1>1, ToTyped DEF Goes, GateInv, GateTypeOK

LEMMA StartGoes == ASSUME GateInv, NEW c \in Checkers, Start(c) PROVE Goes
  BY StartTo, ToGoes

\* A favourable answer is no older than its check.
LEMMA AnswerYoung ==
  ASSUME GateInv, NEW c \in Checkers, Stands(c, "write"), check[c].ok
  PROVE  \A r \in Resources : ago[r] < Edge
  <1> TAKE r \in Resources
  <1>1. ago[r] <= check[c].took /\ check[c].took <= Slow
    BY FavourableSeen DEF GateInv
  <1>2. ago[r] \in Int /\ check[c].took \in Int
    BY AskedFacts DEF GateInv, GateTypeOK, Stage
  <1> QED BY <1>1, <1>2, AskedFacts DEF Edge

\* A favourable key is no older than its life.
LEMMA KeyYoung ==
  ASSUME GateInv, gate, left > 0
  PROVE  \A r \in Resources : ago[r] < Edge
  <1> TAKE r \in Resources
  <1>1. ago[r] + left <= Edge
    BY DEF GateInv, KeyIsYoung
  <1>2. ago[r] \in Int /\ left \in Int /\ Edge \in Int
    BY AskedFacts DEF GateInv, GateTypeOK
  <1> QED BY <1>1, <1>2

LEMMA MovesOnYoung ==
  ASSUME GateInv, NEW c \in Checkers, Stands(c, "write"), MovesOn(c)
  PROVE  Young
  <1>1. check \in [Checkers -> Stage] /\ "messenger" \in Checkers /\ "button" \in Checkers
    BY DEF GateInv, GateTypeOK, Checkers
  <1>2. CASE c = "messenger" /\ To(c, NoCheck) /\ word' = IF check[c].ok THEN "serve" ELSE "skip"
    <2>1. check'["button"] = check["button"]
      BY <1>1, <1>2 DEF To
    <2>2. word' = "serve" => check[c].ok
      BY <1>2
    <2> QED BY <2>1, <2>2, AnswerYoung DEF Young
  <1>3. CASE c = "bouncer" /\ To(c, NoCheck)
    <2>1. check'["messenger"] = check["messenger"] /\ check'["button"] = check["button"]
      BY <1>1, <1>3 DEF To
    <2> QED BY <2>1 DEF Young
  <1>4. CASE word' = "none"
    BY <1>4 DEF Young
  <1>5. CASE To(c, [NoCheck EXCEPT !.pc = "menu", !.vip = vip])
    <2>1. vip \in BOOLEAN
      BY DEF GateInv, GateTypeOK
    <2>2. [NoCheck EXCEPT !.pc = "menu", !.vip = vip].pc = "menu"
      BY DEF NoCheck
    <2>3. [NoCheck EXCEPT !.pc = "menu", !.vip = vip] \in Stage
      BY <2>1, NoCheckTyped
    <2>4. Goes
      BY <1>5, <2>2, <2>3, ToGoes
    <2> QED BY <2>4, GoesYoung
  <1> QED BY <1>2, <1>3, <1>4, <1>5 DEF MovesOn

LEMMA GateYoung == ASSUME GateInv, GatekeeperNext PROVE Young
  <1>1. /\ check \in [Checkers -> Stage] /\ vip \in BOOLEAN
        /\ Checkers = {"messenger", "bouncer", "button"}
    BY DEF GateInv, GateTypeOK, Checkers
  <1>2. CASE \/ \E r \in Resources : Joins(r) \/ Quits(r)
             \/ Buys \/ ServeVip
    <2>1. Goes
      BY <1>2 DEF Joins, Quits, Buys, ServeVip, Goes
    <2> QED BY <2>1, GoesYoung
  <1>3. CASE ClockTicks
    <2>1. ASSUME NEW d \in Checkers, check'[d] = NoCheck PROVE check[d] = NoCheck
      <3>1. CASE Checking(d)
        <4>1. check'[d].pc = check[d].pc
          BY <1>1, <1>3, <3>1 DEF ClockTicks, Stage
        <4> QED BY <2>1, <3>1, <4>1 DEF Checking, NoCheck
      <3>2. CASE ~Checking(d)
        BY <1>3, <2>1, <3>2 DEF ClockTicks
      <3> QED BY <3>1, <3>2
    <2> QED BY <2>1, GoesYoung DEF Goes
  <1>4. ASSUME NEW c \in Checkers, Ask(c) PROVE Young
    <2> DEFINE ok   == Verdict(check[c].ok, Asked[check[c].at] \in inside)
               on   == [check[c] EXCEPT !.at = @ + 1, !.ok = ok]
               over == [check[c] EXCEPT !.pc = "write", !.ok = ok]
    <2>1. check[c] \in Stage /\ check[c].pc = "ask"
      BY <1>1, <1>4 DEF Ask, Stands
    <2>2. on.pc = "ask" /\ over.pc = "write"
      BY <2>1 DEF Stage
    <2>3. PICK p : To(c, p) /\ p.pc \in {"ask", "write"}
      BY <1>4, <2>2 DEF Ask, Told
    <2>4. p # NoCheck
      BY <2>3 DEF NoCheck
    <2>5. Goes
      BY <1>1, <2>3, <2>4 DEF Goes, To
    <2> QED BY <2>5, GoesYoung
  <1>5. ASSUME NEW c \in Checkers, AskFails(c) PROVE Young
    <2> DEFINE p == [check[c] EXCEPT !.pc = "write", !.ok = FALSE]
    <2>1. p.pc = "write"
      BY <1>1 DEF Stage
    <2>2. p # NoCheck
      BY <2>1 DEF NoCheck
    <2>3. Goes
      BY <1>1, <1>5, <2>2 DEF AskFails, Goes, To
    <2> QED BY <2>3, GoesYoung
  <1>6. ASSUME NEW c \in Checkers, Write(c) \/ WriteFails(c) PROVE Young
    BY <1>6, MovesOnYoung DEF Write, WriteFails
  <1>7. ASSUME NEW c \in Checkers, Dies(c) PROVE Young
    BY <1>7 DEF Dies, Young
  <1>8. CASE Expires \/ PressVerify \/ ReadGateFails
    BY <1>1, <1>8, StartGoes, GoesYoung DEF Expires, PressVerify, ReadGateFails
  <1>9. CASE OpenMenu
    <2>1. [NoCheck EXCEPT !.pc = "menu", !.vip = vip].pc = "menu"
      BY DEF NoCheck
    <2>2. [NoCheck EXCEPT !.pc = "menu", !.vip = vip] \in Stage
      BY <1>1, NoCheckTyped
    <2> QED BY <1>1, <1>9, <2>1, <2>2, ToGoes, GoesYoung DEF OpenMenu
  <1>10. CASE NewSignal
    <2>1. [NoCheck EXCEPT !.pc = "gate"].pc = "gate"
      BY DEF NoCheck
    <2>2. [NoCheck EXCEPT !.pc = "gate"] \in Stage
      BY NoCheckTyped DEF Places
    <2> QED BY <1>1, <1>10, <2>1, <2>2, ToGoes, GoesYoung DEF NewSignal
  <1>11. CASE DrawMenu \/ DrawMenuBlind
    <2>1. check'["messenger"] = check["messenger"]
      BY <1>1, <1>11 DEF DrawMenu, DrawMenuBlind, To
    <2>2. word' = "active" => gate /\ left > 0
      BY <1>11 DEF DrawMenu, DrawMenuBlind
    <2> QED BY <2>1, <2>2, KeyYoung DEF Young
  <1>12. CASE ReadGate
    <2>1. CASE left > 0 /\ Hit
      <3>1. check'["button"] = check["button"]
        BY <1>1, <2>1 DEF Hit, To
      <3>2. word' = "serve" => gate /\ left > 0
        BY <2>1 DEF Hit
      <3> QED BY <3>1, <3>2, KeyYoung DEF Young
    <2>2. CASE Start("messenger")
      BY <1>1, <2>2, StartGoes, GoesYoung
    <2> QED BY <1>12, <2>1, <2>2 DEF ReadGate
  <1> QED BY <1>1, <1>2, <1>3, <1>4, <1>5, <1>6, <1>7, <1>8, <1>9, <1>10, <1>11, <1>12
          DEF GatekeeperNext, Delivers, Draws, Answers

\* The gate invariant, for any resources, key life and duration of a check.
LEMMA GateHolds == GatekeeperSpec => []GateInv
  <1>1. GatekeeperInit => GateInv
    BY GateInit
  <1>2. GateInv /\ [GatekeeperNext]_gatVars => GateInv'
    BY GateStep
  <1> QED BY <1>1, <1>2, PTL DEF GatekeeperSpec

\* Whoever writes the key last: a free user is admitted, and told so, only if
\* he was in every resource within the last life of the key and check.
THEOREM NobodyStaysLong == GatekeeperSpec => LeaversAreStopped
  <1>1. GateInv /\ [GatekeeperNext]_gatVars =>
          [ \/ check["messenger"] # NoCheck /\ check'["messenger"] = NoCheck /\ word' = "serve"
            \/ check["button"] # NoCheck /\ check'["button"] = NoCheck /\ word' = "active"
            => \A r \in Resources : ago[r] < GateTtl + Slow ]_gatVars
    BY GateYoung DEF Young, Edge
  <1> QED BY <1>1, GateHolds, PTL DEF GatekeeperSpec, LeaversAreStopped
=============================================================================
