---------------------------- MODULE DiscoveryProofs ----------------------------
(***************************************************************************)
(* Proofs about Discovery for any coins and bounds.  The whitelist keeps   *)
(* the promise of CoinBook because memory and table agree on every coin    *)
(* but those the operator blacklisted since the start (Agree): what a      *)
(* restart reads back is then what memory held, less those coins.          *)
(***************************************************************************)
EXTENDS Discovery, TLAPS

(* The table has what memory lists, or the operator's edit of it.          *)
Agree ==
  \A c \in Coins :
    IF c \in black
    THEN listed[c] = "none" /\ rows[c] = "blacklisted"
    ELSE rows[c] = listed[c] \/ rows[c] = "blacklisted"

IInv == DiscoveryTypeOK /\ Agree

LEMMA InitIInv == Init => IInv
  <1>. SUFFICES ASSUME Init PROVE IInv
    OBVIOUS
  <1>1. /\ rows \in [Coins -> {"none", "verified", "profitable", "blacklisted"}]
        /\ listed \in [Coins -> {"none", "verified", "profitable"}]
    BY DEF Init, Loaded
  <1>2. {black, seen, offered, batch} \subseteq SUBSET Coins
    BY DEF Init, Excluded
  <1>3. venues \in [Coins -> 0 .. 2]
    BY DEF Init
  <1>4. up \in BOOLEAN /\ others \in Nat
    BY DEF Init
  <1>5. events \in Seq(Coins) /\ Len(events) =< MaxEvents
    BY DiscoveryConstants DEF Init
  <1>6. check = NoStep /\ turn = NoStep
    BY DEF Init
  <1>7. DiscoveryTypeOK
    BY <1>1, <1>2, <1>3, <1>4, <1>5, <1>6 DEF DiscoveryTypeOK
  <1>8. Agree
    BY DEF Init, Agree, Loaded, Excluded
  <1>. QED
    BY <1>7, <1>8 DEF IInv

(* The steps that change neither memory nor table keep Agree.              *)
LEMMA BookKept == ASSUME Agree, UNCHANGED book PROVE Agree'
  BY DEF Agree, book

-----------------------------------------------------------------------------
(* Types, by what a step changes.                                          *)

(* The coin of a task's step is a coin.                                    *)
LEMMA Steps ==
  ASSUME DiscoveryTypeOK
  PROVE  /\ check.pc \in {"verify", "add"} => check.coin \in Coins
         /\ turn.pc \in {"scan", "mark"} => turn.coin \in Coins
  BY DEF DiscoveryTypeOK, NoStep

LEMMA SeenTyped ==
  ASSUME NEW coins \in SUBSET Coins, NEW n \in Nat, Seen(coins, n)
  PROVE  seen' \in SUBSET Coins /\ others' \in Nat
  BY DEF Seen

LEMMA ChainTyped ==
  ASSUME DiscoveryTypeOK, NEW c \in Coins, PoolOpens(c)
  PROVE  DiscoveryTypeOK'
  <1>1. venues' \in [Coins -> 0 .. 2]
    BY DEF DiscoveryTypeOK, PoolOpens
  <1>. QED
    BY <1>1 DEF DiscoveryTypeOK, PoolOpens, book, listener, finding, trading, counts

LEMMA EditTyped ==
  ASSUME DiscoveryTypeOK, NEW c \in Coins, Edit(c)
  PROVE  DiscoveryTypeOK'
  <1>1. rows' \in [Coins -> {"none", "verified", "profitable", "blacklisted"}]
    BY DEF DiscoveryTypeOK, Edit
  <1>. QED
    BY <1>1 DEF DiscoveryTypeOK, Edit, listener, finding, trading

LEMMA ListenerTyped ==
  ASSUME DiscoveryTypeOK,
         Disconnect \/ Connect \/ OtherSwap \/ \E c \in Coins : NewSwap(c) \/ Backscan(c)
  PROVE  DiscoveryTypeOK'
  <1>1. CASE Disconnect \/ Connect
    <2>1. up' \in BOOLEAN
      BY <1>1 DEF Disconnect, Connect
    <2>2. seen' \in SUBSET Coins /\ others' \in Nat
      BY <1>1 DEF DiscoveryTypeOK, Disconnect, Connect
    <2>3. UNCHANGED <<venues, book, finding, trading>>
      BY <1>1 DEF Disconnect, Connect
    <2>. QED
      BY <2>1, <2>2, <2>3 DEF DiscoveryTypeOK, book, finding, trading
  <1>2. CASE OtherSwap
    <2>1. seen \in SUBSET Coins /\ others + 1 \in Nat
      BY DEF DiscoveryTypeOK
    <2>2. seen' \in SUBSET Coins /\ others' \in Nat
      BY <1>2, <2>1, SeenTyped DEF OtherSwap
    <2>. QED
      BY <1>2, <2>2 DEF DiscoveryTypeOK, OtherSwap, book, finding, trading, counts
  <1>3. ASSUME NEW c \in Coins, NewSwap(c)
        PROVE  DiscoveryTypeOK'
    <2>1. seen \union {c} \in SUBSET Coins /\ others \in Nat
      BY DEF DiscoveryTypeOK
    <2>2. seen' \in SUBSET Coins /\ others' \in Nat
      BY <1>3, <2>1, SeenTyped DEF NewSwap
    <2>3. offered' \in SUBSET Coins
      BY <1>3 DEF DiscoveryTypeOK, NewSwap
    <2>. QED
      BY <1>3, <2>2, <2>3 DEF DiscoveryTypeOK, NewSwap, book, trading, counts
  <1>4. ASSUME NEW c \in Coins, Backscan(c)
        PROVE  DiscoveryTypeOK'
    BY <1>4 DEF DiscoveryTypeOK, Backscan, book, listener, trading, counts
  <1>. QED
    BY <1>1, <1>2, <1>3, <1>4

LEMMA FindingTyped ==
  ASSUME DiscoveryTypeOK, Collect \/ Verify \/ \E c \in Coins : Take(c)
  PROVE  DiscoveryTypeOK'
  <1>1. CASE Collect
    BY <1>1 DEF DiscoveryTypeOK, Collect, book, listener, trading, counts
  <1>2. CASE Verify
    <2>1. check' = NoStep \/ check' \in [coin : Coins, pc : {"verify", "add"}]
      BY <1>2, Steps DEF Verify, At
    <2>. QED
      BY <1>2, <2>1 DEF DiscoveryTypeOK, Verify, book, listener, trading
  <1>3. ASSUME NEW c \in Coins, Take(c)
        PROVE  DiscoveryTypeOK'
    <2>1. check' = NoStep \/ check' \in [coin : Coins, pc : {"verify", "add"}]
      BY <1>3 DEF Take, At
    <2>2. batch' \in SUBSET Coins
      BY <1>3 DEF DiscoveryTypeOK, Take
    <2>. QED
      BY <1>3, <2>1, <2>2 DEF DiscoveryTypeOK, Take, book, listener, trading, counts
  <1>. QED
    BY <1>1, <1>2, <1>3

LEMMA TradingTyped ==
  ASSUME DiscoveryTypeOK, Receive \/ Scan \/ \E c \in Coins : ListedSwap(c)
  PROVE  DiscoveryTypeOK'
  <1>1. CASE Receive
    <2>1. /\ Head(events) \in Coins
          /\ events' \in Seq(Coins) /\ Len(events') =< MaxEvents
      BY <1>1, DiscoveryConstants DEF DiscoveryTypeOK, Receive
    <2>2. turn' = NoStep \/ turn' \in [coin : Coins, pc : {"scan", "mark"}]
      BY <1>1, <2>1 DEF Receive, At
    <2>. QED
      BY <1>1, <2>1, <2>2 DEF DiscoveryTypeOK, Receive, book, listener, finding, counts
  <1>2. CASE Scan
    <2>1. turn' = NoStep \/ turn' \in [coin : Coins, pc : {"scan", "mark"}]
      BY <1>2, Steps DEF Scan, At
    <2>. QED
      BY <1>2, <2>1 DEF DiscoveryTypeOK, Scan, book, listener, finding, counts
  <1>3. ASSUME NEW c \in Coins, ListedSwap(c)
        PROVE  DiscoveryTypeOK'
    <2>1. events' \in Seq(Coins) /\ Len(events') =< MaxEvents
      BY <1>3, DiscoveryConstants DEF DiscoveryTypeOK, ListedSwap
    <2>. QED
      BY <1>3, <2>1 DEF DiscoveryTypeOK, ListedSwap, book, listener, finding, counts
  <1>. QED
    BY <1>1, <1>2, <1>3

LEMMA BookTyped ==
  ASSUME DiscoveryTypeOK, Add \/ Mark \/ Restart
  PROVE  DiscoveryTypeOK'
  <1>1. CASE Add
    <2>1. /\ listed' \in [Coins -> {"none", "verified", "profitable"}]
          /\ rows' \in [Coins -> {"none", "verified", "profitable", "blacklisted"}]
      BY <1>1 DEF DiscoveryTypeOK, Add
    <2>2. check' = NoStep
      BY <1>1 DEF Add
    <2>. QED
      BY <1>1, <2>1, <2>2 DEF DiscoveryTypeOK, Add, listener, trading, counts
  <1>2. CASE Mark
    <2>1. /\ listed' \in [Coins -> {"none", "verified", "profitable"}]
          /\ rows' \in [Coins -> {"none", "verified", "profitable", "blacklisted"}]
      BY <1>2 DEF DiscoveryTypeOK, Mark
    <2>2. turn' = NoStep
      BY <1>2 DEF Mark
    <2>. QED
      BY <1>2, <2>1, <2>2 DEF DiscoveryTypeOK, Mark, listener, finding, counts
  <1>3. CASE Restart
    <2>1. listed' \in [Coins -> {"none", "verified", "profitable"}]
      BY <1>3 DEF DiscoveryTypeOK, Restart, Loaded
    <2>2. {black', seen', offered', batch'} \subseteq SUBSET Coins
      BY <1>3 DEF Restart, Excluded
    <2>3. up' \in BOOLEAN
      BY <1>3 DEF Restart
    <2>4. /\ others' \in Nat /\ check' = NoStep /\ turn' = NoStep
          /\ events' \in Seq(Coins) /\ Len(events') =< MaxEvents
      BY <1>3, DiscoveryConstants DEF Restart
    <2>. QED
      BY <1>3, <2>1, <2>2, <2>3, <2>4 DEF DiscoveryTypeOK, Restart
  <1>. QED
    BY <1>1, <1>2, <1>3

LEMMA StepTyped == ASSUME DiscoveryTypeOK, [Next]_vars PROVE DiscoveryTypeOK'
  <1>1. CASE UNCHANGED vars
    BY <1>1 DEF DiscoveryTypeOK, vars, book, listener, finding, trading
  <1>2. CASE Next
    BY <1>2, ChainTyped, EditTyped, ListenerTyped, FindingTyped, TradingTyped, BookTyped DEF Next
  <1>. QED
    BY <1>1, <1>2

-----------------------------------------------------------------------------
(* Agreement of memory and table.                                          *)
LEMMA StepAgrees == ASSUME IInv, [Next]_vars PROVE Agree'
  <1>. USE DEF IInv
  <1>1. CASE UNCHANGED book
    BY <1>1, BookKept
  <1>2. ASSUME NEW c \in Coins, Edit(c)
        PROVE  Agree'
    BY <1>2 DEF Edit, Agree, DiscoveryTypeOK
  <1>3. CASE Add
    BY <1>3, Steps DEF Add, Agree, DiscoveryTypeOK
  <1>4. CASE Mark
    BY <1>4, Steps DEF Mark, Agree, DiscoveryTypeOK
  <1>5. CASE Restart
    BY <1>5 DEF Restart, Agree, DiscoveryTypeOK, Loaded, Excluded
  <1>6. CASE \E c \in Coins : PoolOpens(c) \/ NewSwap(c) \/ ListedSwap(c) \/ Backscan(c) \/ Take(c)
    BY <1>6, <1>1 DEF PoolOpens, NewSwap, ListedSwap, Backscan, Take
  <1>7. CASE Disconnect \/ Connect \/ OtherSwap \/ Collect \/ Verify \/ Receive \/ Scan
    BY <1>7, <1>1 DEF Disconnect, Connect, OtherSwap, Collect, Verify, Receive, Scan
  <1>8. CASE UNCHANGED vars
    BY <1>8, <1>1 DEF vars
  <1>. QED
    BY <1>2, <1>3, <1>4, <1>5, <1>6, <1>7, <1>8 DEF Next

(* Memory and table agree but for what the operator has just blacklisted.  *)
THEOREM Inductive == Spec => []IInv
  <1>1. IInv /\ [Next]_vars => IInv'
    BY StepTyped, StepAgrees DEF IInv
  <1>. QED
    BY InitIInv, <1>1, PTL DEF Spec

(* Coins, rows, queues and steps keep their types for any set of coins.    *)
THEOREM TypeCorrect == Spec => []DiscoveryTypeOK
  <1>1. IInv => DiscoveryTypeOK
    BY DEF IInv
  <1>. QED
    BY <1>1, Inductive, PTL

-----------------------------------------------------------------------------
(* The refinement.                                                         *)
(* A coin's place in memory, the category of CoinBook.                     *)
Place(c) == IF c \in black THEN "blacklisted" ELSE listed[c]

LEMMA InitSeen == Init => Book!Init
  <1>1. Init => DiscoveryTypeOK
    BY InitIInv DEF IInv
  <1>. QED
    BY <1>1 DEF DiscoveryTypeOK, Book!Init, Book!Category

LEMMA PlacesKept ==
  ASSUME UNCHANGED <<listed, black>> PROVE UNCHANGED Book!bookVars
  BY DEF Book!bookVars

LEMMA AddSeen == ASSUME IInv, Add PROVE [Book!Next]_(Book!bookVars)
  <1>. DEFINE c == check.coin
  <1>1. c \in Coins
    BY Steps DEF IInv, Add
  <1>2. CASE listed[c] = "none" /\ c \notin black
    <2>1. listed' = [listed EXCEPT ![c] = "verified"] /\ black' = black
      BY <1>2 DEF Add
    <2>2. \A d \in Coins : listed'[d] = IF d = c THEN "verified" ELSE listed[d]
      BY <1>1, <2>1 DEF IInv, DiscoveryTypeOK
    <2>3. \A d \in Coins : Place(d)' = IF d = c THEN "verified" ELSE Place(d)
      BY <1>2, <2>1, <2>2 DEF Place
    <2>4. Book!List(c)
      BY <1>1, <1>2, <2>3 DEF Place, Book!List
    <2>5. Book!Next
      BY <1>1, <2>4 DEF Book!Next, Book!List, Book!Promote
    <2>. QED
      BY <2>5
  <1>3. CASE ~(listed[c] = "none" /\ c \notin black)
    BY <1>3, PlacesKept DEF Add
  <1>. QED
    BY <1>2, <1>3

LEMMA MarkSeen == ASSUME IInv, Mark PROVE [Book!Next]_(Book!bookVars)
  <1>. DEFINE c == turn.coin
  <1>1. c \in Coins
    BY Steps DEF IInv, Mark
  <1>2. CASE listed[c] = "verified"
    <2>1. listed' = [listed EXCEPT ![c] = "profitable"] /\ black' = black
      BY <1>2 DEF Mark
    <2>2. c \notin black
      BY <1>1, <1>2 DEF IInv, Agree
    <2>3. \A d \in Coins : listed'[d] = IF d = c THEN "profitable" ELSE listed[d]
      BY <1>1, <2>1 DEF IInv, DiscoveryTypeOK
    <2>4. \A d \in Coins : Place(d)' = IF d = c THEN "profitable" ELSE Place(d)
      BY <2>1, <2>2, <2>3 DEF Place
    <2>5. Book!Promote(c)
      BY <1>1, <1>2, <2>2, <2>4 DEF Place, Book!Promote
    <2>6. Book!Next
      BY <1>1, <2>5 DEF Book!Next, Book!List, Book!Promote
    <2>. QED
      BY <2>6
  <1>3. CASE listed[c] # "verified"
    BY <1>3, PlacesKept DEF Mark
  <1>. QED
    BY <1>2, <1>3

(* A restart reads back what memory held, less the coins excluded since.   *)
LEMMA RestartSeen == ASSUME IInv, Restart PROVE [Book!Next]_(Book!bookVars)
  <1>1. listed' = Loaded(rows) /\ black' = Excluded(rows)
    BY DEF Restart
  <1>2. \A c \in Coins :
          Place(c)' = IF c \in Excluded(rows) THEN "blacklisted" ELSE Place(c)
    BY <1>1 DEF IInv, Agree, Place, Loaded, Excluded
  <1>3. Book!Exclude(Excluded(rows))
    BY <1>2 DEF Place, Book!Exclude
  <1>4. Excluded(rows) \in SUBSET Coins
    BY DEF Excluded
  <1>5. Book!Next
    BY <1>3, <1>4 DEF Book!Next, Book!Exclude
  <1>. QED
    BY <1>5

LEMMA StepSeen == ASSUME IInv, [Next]_vars PROVE [Book!Next]_(Book!bookVars)
  <1>1. CASE UNCHANGED <<listed, black>>
    BY <1>1, PlacesKept
  <1>2. CASE \E c \in Coins : \/ PoolOpens(c) \/ Edit(c) \/ NewSwap(c) \/ ListedSwap(c)
                              \/ Backscan(c) \/ Take(c)
    BY <1>2, <1>1 DEF PoolOpens, Edit, NewSwap, ListedSwap, Backscan, Take, book
  <1>3. CASE Disconnect \/ Connect \/ OtherSwap \/ Collect \/ Verify \/ Receive \/ Scan
    BY <1>3, <1>1 DEF Disconnect, Connect, OtherSwap, Collect, Verify, Receive, Scan, book
  <1>4. CASE UNCHANGED vars
    BY <1>4, <1>1 DEF vars, book
  <1>. QED
    BY <1>2, <1>3, <1>4, AddSeen, MarkSeen, RestartSeen DEF Next

(* Whatever the tasks, the operator and the restarts do, the whitelist     *)
(* keeps the promise of CoinBook.                                          *)
THEOREM RefinesBook == Spec => KeepsBook
  <1>1. IInv /\ [Next]_vars => [Book!Next]_(Book!bookVars)
    BY StepSeen
  <1>. QED
    BY InitSeen, <1>1, Inductive, PTL DEF Spec, KeepsBook, Book!Spec
=============================================================================
