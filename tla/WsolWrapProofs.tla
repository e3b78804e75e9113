---------------------------- MODULE WsolWrapProofs ----------------------------
(***************************************************************************)
(* Proofs about WsolWrap for every configuration.  OneHolder is inductive  *)
(* with the types; FeesKept needs to know, while wraps do not overlap,     *)
(* that at most one is in flight and that it, and the one being prepared,  *)
(* leave the fees in the wallet but for what was spent since.              *)
(***************************************************************************)
EXTENDS WsolWrap, TLAPS

(* The wallet now, and what was taken from it since m. *)
Before(m) == native + (spent - m)

(* What holds of a wrap under way as long as none has overlapped another. *)
NoOverlap ==
  ~overlap =>
    /\ Before(mark) >= FeeKeep
    /\ pc = "balance" /\ ~stale => InFlight = {} /\ have =< Before(readAt)
    /\ Busy => InFlight = {} /\ want + FeeKeep =< Before(mark)
    /\ \A w \in InFlight : wraps[w].amount + FeeKeep =< Before(mark)
    /\ \A w, v \in InFlight : w = v

(* The code subtracts the balance from the requirement only when it is     *)
(* short of it, so the unsigned subtraction does not wrap.                 *)
Short == pc \in {"deficit", "balance"} => seen < Required

IInv == TypeOK /\ Short /\ OneHolder /\ NoOverlap

(* What a payment leaves is not changed by when one starts to count. *)
LEMMA NotPaid ==
  ASSUME NEW n \in Int, NEW s \in Int, NEW n1 \in Int, NEW s1 \in Int, NEW m \in Int,
         n1 + s1 >= n + s
  PROVE  n1 + (s1 - m) >= n + (s - m)
  OBVIOUS

LEMMA AtLeast ==
  ASSUME NEW x \in Int, NEW y \in Int, NEW z \in Int, x >= y, y >= z
  PROVE  x >= z
  OBVIOUS

(* A wrap never asks for more than is spare, nor for a negative amount. *)
LEMMA WrapAmountSpare ==
  ASSUME TypeOK, seen < Required, NEW b \in Nat
  PROVE  /\ WrapAmount(b) \in Nat
         /\ b >= FeeKeep => WrapAmount(b) + FeeKeep =< b
         /\ b < FeeKeep => WrapAmount(b) = 0
  BY WrapConfig DEF TypeOK, Required, WrapAmount, Lesser, Spare

LEMMA InitIInv == Init => IInv
  <1>. SUFFICES ASSUME Init PROVE IInv
    OBVIOUS
  <1>1. wsol \in Nat
    BY WrapConfig DEF Init
  <1>2. InFlight = {}
    BY DEF Init, InFlight, Unsent
  <1>3. Unsent \in [st : {"unsent", "flying", "landed", "dead"}, amount : Nat]
    BY DEF Unsent
  <1>4. wraps \in [Wraps -> [st : {"unsent", "flying", "landed", "dead"}, amount : Nat]]
    BY <1>3 DEF Init
  <1>5. flag \in BOOLEAN /\ overlap \in BOOLEAN /\ ata \in BOOLEAN /\ stale \in BOOLEAN
    BY DEF Init
  <1>6. sent \in 0 .. MaxWraps /\ trades \in 0 .. MaxTrades
    BY WrapConfig DEF Init
  <1>7. timers \in Nat /\ native \in Nat /\ spent \in Nat /\ readAt \in Nat /\ mark \in Nat
    BY WrapConfig DEF Init
  <1>8. invest \in Nat /\ seen \in Nat /\ have \in Nat /\ want \in Nat
    BY DEF Init
  <1>9. /\ pc \in {"idle", "read", "deficit", "balance", "hash", "send"}
        /\ answer \in {"none", "unread", "enough", "small", "busy", "nohash", "wrapped", "unsent"}
    BY DEF Init
  <1>10. TypeOK
    BY <1>1, <1>4, <1>5, <1>6, <1>7, <1>8, <1>9 DEF TypeOK
  <1>11. Short /\ OneHolder
    BY DEF Init, Short, OneHolder, Busy
  <1>12. NoOverlap
    BY <1>2, WrapConfig DEF Init, NoOverlap, Busy, Before
  <1>. QED
    BY <1>10, <1>11, <1>12 DEF IInv

(* A step of the call that neither claims nor sends: the wraps, the wallet *)
(* and the reads are as before.                                            *)
LEMMA NoOverlapKept ==
  ASSUME NoOverlap, UNCHANGED <<sends, wallet, reads, have, want>>,
         pc' = "balance" => pc = "balance", Busy' => Busy
  PROVE  NoOverlap'
  BY DEF NoOverlap, Before, InFlight, sends, wallet, reads

LEMMA CallStep ==
  ASSUME IInv, NEW i \in Investments, Call(i)
  PROVE  IInv'
  <1>1. NoOverlap'
    BY NoOverlapKept DEF IInv, Call, Busy
  <1>. QED
    BY <1>1, WrapConfig DEF IInv, Call, TypeOK, Short, OneHolder, Busy,
       guard, sends, wallet, reads

LEMMA ReadStep ==
  ASSUME IInv, ReadFails \/ ReadWsol
  PROVE  IInv'
  <1>1. CASE ReadFails
    <2>1. NoOverlap'
      BY <1>1, NoOverlapKept DEF IInv, ReadFails, Return, Busy
    <2>. QED
      BY <1>1, <2>1 DEF IInv, ReadFails, Return, TypeOK, Short, OneHolder, Busy,
         guard, sends, wallet, reads
  <1>2. CASE ReadWsol
    <2>1. AsLamports(wsol) \in Nat
      BY WrapConfig, SMTT(30) DEF IInv, TypeOK, AsLamports
    <2>2. Required \in Nat
      BY WrapConfig DEF IInv, TypeOK, Required
    <2>3. TypeOK'
      BY <1>2, <2>1 DEF IInv, ReadWsol, Return, TypeOK, guard, sends, wallet, reads
    <2>4. Short'
      BY <1>2, <2>1, <2>2 DEF IInv, ReadWsol, Return, Short, Required
    <2>5. OneHolder'
      BY <1>2 DEF IInv, ReadWsol, Return, TypeOK, OneHolder, Busy, guard
    <2>6. NoOverlap'
      BY <1>2, NoOverlapKept DEF IInv, ReadWsol, Return, Busy
    <2>. QED
      BY <2>3, <2>4, <2>5, <2>6 DEF IInv
  <1>. QED
    BY <1>1, <1>2

(* A balance read while nothing is in flight is there to be spent.         *)
LEMMA ReadNativeStep ==
  ASSUME IInv, ReadNative
  PROVE  IInv'
  <1>1. /\ have' \in Nat /\ have' =< native /\ native \in Nat /\ spent \in Nat
        /\ pc' = "balance" /\ pc = "deficit" /\ readAt' = spent
        /\ stale' = (InFlight # {})
        /\ UNCHANGED <<invest, seen, want, answer, guard, sends, wallet, mark>>
    BY DEF ReadNative, IInv, TypeOK
  <1>2. TypeOK'
    BY <1>1 DEF IInv, TypeOK, guard, sends, wallet
  <1>3. Short' /\ OneHolder'
    BY <1>1 DEF IInv, Short, Required, OneHolder, Busy, guard
  <1>4. Before(readAt)' = native
    BY <1>1 DEF Before, wallet
  <1>5. InFlight' = InFlight /\ Before(mark)' = Before(mark) /\ ~Busy'
    BY <1>1 DEF InFlight, Before, Busy, sends, wallet
  <1>6. NoOverlap'
    BY <1>1, <1>4, <1>5 DEF IInv, NoOverlap, sends
  <1>. QED
    BY <1>2, <1>3, <1>6 DEF IInv

(* Where the amount is computed: nothing else is in flight unless overlap  *)
(* records it, and the balance read is still there but for what was spent. *)
LEMMA DecideStep ==
  ASSUME IInv, TooSmall \/ Claim \/ AlreadyClaimed
  PROVE  IInv'
  <1>1. have \in Nat /\ pc = "balance" /\ want' = WrapAmount(have)
    BY DEF IInv, TypeOK, TooSmall, Claim, AlreadyClaimed, Decide
  <1>2. /\ WrapAmount(have) \in Nat
        /\ have >= FeeKeep => WrapAmount(have) + FeeKeep =< have
        /\ have < FeeKeep => WrapAmount(have) = 0
    BY <1>1, WrapAmountSpare DEF IInv, Short
  <1>3. CASE TooSmall \/ AlreadyClaimed
    <2>1. /\ pc' = "idle" /\ flag' = flag
          /\ answer' \in {"small", "busy"}
          /\ UNCHANGED <<invest, seen, have, wallet, stale, readAt, timers, wraps, sent,
                         overlap, mark>>
      BY <1>3 DEF TooSmall, AlreadyClaimed, Decide, Return
    <2>2. TypeOK'
      BY <1>1, <1>2, <2>1 DEF IInv, TypeOK, wallet
    <2>3. Short' /\ OneHolder'
      BY <1>1, <2>1 DEF IInv, Short, OneHolder, Busy
    <2>4. NoOverlap'
      BY <2>1 DEF IInv, NoOverlap, Busy, Before, InFlight, wallet
    <2>. QED
      BY <2>2, <2>3, <2>4 DEF IInv
  <1>4. CASE Claim
    <2>1. /\ pc' = "hash" /\ flag' = TRUE /\ flag = FALSE /\ want' >= MinWrap
          /\ overlap' = (overlap \/ stale) /\ mark' = readAt
          /\ UNCHANGED <<invest, seen, have, wallet, stale, readAt, timers, wraps, sent, answer>>
      BY <1>4 DEF Claim, Claimable, Decide, IInv, TypeOK
    <2>2. overlap' \in BOOLEAN
      BY <2>1 DEF IInv, TypeOK
    <2>3. TypeOK'
      BY <1>1, <1>2, <2>1, <2>2 DEF IInv, TypeOK, wallet
    <2>4. Short'
      BY <2>1 DEF Short
    <2>5. OneHolder'
      BY <2>1 DEF IInv, TypeOK, OneHolder, Busy
    <2>6. NoOverlap'
      <3>1. SUFFICES ASSUME ~overlap'
                     PROVE  NoOverlap'
        BY DEF NoOverlap
      <3>2. InFlight = {} /\ have =< Before(readAt)
        BY <1>1, <2>1, <3>1 DEF IInv, NoOverlap
      <3>3. InFlight' = {}
        BY <2>1, <3>2 DEF InFlight
      <3>4. Before(mark)' = Before(readAt) /\ Before(readAt) \in Int
        BY <2>1 DEF Before, wallet, IInv, TypeOK
      <3>5. want' + FeeKeep =< Before(mark)' /\ want' \in Nat
        BY <1>1, <1>2, <2>1, <3>2, <3>4, WrapConfig
      <3>6. Before(mark)' >= FeeKeep
        BY <3>4, <3>5, WrapConfig
      <3>. QED
        BY <2>1, <3>3, <3>5, <3>6 DEF NoOverlap
    <2>. QED
      BY <2>3, <2>4, <2>5, <2>6 DEF IInv
  <1>. QED
    BY <1>3, <1>4

(* A wrap enters the network while no other is in flight, or has overlapped *)
(* one already.                                                             *)
LEMMA DeliverStep ==
  ASSUME IInv, pc = "send", Deliver, pc' = "idle", UNCHANGED <<wallet, reads>>
  PROVE  /\ wraps' \in [Wraps -> [st : {"unsent", "flying", "landed", "dead"}, amount : Nat]]
         /\ sent' \in 0 .. MaxWraps
         /\ overlap' \in BOOLEAN
         /\ NoOverlap'
  <1>1. sent + 1 \in Wraps /\ sent' \in 0 .. MaxWraps
    BY WrapConfig DEF IInv, TypeOK, Deliver, Wraps
  <1>2. [st |-> "flying", amount |-> want]
          \in [st : {"unsent", "flying", "landed", "dead"}, amount : Nat]
    BY DEF IInv, TypeOK
  <1>3. wraps' \in [Wraps -> [st : {"unsent", "flying", "landed", "dead"}, amount : Nat]]
    BY <1>1, <1>2 DEF IInv, TypeOK, Deliver
  <1>4. \A w \in Wraps : w # sent + 1 => wraps'[w] = wraps[w]
    BY <1>1 DEF IInv, TypeOK, Deliver
  <1>5. wraps'[sent + 1].amount = want
    BY <1>1 DEF IInv, TypeOK, Deliver
  <1>6. NoOverlap'
    <2>1. SUFFICES ASSUME ~overlap'
                   PROVE  NoOverlap'
      BY DEF NoOverlap
    <2>2. Before(mark) >= FeeKeep /\ InFlight = {} /\ want + FeeKeep =< Before(mark)
      BY <2>1 DEF IInv, NoOverlap, Busy, Deliver
    <2>3. \A w \in InFlight' : w = sent + 1
      BY <2>2, <1>4 DEF InFlight
    <2>4. Before(mark)' = Before(mark)
      BY DEF Before, wallet, reads
    <2>. QED
      BY <2>2, <2>3, <2>4, <1>5 DEF NoOverlap, Busy
  <1>. QED
    BY <1>1, <1>3, <1>6 DEF IInv, TypeOK, Deliver

LEMMA SendStep ==
  ASSUME IInv, HashFails \/ HashArrives \/ SendAccepted \/ SendFails
  PROVE  IInv'
  <1>1. CASE HashFails \/ HashArrives
    <2>1. NoOverlap'
      BY <1>1, NoOverlapKept DEF IInv, HashFails, HashArrives, Return, Busy
    <2>. QED
      BY <1>1, <2>1 DEF IInv, HashFails, HashArrives, Return, TypeOK, Short, OneHolder,
         Busy, guard, sends, wallet, reads
  <1>2. CASE SendAccepted
    <2>1. Deliver /\ pc = "send" /\ pc' = "idle" /\ UNCHANGED <<wallet, reads>>
      BY <1>2 DEF SendAccepted, Return
    <2>2. TypeOK' /\ NoOverlap'
      BY <1>2, <2>1, DeliverStep DEF SendAccepted, Return, IInv, TypeOK, wallet, reads
    <2>3. OneHolder' /\ Short'
      BY <1>2 DEF SendAccepted, Return, IInv, TypeOK, OneHolder, Short, Busy
    <2>. QED
      BY <2>2, <2>3 DEF IInv
  <1>3. CASE SendFails
    <2>1. pc = "send" /\ pc' = "idle" /\ UNCHANGED <<wallet, reads>>
      BY <1>3 DEF SendFails, Return
    <2>4. /\ wraps' \in [Wraps -> [st : {"unsent", "flying", "landed", "dead"}, amount : Nat]]
          /\ sent' \in 0 .. MaxWraps
          /\ overlap' \in BOOLEAN
          /\ NoOverlap'
      <3>1. CASE Deliver
        BY <2>1, <3>1, DeliverStep
      <3>2. CASE UNCHANGED sends
        <4>1. UNCHANGED <<have, want>> /\ ~Busy'
          BY <1>3, <2>1 DEF SendFails, Busy
        <4>. QED
          BY <2>1, <3>2, <4>1, NoOverlapKept DEF IInv, TypeOK, sends
      <3>. QED
        BY <1>3, <3>1, <3>2 DEF SendFails
    <2>5. TypeOK'
      BY <1>3, <2>4 DEF SendFails, Return, IInv, TypeOK, wallet, reads
    <2>6. OneHolder' /\ Short'
      BY <1>3 DEF SendFails, Return, IInv, TypeOK, OneHolder, Short, Busy
    <2>. QED
      BY <2>4, <2>5, <2>6 DEF IInv
  <1>. QED
    BY <1>1, <1>2, <1>3

LEMMA TimerStep ==
  ASSUME IInv, TimerFires
  PROVE  IInv'
  <1>1. flag' = FALSE /\ timers' = 0 /\ ~Busy
    <2>1. timers \in Nat /\ timers > 0 /\ timers =< 1
      BY DEF IInv, TimerFires, TypeOK, OneHolder
    <2>2. timers = 1
      BY <2>1
    <2>3. ~Busy
      BY <2>2 DEF IInv, OneHolder
    <2>. QED
      BY <2>2, <2>3 DEF TimerFires
  <1>2. flag' \in BOOLEAN
    BY <1>1
  <1>3. UNCHANGED <<call, sends, wallet, reads>>
    BY DEF TimerFires
  <1>4. TypeOK'
    BY <1>1, <1>3, <1>2 DEF IInv, TypeOK, call, sends, wallet, reads
  <1>5. OneHolder'
    BY <1>1, <1>3 DEF OneHolder, Busy, call
  <1>6. Short'
    BY <1>3 DEF IInv, Short, Required, call
  <1>7. NoOverlap'
    BY <1>3, NoOverlapKept DEF IInv, Busy, call
  <1>. QED
    BY <1>4, <1>5, <1>6, <1>7 DEF IInv

(* A wrap that lands is, without overlap, the only one, and nobody is      *)
(* preparing another: its amount leaves the fees.                          *)
LEMMA NetworkStep ==
  ASSUME IInv, NEW w \in Wraps, Land(w) \/ Revert(w) \/ Expire(w)
  PROVE  IInv'
  <1>1. PICK end \in {"landed", "dead"} : Conclude(w, end)
    BY DEF Land, Revert, Expire
  <1>2. /\ w \in InFlight /\ InFlight \subseteq Wraps
        /\ InFlight' = InFlight \ {w}
        /\ \A v \in Wraps : wraps'[v].amount = wraps[v].amount
        /\ wraps' \in [Wraps -> [st : {"unsent", "flying", "landed", "dead"}, amount : Nat]]
    BY <1>1 DEF Conclude, InFlight, IInv, TypeOK
  <1>3. /\ native \in Nat /\ spent \in Nat /\ wsol \in Nat /\ wraps[w].amount \in Nat
        /\ mark \in Nat /\ readAt \in Nat
    BY DEF IInv, TypeOK
  <1>4. /\ native' \in Nat /\ spent' \in Nat /\ wsol' \in Nat
        /\ native' + spent' =< native + spent
        /\ native' + spent' >= (native - wraps[w].amount) + spent
    BY <1>3, WrapConfig DEF Land, Revert, Expire
  <1>5. TypeOK'
    BY <1>1, <1>2, <1>4 DEF Conclude, IInv, TypeOK, call, guard, reads
  <1>6. Short' /\ OneHolder'
    BY <1>1 DEF Conclude, IInv, Short, OneHolder, Busy, Required, call, guard
  <1>7. NoOverlap'
    <2>1. SUFFICES ASSUME ~overlap'
                   PROVE  NoOverlap'
      BY DEF NoOverlap
    <2>2. ~overlap
      BY <1>1, <2>1 DEF Conclude
    <2>3. /\ ~Busy /\ InFlight' = {} /\ ~(pc = "balance" /\ ~stale)
          /\ wraps[w].amount + FeeKeep =< Before(mark)
      BY <2>2, <1>2 DEF IInv, NoOverlap
    <2>4. Before(mark)' >= FeeKeep
      <3>1. mark' = mark
        BY <1>1 DEF Conclude, reads
      <3>2. wraps[w].amount + FeeKeep =< native + (spent - mark)
        BY <2>3 DEF Before
      <3>3. /\ native \in Int /\ spent \in Int /\ native' \in Int /\ spent' \in Int
            /\ wraps[w].amount \in Int /\ FeeKeep \in Int /\ mark \in Int
        BY <1>3, <1>4, WrapConfig
      <3>4. native' + (spent' - mark) >= FeeKeep
        <4>1. native - wraps[w].amount \in Int
          BY <3>3
        <4>2. native' + (spent' - mark) >= (native - wraps[w].amount) + (spent - mark)
          BY <1>4, <3>3, <4>1, NotPaid, Zenon
        <4>3. (native - wraps[w].amount) + (spent - mark) >= FeeKeep
          BY <3>2, <3>3
        <4>4. /\ native' + (spent' - mark) \in Int
              /\ (native - wraps[w].amount) + (spent - mark) \in Int
          BY <3>3
        <4>. QED
          BY <3>3, <4>2, <4>3, <4>4, AtLeast, Zenon
      <3>. QED
        BY <3>1, <3>4 DEF Before
    <2>5. ~Busy' /\ ~(pc = "balance" /\ ~stale)'
      BY <1>1, <2>3 DEF Conclude, Busy, call, reads
    <2>. QED
      BY <2>3, <2>4, <2>5 DEF NoOverlap
  <1>. QED
    BY <1>5, <1>6, <1>7 DEF IInv

(* What a trade takes is spent. *)
LEMMA TradeStep ==
  ASSUME IInv, NEW cost \in Costs, Trade(cost)
  PROVE  IInv'
  <1>1. /\ native \in Nat /\ spent \in Nat /\ wsol \in Nat /\ mark \in Nat /\ readAt \in Nat
        /\ cost \in Nat /\ have \in Nat /\ want \in Nat
    BY WrapConfig DEF IInv, TypeOK
  <1>2. /\ native' \in Nat /\ spent' \in Nat /\ wsol' \in Nat
        /\ native' + spent' >= native + spent
    <2>1. CASE wsol' \in 0 .. wsol + 1 /\ native' = native - cost
      BY <1>1, <2>1 DEF Trade
    <2>2. CASE native' = native - cost + wsol /\ wsol' = 0
      BY <1>1, <2>2 DEF Trade
    <2>. QED
      BY <2>1, <2>2 DEF Trade
  <1>3. ata' \in BOOLEAN
    <2>1. ata \in BOOLEAN
      BY DEF IInv, TypeOK
    <2>2. ata' = ata \/ ata' = FALSE
      BY DEF Trade
    <2>. QED
      BY <2>1, <2>2, Zenon
  <1>4. trades' \in 0 .. MaxTrades
    BY WrapConfig DEF Trade, IInv, TypeOK
  <1>5. UNCHANGED <<call, guard, sends, reads>>
    BY DEF Trade
  <1>6. TypeOK'
    BY <1>2, <1>3, <1>4, <1>5 DEF IInv, TypeOK, call, guard, sends, reads
  <1>7. Short' /\ OneHolder'
    BY <1>5 DEF IInv, Short, OneHolder, Busy, Required, call, guard
  <1>8. InFlight' = InFlight /\ InFlight \subseteq Wraps
    BY <1>5 DEF InFlight, sends
  <1>9. \A w \in InFlight : wraps[w].amount \in Nat
    BY <1>8 DEF IInv, TypeOK
  <1>10. /\ Before(mark) \in Int /\ Before(mark)' \in Int /\ Before(mark)' >= Before(mark)
         /\ Before(readAt) \in Int /\ Before(readAt)' \in Int
         /\ Before(readAt)' >= Before(readAt)
    <2>1. mark' = mark /\ readAt' = readAt
      BY <1>5 DEF reads
    <2>2. /\ native \in Int /\ spent \in Int /\ native' \in Int /\ spent' \in Int
          /\ mark \in Int /\ readAt \in Int
      BY <1>1, <1>2
    <2>3. /\ native' + (spent' - mark) >= native + (spent - mark)
          /\ native' + (spent' - readAt) >= native + (spent - readAt)
      BY <1>2, <2>2, NotPaid, Zenon
    <2>4. /\ Before(mark) = native + (spent - mark)
          /\ Before(mark)' = native' + (spent' - mark)
          /\ Before(readAt) = native + (spent - readAt)
          /\ Before(readAt)' = native' + (spent' - readAt)
      BY <2>1 DEF Before
    <2>5. /\ native + (spent - mark) \in Int /\ native' + (spent' - mark) \in Int
          /\ native + (spent - readAt) \in Int /\ native' + (spent' - readAt) \in Int
      BY <2>2
    <2>. QED
      BY <2>3, <2>4, <2>5, Zenon
  <1>11. NoOverlap'
    <2>1. SUFFICES ASSUME ~overlap'
                   PROVE  NoOverlap'
      BY DEF NoOverlap
    <2>2. ~overlap
      BY <1>5, <2>1 DEF sends
    <2>. HIDE DEF Before
    <2>3. Before(mark)' >= FeeKeep
      BY <1>10, <2>2, WrapConfig DEF IInv, NoOverlap
    <2>4. (pc = "balance" /\ ~stale => InFlight = {} /\ have =< Before(readAt))'
      BY <1>1, <1>5, <1>8, <1>10, <2>2 DEF IInv, NoOverlap, call, reads
    <2>5. (Busy => InFlight = {} /\ want + FeeKeep =< Before(mark))'
      BY <1>1, <1>5, <1>8, <1>10, <2>2, WrapConfig DEF IInv, NoOverlap, Busy, call
    <2>6. \A w \in InFlight : wraps[w].amount + FeeKeep =< Before(mark)'
      BY <1>9, <1>10, <2>2, WrapConfig DEF IInv, NoOverlap
    <2>. QED
      BY <1>5, <1>8, <2>2, <2>3, <2>4, <2>5, <2>6 DEF IInv, NoOverlap, sends
  <1>. QED
    BY <1>6, <1>7, <1>11 DEF IInv

LEMMA NextIInv == IInv /\ [Next]_vars => IInv'
  <1>. SUFFICES ASSUME IInv, [Next]_vars PROVE IInv'
    OBVIOUS
  <1>1. ASSUME NEW i \in Investments, Call(i) PROVE IInv'
    BY <1>1, CallStep
  <1>2. CASE ReadFails \/ ReadWsol
    BY <1>2, ReadStep
  <1>3. CASE ReadNative \/ TooSmall \/ Claim \/ AlreadyClaimed
    BY <1>3, ReadNativeStep, DecideStep
  <1>4. CASE HashFails \/ HashArrives \/ SendAccepted \/ SendFails
    BY <1>4, SendStep
  <1>5. CASE TimerFires
    BY <1>5, TimerStep
  <1>6. ASSUME NEW w \in Wraps, Land(w) \/ Revert(w) \/ Expire(w) PROVE IInv'
    BY <1>6, NetworkStep
  <1>7. ASSUME NEW cost \in Costs, Trade(cost) PROVE IInv'
    BY <1>7, TradeStep
  <1>8. CASE UNCHANGED vars
    <2>1. NoOverlap'
      BY <1>8, NoOverlapKept DEF IInv, Busy, vars, call
    <2>. QED
      BY <1>8, <2>1 DEF IInv, TypeOK, Short, OneHolder, Busy, Required,
         vars, call, guard, sends, wallet, reads
  <1>. QED
    BY <1>1, <1>2, <1>3, <1>4, <1>5, <1>6, <1>7, <1>8 DEF Next, EnsureStep

(* Every step of a call, the timer, the network and the trades keeps the   *)
(* holder of the flag and the fees of the wraps under way.                 *)
THEOREM Inductive == Spec => []IInv
  BY InitIInv, NextIInv, PTL DEF Spec

(* Every reachable state has its types; in particular the unsigned         *)
(* subtractions of ensure_wsol_balance never wrap.                         *)
THEOREM TypeCorrect == Spec => []TypeOK
  <1>1. IInv => TypeOK
    BY DEF IInv
  <1>. QED
    BY <1>1, Inductive, PTL

(* WRAP_IN_FLIGHT has one holder: no timer clears it under a later call.   *)
THEOREM Exclusive == Spec => []OneHolder
  <1>1. IInv => OneHolder
    BY DEF IInv
  <1>. QED
    BY <1>1, Inductive, PTL

(* However trades and wraps spend from the wallet that ensure_wsol_balance *)
(* has read, a wrap leaves the reserve but for what was spent since;       *)
(* unless it rests on a balance that the wrap before it was about to take. *)
THEOREM FeesSafe == Spec => []FeesKept
  <1>1. IInv => FeesKept
    BY DEF IInv, NoOverlap, FeesKept, Before
  <1>. QED
    BY <1>1, Inductive, PTL
=============================================================================
