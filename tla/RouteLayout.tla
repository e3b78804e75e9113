------------------------------ MODULE RouteLayout ------------------------------
(***************************************************************************)
(* The account list of a routed trade: laid out by the client              *)
(* (executor/atomic: onchain_router.rs, generic_route.rs), compiled,       *)
(* perhaps recompiled with a tip, signed, parsed by position by the router *)
(* program (programs/arbitrage) and handed on, leg by leg, to an exchange. *)
(* Nothing names an account on the way: only its position does.  A key is  *)
(* a string; prices, balances and instruction data that is not about the   *)
(* layout are in TradeTransaction and RouteQuote.  The exchanges are       *)
(* external: they want the accounts the comments of cpi/*.rs list.         *)
(***************************************************************************)
EXTENDS Naturals, Sequences, FiniteSets

CONSTANTS
  Coins,     (* the coins traded, with their pools: see Coin               *)
  Tables,    (* contents the lookup table may have                         *)
  Senders    (* values sender_enabled may have                             *)

Exchange == {"pumpswap", "dlmm", "cpmm", "whirlpool"}

Coin ==
  [ prog     : {"tokenkeg", "token22"},  (* token program of the mint      *)
    cashback : BOOLEAN,                  (* is_cashback_coin               *)
    creator  : BOOLEAN,                  (* coin_creator is set            *)
    bitmap   : BOOLEAN,                  (* the pair has a bitmap extension*)
    solIsX   : BOOLEAN,                  (* SOL is token_x of the DLMM pair*)
    solIsA   : BOOLEAN,                  (* SOL is token_x of the Whirlpool*)
    bins     : 0 .. 6 ]                  (* bin arrays known of the pair   *)

ASSUME CoinsAreCoins == Coins \subseteq Coin /\ Senders \subseteq BOOLEAN

Optional(b, s) == IF b THEN s ELSE <<>>
Least(a, b) == IF a < b THEN a ELSE b

Ata == [sol |-> "user_sol_ata", meme |-> "user_meme_ata"]
Mint == [sol |-> "sol_mint", meme |-> "meme_mint"]
Other(side) == IF side = "sol" THEN "meme" ELSE "sol"
Program(c) == [sol |-> "tokenkeg", meme |-> c.prog]

(* What a leg takes and gives. *)
In(leg) == IF leg = "buy" THEN "sol" ELSE "meme"
Out(leg) == Other(In(leg))

X(c) == IF c.solIsX THEN "sol" ELSE "meme"
Y(c) == Other(X(c))

-----------------------------------------------------------------------------
(* The client: sections.  Broken variants, here and below, stand before    *)
(* the definition they would replace.                                      *)

Shared == <<"wallet", "user_sol_ata", "user_meme_ata">>

PumpHead(c) ==
  << "pump_pool", "wallet", "global_config", "meme_mint", "sol_mint", "user_meme_ata",
     "user_sol_ata", "pool_base", "pool_quote", "fee_recipient", "fee_ata", c.prog,
     "tokenkeg", "system", "ata_program", "pump_event_auth", "pumpswap", "vault_ata",
     "vault_auth" >>

Buyback == <<"buyback", "buyback_ata">>

PumpBuy(c) ==
  PumpHead(c) \o <<"global_vol", "user_vol", "fee_config", "fee_program">>
    \o Optional(c.cashback, <<"cashback_ata">>)
    \o Optional(c.creator, <<"pool_v2">>) \o Buyback

PumpSell(c) ==
  PumpHead(c) \o <<"fee_config", "fee_program">>
    \o Optional(c.cashback, <<"cashback_ata", "user_vol">>)
    \o Optional(c.creator, <<"pool_v2">>) \o Buyback

Count(b, n) == IF b THEN n ELSE 0
BuyRemaining(c) == 2 + Count(c.cashback, 1) + Count(c.creator, 1)

SellRemainingAsBuy(c) == BuyRemaining(c)
SellRemaining(c) == 2 + Count(c.cashback, 2) + Count(c.creator, 1)

DlmmFixed(c) ==
  << "dlmm", "lb_pair", IF c.bitmap THEN "bitmap" ELSE "dlmm", "reserve_x", "reserve_y",
     "dlmm_oracle", "dlmm", "memo", "dlmm_event_auth" >>

BinsKept(c) == Least(c.bins, 5)
Bins(c) == SubSeq(<<"bin1", "bin2", "bin3", "bin4", "bin5", "bin6">>, 1, BinsKept(c))

DlmmSection(c) == DlmmFixed(c) \o Bins(c)

(* dlmm_section_data takes token_x for SOL's side, whichever it is. *)
GenericDlmm(c) ==
  DlmmFixed(c) \o <<Mint[X(c)], Mint[Y(c)], "tokenkeg", c.prog>> \o Bins(c)

GenericPumpSell(c) == PumpSell(c) \o <<"system", "system">>

CpmmVault == [sol |-> "cpmm_sol_vault", meme |-> "cpmm_meme_vault"]

Cpmm(from, to) ==
  << "cpmm", "cpmm_auth", "amm_config", "cpmm_pool", Ata[from], Ata[to],
     CpmmVault[from], CpmmVault[to], Mint[from], Mint[to], "tokenkeg", "token22", "memo" >>

Whirlpool(from, to) ==
  << "whirlpool", "wp_auth", "wp_pool", Ata[from], "wp_vault_a", Ata[to], "wp_vault_b",
     "tick1", "tick2", "tick3", "wp_oracle", "tokenkeg" >>

GenericSection(ex, leg, c) ==
  CASE ex = "pumpswap" -> IF leg = "buy" THEN PumpBuy(c) ELSE GenericPumpSell(c)
    [] ex = "dlmm" -> GenericDlmm(c)
    [] ex = "cpmm" -> Cpmm(In(leg), Out(leg))
    [] ex = "whirlpool" -> Whirlpool(In(leg), Out(leg))

(* Accounts some section pushes with AccountMeta::new; all else is         *)
(* readonly.  The key of the DLMM program is writable as host_fee_in.      *)
Writes ==
  { "wallet", "user_sol_ata", "user_meme_ata", "pump_pool", "pool_base", "pool_quote",
    "fee_ata", "vault_ata", "user_vol", "cashback_ata", "buyback_ata",
    "dlmm", "lb_pair", "bitmap", "reserve_x", "reserve_y", "dlmm_oracle",
    "bin1", "bin2", "bin3", "bin4", "bin5", "cpmm_pool", "cpmm_sol_vault",
    "cpmm_meme_vault", "wp_pool", "wp_vault_a", "wp_vault_b", "tick1", "tick2", "tick3" }

(* The Whirlpool section marks a program-derived account as a signer. *)
Signs == {"wallet", "wp_auth"}
-----------------------------------------------------------------------------
(* The client: instructions.  data: the discriminator, the two counts at   *)
(* offsets 34 and 35, and the unit of the amount at offset 24.             *)

Keys(s) == {s[i] : i \in 1 .. Len(s)}

PumpToDlmm(c) ==
  [ keys |-> Shared \o PumpBuy(c) \o DlmmSection(c),
    sell |-> Len(Shared \o PumpBuy(c)),
    data |-> [disc |-> "pump_to_dlmm", n34 |-> BuyRemaining(c), n35 |-> BinsKept(c),
              floor |-> "meme"] ]

DlmmToPumpWith(c, floor) ==
  [ keys |-> Shared \o DlmmSection(c) \o PumpSell(c),
    sell |-> Len(Shared \o DlmmSection(c)),
    data |-> [disc |-> "dlmm_to_pump", n34 |-> SellRemaining(c), n35 |-> BinsKept(c),
              floor |-> floor] ]

DlmmToPumpFloor(c) == DlmmToPumpWith(c, "meme")

(* min_sol_out = 1 stands where the other routes have their token floor. *)
DlmmToPump(c) == DlmmToPumpWith(c, "one")

RemainingSentAll(ex, c) ==
  CASE ex = "pumpswap" -> BuyRemaining(c) [] ex = "dlmm" -> c.bins [] OTHER -> 0

(* pumpswap_section_data counts for a buy; a sell is sent with that count. *)
RemainingSent(ex, c) ==
  CASE ex = "pumpswap" -> BuyRemaining(c)
    [] ex = "dlmm" -> BinsKept(c)
    [] OTHER -> 0

Generic(r, c) ==
  LET front == Shared \o GenericSection(r.buy, "buy", c)
  IN [ keys |-> front \o GenericSection(r.sell, "sell", c),
       sell |-> Len(front),
       data |-> [disc |-> "route", n34 |-> RemainingSent(r.buy, c),
                 n35 |-> RemainingSent(r.sell, c), floor |-> "meme"] ]

Route == {r \in [buy : Exchange, sell : Exchange] : r.buy # r.sell}
Dedicated(r) == {r.buy, r.sell} = {"pumpswap", "dlmm"}

Instruction(r, c) ==
  IF Dedicated(r)
    THEN IF r.buy = "pumpswap" THEN PumpToDlmm(c) ELSE DlmmToPump(c)
    ELSE Generic(r, c)

(* whirlpool_section_data insists on SOL as token_x. *)
Buildable(r, c) == "whirlpool" \in {r.buy, r.sell} => c.solIsA
-----------------------------------------------------------------------------
VARIABLES
  stage,   (* idle, built, compiled, signed, checked, bought, done, refused*)
  by,      (* who refused: nobody, client, panic, router, buy leg, sell leg*)
  route,
  coin,
  sender,  (* sender_enabled: the transaction gets a tip                   *)
  ix       (* the instruction: keys, and what else Instruction returns     *)

layoutVars == <<stage, by, route, coin, sender, ix>>

At(i) == ix.keys[i + 1]           (* accounts[i] *)
UserAta(side) == At(IF side = "sol" THEN 1 ELSE 2)
Slice(i, n) == SubSeq(ix.keys, i + 1, i + n)
Size == Len(ix.keys)

NoIx == [keys |-> <<>>, sell |-> 0, data |-> [disc |-> "route", n34 |-> 0, n35 |-> 0,
                                              floor |-> "meme"]]

LayoutInit ==
  /\ stage = "idle"
  /\ by = "nobody"
  /\ route \in Route
  /\ coin \in Coins
  /\ sender \in Senders
  /\ ix = NoIx

Refuse(who) ==
  /\ stage' = "refused"
  /\ by' = who
  /\ UNCHANGED <<route, coin, sender, ix>>

Go(next) ==
  /\ stage' = next
  /\ UNCHANGED <<by, route, coin, sender, ix>>

Build ==
  /\ stage = "idle"
  /\ Buildable(route, coin)
  /\ ix' = Instruction(route, coin)
  /\ stage' = "built"
  /\ UNCHANGED <<by, route, coin, sender>>

CannotBuild ==
  /\ stage = "idle"
  /\ ~Buildable(route, coin)
  /\ Refuse("client")

(* v0::Message::try_compile replaces the keys the table holds, but for     *)
(* signers, by places: writable ones before readonly ones, among them in   *)
(* the order of their bytes, which is any.                                 *)
Looked(table) == (Keys(ix.keys) \ Signs) \cap Keys(table)

Places(table) ==
  LET looked == Looked(table)
  IN {p \in [looked -> 1 .. Cardinality(looked)] :
        \A k, l \in looked :
          /\ p[k] = p[l] => k = l
          /\ k \in Writes /\ l \notin Writes => p[k] < p[l]}

(* inject_jito_tip reads the compiled message back with the table's        *)
(* addresses, in the table's order, where the looked up keys stood, and    *)
(* compiles again.                                                         *)
TableOrder(table, p) == [k \in DOMAIN p |-> table[p[k]]]

Reread(table, p) ==
  [i \in DOMAIN ix.keys |->
     IF ix.keys[i] \in DOMAIN p THEN TableOrder(table, p)[ix.keys[i]] ELSE ix.keys[i]]

Compile ==
  /\ stage = "built"
  /\ ~sender
  /\ Go("compiled")

CompileWithTip(table) ==
  /\ stage = "built"
  /\ sender
  /\ \E p \in Places(table) : ix' = [ix EXCEPT !.keys = Reread(table, p)]
  /\ stage' = "compiled"
  /\ UNCHANGED <<by, route, coin, sender>>

(* The table could not be read: no addresses, and an index beyond the keys.*)
CannotReread(table) ==
  /\ stage = "built"
  /\ sender
  /\ Looked(table) # {}
  /\ Refuse("panic")

(* try_new has the wallet's key and no other. *)
Sign ==
  /\ stage = "compiled"
  /\ IF Keys(ix.keys) \cap Signs = {"wallet"} THEN Go("signed") ELSE Refuse("client")
-----------------------------------------------------------------------------
(* The router: sections *)

BuyBase == 3
FixedLen(ex) ==
  CASE ex = "pumpswap" -> 23 [] ex = "dlmm" -> 13 [] ex = "cpmm" -> 13 [] ex = "whirlpool" -> 12

(* The program id is first in a section, or seventeenth in PumpSwap's. *)
Identify(base) ==
  CASE base < Size /\ At(base) \in Exchange -> At(base)
    [] base + 16 < Size /\ At(base) \notin Exchange /\ At(base + 16) \in Exchange -> At(base + 16)
    [] OTHER -> "none"

BuyKind == Identify(BuyBase)

SellBase ==
  CASE ix.data.disc = "pump_to_dlmm" -> BuyBase + 23 + ix.data.n34
    [] ix.data.disc = "dlmm_to_pump" -> BuyBase + 9 + ix.data.n35
    [] OTHER -> BuyBase + FixedLen(BuyKind) + ix.data.n34

SellKind == Identify(SellBase)

PumpChecks(b) ==
  /\ At(b + 16) = "pumpswap"
  /\ At(b + 2) = "global_config"
  /\ At(b + 15) = "pump_event_auth"

(* What the dedicated handlers check beyond the generic one. *)
PumpStrict(b, feeProgram, feeConfig) ==
  /\ PumpChecks(b)
  /\ At(b + 4) = "sol_mint"
  /\ At(b + 12) = "tokenkeg"
  /\ At(b + 13) = "system"
  /\ At(b + 14) = "ata_program"
  /\ At(b + feeProgram) = "fee_program"
  /\ At(b + feeConfig) = "fee_config"

DlmmChecks(b, bins) ==
  /\ bins \in 1 .. 6
  /\ At(b) = "dlmm"
  /\ At(b + 1) = "lb_pair"
  /\ At(b + 5) = "dlmm_oracle"
  /\ At(b + 7) = "memo"
  /\ At(b + 8) = "dlmm_event_auth"

CpmmChecks(b) ==
  /\ At(b) = "cpmm"
  /\ At(b + 1) = "cpmm_auth"
  /\ At(b + 3) = "cpmm_pool"
  /\ {At(b + 10), At(b + 11)} \subseteq {"tokenkeg", "token22"}
  /\ At(b + 12) = "memo"

WhirlpoolChecks(b, ticks) ==
  /\ ticks \in 1 .. 3
  /\ At(b) = "whirlpool"
  /\ At(b + 1) = "wp_auth"
  /\ At(b + 2) = "wp_pool"
  /\ At(b + 10) = "wp_oracle"
  /\ At(b + 11) \in {"tokenkeg", "token22"}

SectionChecks(ex, b, n) ==
  CASE ex = "pumpswap" -> PumpChecks(b)
    [] ex = "dlmm" -> DlmmChecks(b, n)
    [] ex = "cpmm" -> CpmmChecks(b)
    [] ex = "whirlpool" -> WhirlpoolChecks(b, n)

PumpToDlmmChecks ==
  /\ ix.data.n34 <= 5 /\ ix.data.n35 \in 1 .. 6
  /\ Size >= SellBase + 9 + ix.data.n35
  /\ PumpStrict(BuyBase, 22, 21)
  /\ DlmmChecks(SellBase, ix.data.n35)

DlmmToPumpChecks ==
  /\ ix.data.n34 <= 5 /\ ix.data.n35 \in 1 .. 6
  /\ Size >= SellBase + 21 + ix.data.n34
  /\ DlmmChecks(BuyBase, ix.data.n35)
  /\ PumpStrict(SellBase, 20, 19)

GenericChecks ==
  /\ BuyKind # "none" /\ SellKind # "none" /\ BuyKind # SellKind
  /\ Size >= SellBase + FixedLen(SellKind) + ix.data.n35
  /\ SectionChecks(BuyKind, BuyBase, ix.data.n34)
  /\ SectionChecks(SellKind, SellBase, ix.data.n35)

Check ==
  /\ stage = "signed"
  /\ IF CASE ix.data.disc = "pump_to_dlmm" -> PumpToDlmmChecks
          [] ix.data.disc = "dlmm_to_pump" -> DlmmToPumpChecks
          [] ix.data.disc = "route" -> GenericChecks
       THEN Go("checked")
       ELSE Refuse("router")
-----------------------------------------------------------------------------
(* The router: calls.  A call names accounts and those it writes; the      *)
(* runtime refuses one that writes what the transaction may only read.     *)

PumpCall(b, fixed, n, slots) ==
  [keys |-> Slice(b, fixed + n), writes |-> {At(b + i) : i \in slots}]

PumpBuyCall(b, n) == PumpCall(b, 23, n, {0, 1, 5, 6, 7, 8, 10, 17, 20})
PumpSellCall(b, n) == PumpCall(b, 21, n, {0, 1, 5, 6, 7, 8, 10, 17})

(* build_swap2: x and y are the places of each token's mint and program. *)
DlmmCall(b, leg, x, y, xProg, yProg, bins) ==
  [ keys |-> << At(b + 1), At(b + 2), At(b + 3), At(b + 4), UserAta(In(leg)), UserAta(Out(leg)),
                At(x), At(y), At(b + 5), At(b + 6), At(0), At(xProg), At(yProg),
                At(b + 7), At(b + 8), At(b) >> \o Slice(b + 9, bins),
    writes |-> {At(b + i) : i \in 1 .. 6} \cup {At(1), At(2)} \cup Keys(Slice(b + 9, bins)) ]

(* The dedicated routes find mints and token programs in PumpSwap's section*)
DlmmCallDedicated(b, leg, pump) ==
  LET mint == [sol |-> pump + 4, meme |-> pump + 3]
      prog == [sol |-> pump + 12, meme |-> pump + 11]
  IN DlmmCall(b, leg, mint[X(coin)], mint[Y(coin)], prog[X(coin)], prog[Y(coin)], ix.data.n35)

DlmmCallGeneric(b, leg, bins) == DlmmCall(b, leg, b + 9, b + 10, b + 11, b + 12, bins)

CpmmCall(b, leg) ==
  [ keys |-> << At(0), At(b + 1), At(b + 2), At(b + 3), UserAta(In(leg)), UserAta(Out(leg)),
                At(b + 6), At(b + 7), At(b + 8), At(b + 9), At(b + 10), At(b + 11), At(b + 12) >>,
    writes |-> {At(0), At(b + 3), At(1), At(2), At(b + 6), At(b + 7)} ]

WhirlpoolCall(b, leg, ticks) ==
  [ keys |-> << At(b + 11), At(b + 1), At(b + 2), UserAta(In(leg)), At(b + 4), UserAta(Out(leg)),
                At(b + 6) >> \o Slice(b + 7, Least(ticks, 3)) \o <<At(b + 10)>>,
    writes |-> {At(b + 2), At(1), At(b + 4), At(2), At(b + 6)}
                 \cup Keys(Slice(b + 7, Least(ticks, 3))) ]

GenericCall(ex, leg, b, n) ==
  CASE ex = "pumpswap" -> IF leg = "buy" THEN PumpBuyCall(b, n) ELSE PumpSellCall(b, n)
    [] ex = "dlmm" -> DlmmCallGeneric(b, leg, n)
    [] ex = "cpmm" -> CpmmCall(b, leg)
    [] ex = "whirlpool" -> WhirlpoolCall(b, leg, n)

BuyCall ==
  CASE ix.data.disc = "pump_to_dlmm" -> PumpBuyCall(BuyBase, ix.data.n34)
    [] ix.data.disc = "dlmm_to_pump" -> DlmmCallDedicated(BuyBase, "buy", SellBase)
    [] OTHER -> GenericCall(BuyKind, "buy", BuyBase, ix.data.n34)

SellCall ==
  CASE ix.data.disc = "pump_to_dlmm" -> DlmmCallDedicated(SellBase, "sell", BuyBase)
    [] ix.data.disc = "dlmm_to_pump" -> PumpSellCall(SellBase, ix.data.n34)
    [] OTHER -> GenericCall(SellKind, "sell", SellBase, ix.data.n35)
-----------------------------------------------------------------------------
(* The exchanges: what each wants of a leg (cpi/*.rs) *)

PumpWants(leg, c) ==
  << "pump_pool", "wallet", "global_config", "meme_mint", "sol_mint", "user_meme_ata",
     "user_sol_ata", "pool_base", "pool_quote", "fee_recipient", "fee_ata", c.prog,
     "tokenkeg", "system", "ata_program", "pump_event_auth", "pumpswap", "vault_ata",
     "vault_auth" >>
    \o Optional(leg = "buy", <<"global_vol", "user_vol">>) \o <<"fee_config", "fee_program">>
    \o Optional(c.cashback, <<"cashback_ata">>)
    \o Optional(c.cashback /\ leg = "sell", <<"user_vol">>)
    \o Optional(c.creator, <<"pool_v2">>) \o <<"buyback", "buyback_ata">>

DlmmWants(leg, c) ==
  << "lb_pair", IF c.bitmap THEN "bitmap" ELSE "dlmm", "reserve_x", "reserve_y",
     Ata[In(leg)], Ata[Out(leg)], Mint[X(c)], Mint[Y(c)], "dlmm_oracle", "dlmm", "wallet",
     Program(c)[X(c)], Program(c)[Y(c)], "memo", "dlmm_event_auth", "dlmm" >> \o Bins(c)

CpmmWants(leg, c) ==
  << "wallet", "cpmm_auth", "amm_config", "cpmm_pool", Ata[In(leg)], Ata[Out(leg)],
     CpmmVault[In(leg)], CpmmVault[Out(leg)], Mint[In(leg)], Mint[Out(leg)],
     Program(c)[In(leg)], Program(c)[Out(leg)], "memo" >>

WhirlpoolWants(leg, c) ==
  << "tokenkeg", "wp_auth", "wp_pool", Ata[In(leg)], "wp_vault_a", Ata[Out(leg)],
     "wp_vault_b", "tick1", "tick2", "tick3", "wp_oracle" >>

Wants(ex, leg, c) ==
  CASE ex = "pumpswap" -> PumpWants(leg, c)
    [] ex = "dlmm" -> DlmmWants(leg, c)
    [] ex = "cpmm" -> CpmmWants(leg, c)
    [] ex = "whirlpool" -> WhirlpoolWants(leg, c)

Accepts(ex, leg, call) ==
  /\ call.keys = Wants(ex, leg, coin)
  /\ call.writes \subseteq Writes

BuyLeg ==
  /\ stage = "checked"
  /\ IF Accepts(route.buy, "buy", BuyCall) THEN Go("bought") ELSE Refuse("buy leg")

SellLeg ==
  /\ stage = "bought"
  /\ IF Accepts(route.sell, "sell", SellCall) THEN Go("done") ELSE Refuse("sell leg")

Finished ==
  /\ stage \in {"done", "refused"}
  /\ UNCHANGED layoutVars

LayoutNext ==
  \/ Build
  \/ CannotBuild
  \/ Compile
  \/ \E table \in Tables : CompileWithTip(table) \/ CannotReread(table)
  \/ Sign
  \/ Check
  \/ BuyLeg
  \/ SellLeg
  \/ Finished

LayoutSpec == LayoutInit /\ [][LayoutNext]_layoutVars
-----------------------------------------------------------------------------
(* Properties *)

(* The unit the router takes the amount at offset 24 in: the floor of its  *)
(* buy leg, or with a DLMM first leg, which has none, of the sell leg.     *)
FloorUnit ==
  CASE ix.data.disc = "dlmm_to_pump" -> {"sol", "one"}
    [] OTHER -> {"meme"}

AsBuilt == ix.keys = Instruction(route, coin).keys /\ by # "panic"

(* Two programs agree about one list.  Whatever the coin's optional        *)
(* accounts, token program and side of the pair, both dedicated routes     *)
(* pass every check and both exchanges get the accounts they want, at      *)
(* their places, with the privileges they need; only a pair without bin    *)
(* arrays is refused, before anything is bought.  (A tip may have changed  *)
(* the list, see RecompilationPreserves.)                                  *)
DedicatedIsServed ==
  stage = "refused" /\ Dedicated(route) /\ AsBuilt => coin.bins = 0 /\ by = "router"

(* The router recomputes, from a table of lengths of its own and two       *)
(* counts, where the second section starts: where the client put it, for   *)
(* every pair of exchanges and whatever optional accounts are there.       *)
SectionsFound ==
  stage = "signed" /\ AsBuilt => SellBase = ix.sell

(* One field of the instruction carries token units on some routes and     *)
(* lamports on others; it is never read in the other unit.                 *)
FloorInItsUnit ==
  stage = "checked" => ix.data.floor \in FloorUnit

(* README.md:36: "12 routes - 6 pair x 2 directions".  Refuted: of the ten *)
(* generic routes one exists that some coin can take.                      *)
EveryRouteIsServed ==
  stage = "refused" => coin.bins = 0

(* executor/atomic/mod.rs:238: "Fetches real ALT data so recompilation     *)
(* preserves all accounts".  Refuted: a place among the looked up keys is  *)
(* not a place in the table.                                               *)
RecompilationPreserves ==
  stage = "compiled" => AsBuilt
=============================================================================
