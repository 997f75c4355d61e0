------------------------------ MODULE Catalogue ------------------------------
(***************************************************************************)
(* The rows administrators configure prices with, the price of a package   *)
(* they amount to, and a purchase that is quoted, paid, verified and       *)
(* recorded while they change.                                             *)
(*                                                                         *)
(* Exchange rates, pricing rules and discounts are tables of one shape: a  *)
(* save inserts a row and ends the active rows of its key that it sees.    *)
(* The price is computed twice, by the quote and when an order is saved.   *)
(*                                                                         *)
(* All purchases are of one package, in Iraqi dinars; rates are of one     *)
(* pair of currencies and rules of one service.  Notes, sources and        *)
(* listings are left out.  Rows are created in the order of their ids.     *)
(***************************************************************************)
EXTENDS Integers, FiniteSets, Sequences

CONSTANTS
    Drafts,      \* what administrators save
    Configured,  \* what is in force at first, in the order it was saved
    Editors,     \* handlers that save configuration rows
    Buys,        \* what the catalogue and the app may say of a purchase
    Unset,       \* no bound of a window, no row, no price, an idle handler
    Cost,        \* the provider's price of the package
    Step,        \* IQD_ROUNDING_STEP
    MaxRows,     \* bound: rows inserted
    MaxDay       \* bound: time

ConfigTables == {"rate", "pricing", "discount"}
Scopes == {"package", "country", "provider", "global"}

(* A discount that applies_to one of these is taken off the total.         *)
TotalBases == {"item_total", "total_price", "booking_total"}

(* The key_fields of a rule.  A scope stands for the package at hand, its  *)
(* country or its provider.  No price looks at the rest: the rule's own    *)
(* currency, and the codes that its scope does not name.                   *)
RuleKeys == [scope : Scopes, applies_to : STRING, rest : STRING]
RateKey  == [scope |-> "global", applies_to |-> "", rest |-> ""]
KeysOf(t) == IF t = "rate" THEN {RateKey} ELSE RuleKeys

Values == [rate     |-> [rate : Nat, markup : Nat],
           pricing  |-> [kind : {"percent", "fixed", "absolute"}, amount : Nat],
           discount |-> [kind : {"percent", "fixed"}, amount : Nat]]

FormsOf(t) == [table : {t}, key : KeysOf(t), value : Values[t], priority : Nat,
               active : BOOLEAN, delay : Nat \cup {Unset}, span : Nat \cup {Unset}]
Forms == FormsOf("rate") \cup FormsOf("pricing") \cup FormsOf("discount")

(* Mutant: what a discount applies to is not part of its key.              *)
SameScope(r, d) == r.table = d.table /\ r.key.scope = d.key.scope

(* Rows that one save leaves one of: their key_fields agree.               *)
SameKey(r, d) == r.table = d.table /\ r.key = d.key

(* No two of the rows that are active at first are of the same key.        *)
ASSUME DraftAssumption ==
    /\ MaxRows \in Nat /\ MaxDay \in Nat
    /\ Drafts \subseteq Forms
    /\ Configured \in Seq(Forms) /\ Len(Configured) <= MaxRows
    /\ \A i, j \in 1 .. Len(Configured) :
          (i # j /\ Configured[i].active /\ Configured[j].active) =>
              ~ SameKey(Configured[i], Configured[j])
ASSUME BuyAssumption ==
    Buys \subseteq [single : BOOLEAN, named : BOOLEAN, ownRate : Nat \cup {Unset}]
ASSUME PriceAssumption == Cost \in Nat /\ Step \in Nat \ {0}

VARIABLES
    day,       \* the clock
    rows,      \* the committed rows, by id
    lastId,    \* the last id handed out
    saving,    \* what each editor inserted or read and has not committed
    purchase   \* the purchase under way

catalogueVars == <<day, rows, lastId, saving, purchase>>

Ids == 1 .. MaxRows
ConfigRowsOf(t) ==
    [table : {t}, key : KeysOf(t), value : Values[t], priority : Nat,
     active : BOOLEAN, from : Nat, until : Nat \cup {Unset},
     knew : SUBSET Ids]    \* history: the rows its save could see
ConfigRows == ConfigRowsOf("rate") \cup ConfigRowsOf("pricing") \cup ConfigRowsOf("discount")

(* A save under way: what it inserted, what it ends, and when.             *)
Savings == [id : Ids \cup {Unset}, row : ConfigRows \cup {Unset},
            previous : SUBSET Ids, ended : SUBSET Ids, at : Nat]

ASSUME UnsetAssumption == Unset \notin Nat \cup ConfigRows

CatalogueTypeOK ==
    /\ day \in 0 .. MaxDay
    /\ lastId \in 0 .. MaxRows
    /\ DOMAIN rows \subseteq 1 .. lastId
    /\ \A i \in DOMAIN rows : rows[i] \in ConfigRows
    /\ saving \in [Editors -> Savings \cup {Unset}]
    /\ \A e \in Editors : saving[e] # Unset =>
          /\ saving[e].id \in ((1 .. lastId) \ DOMAIN rows) \cup {Unset}
          /\ (saving[e].id = Unset) = (saving[e].row = Unset)
          /\ saving[e].ended \subseteq saving[e].previous
          /\ saving[e].previous \subseteq DOMAIN rows
    /\ purchase \in
          [stage : {"none", "paid", "refused", "bought", "recorded", "failed"},
           price : Nat, total : Nat, buy : Buys \cup {Unset}, undisturbed : BOOLEAN]

(* starts_at or effective_at, the present moment if it is not given.       *)
StartAt(d, now) == IF d.delay = Unset THEN now ELSE now + d.delay

(* The row of a draft, saved by a handler that saw the rows known.         *)
RowOf(d, now, known) ==
    [table |-> d.table, key |-> d.key, value |-> d.value, priority |-> d.priority,
     active |-> d.active, from |-> StartAt(d, now), knew |-> known,
     until |-> IF d.span = Unset THEN Unset ELSE StartAt(d, now) + d.span]

CatalogueInit ==
    /\ day = 0
    /\ rows = [i \in 1 .. Len(Configured) |-> RowOf(Configured[i], 0, 1 .. (i - 1))]
    /\ lastId = Len(Configured)
    /\ saving = [e \in Editors |-> Unset]
    /\ purchase = [stage |-> "none", price |-> 0, total |-> 0, buy |-> Unset,
                   undisturbed |-> FALSE]

-----------------------------------------------------------------------------
ActiveRows(d) == {i \in DOMAIN rows : rows[i].active /\ SameKey(rows[i], d)}

(* The rows of a set whose window ends later than t, or never.             *)
OutlastedBy(t, ids) == {i \in ids : rows[i].until = Unset \/ rows[i].until > t}

StartOf(d) == StartAt(d, day)
NewRow(d)  == RowOf(d, day, DOMAIN rows)

(* _deactivate_matching_rows_without_insert: a draft that is not active    *)
(* switches off the active rows of its key.                                *)
SaveDisables(e, d) ==
    /\ saving[e] = Unset
    /\ ~ d.active
    /\ ActiveRows(d) # {}
    /\ saving' = [saving EXCEPT ![e] =
          [id |-> Unset, row |-> Unset, previous |-> ActiveRows(d), at |-> StartOf(d),
           ended |-> OutlastedBy(StartOf(d), ActiveRows(d))]]
    /\ UNCHANGED <<day, rows, lastId, purchase>>

(* Mutant: the rows of every key are ended.                                *)
PreviousRowsOfTable(d) ==
    {i \in DOMAIN rows : d.active /\ rows[i].active /\ rows[i].table = d.table}

(* _deactivate_previous_flagged_rows, of a row that is active itself.      *)
PreviousRows(d) == IF d.active THEN ActiveRows(d) ELSE {}

(* Mutant: the id comes from the rows that are visible.                    *)
SaveInsertsAtCount(e, d) ==
    /\ saving[e] = Unset
    /\ d.active \/ ActiveRows(d) = {}
    /\ Cardinality(DOMAIN rows) < MaxRows
    /\ lastId' = Cardinality(DOMAIN rows) + 1
    /\ saving' = [saving EXCEPT ![e] =
          [id |-> lastId', row |-> NewRow(d), previous |-> PreviousRows(d),
           at |-> StartOf(d), ended |-> OutlastedBy(StartOf(d), PreviousRows(d))]]
    /\ UNCHANGED <<day, rows, purchase>>

(* save_pricing_rule, save_discount_rule, save_exchange_rate: the insert   *)
(* is flushed, and the previous rows of the key are looked up ...          *)
SaveInserts(e, d) ==
    /\ saving[e] = Unset
    /\ d.active \/ ActiveRows(d) = {}
    /\ lastId < MaxRows
    /\ lastId' = lastId + 1
    /\ saving' = [saving EXCEPT ![e] =
          [id |-> lastId', row |-> NewRow(d), previous |-> PreviousRows(d),
           at |-> StartOf(d), ended |-> OutlastedBy(StartOf(d), PreviousRows(d))]]
    /\ UNCHANGED <<day, rows, purchase>>

(* Mutant: the previous rows only get their end, and stay active.          *)
SaveCommitsEnds(e) ==
    /\ saving[e] # Unset
    /\ LET s   == saving[e]
           new == IF s.id = Unset THEN {} ELSE {s.id} IN
       rows' = [i \in DOMAIN rows \cup new |->
                   IF i \in new THEN s.row
                   ELSE IF i \in s.ended THEN [rows[i] EXCEPT !.until = s.at] ELSE rows[i]]
    /\ saving' = [saving EXCEPT ![e] = Unset]
    /\ purchase' = [purchase EXCEPT !.undisturbed = FALSE]
    /\ UNCHANGED <<day, lastId>>

(* ... and it all becomes visible with the commit.                         *)
SaveCommits(e) ==
    /\ saving[e] # Unset
    /\ LET s   == saving[e]
           new == IF s.id = Unset THEN {} ELSE {s.id}
           off == [i \in s.previous |-> [rows[i] EXCEPT !.active = FALSE]] IN
       rows' = [i \in DOMAIN rows \cup new |->
                   IF i \in new THEN s.row
                   ELSE IF i \in s.ended THEN [off[i] EXCEPT !.until = s.at]
                   ELSE IF i \in s.previous THEN off[i] ELSE rows[i]]
    /\ saving' = [saving EXCEPT ![e] = Unset]
    /\ purchase' = [purchase EXCEPT !.undisturbed = FALSE]
    /\ UNCHANGED <<day, lastId>>

SaveFails(e) ==
    /\ saving[e] # Unset
    /\ saving' = [saving EXCEPT ![e] = Unset]
    /\ UNCHANGED <<day, rows, lastId, purchase>>

DayPasses ==
    /\ day < MaxDay
    /\ day' = day + 1
    /\ purchase' = [purchase EXCEPT !.undisturbed = FALSE]
    /\ UNCHANGED <<rows, lastId, saving>>

-----------------------------------------------------------------------------
InForce(r) == /\ r.active
              /\ r.from = Unset \/ r.from <= day
              /\ r.until = Unset \/ r.until > day

RowsInForce(table) == {i \in DOMAIN rows : rows[i].table = table /\ InForce(rows[i])}

(* The first of a set of rows in an order, or none.                        *)
FirstRow(ids, Before(_, _)) ==
    IF ids = {} THEN Unset
    ELSE CHOOSE i \in ids : \A j \in ids \ {i} : Before(i, j)

Newer(i, j) == \/ rows[i].from > rows[j].from
               \/ rows[i].from = rows[j].from /\ i > j

(* get_active_exchange_rate                                                *)
ActiveRate == FirstRow(RowsInForce("rate"), Newer)

(* _RULE_SCOPE_SPECIFICITY *)
Specificity == [package |-> 4, country |-> 3, provider |-> 2, global |-> 1]

Overrides(i, j) ==
    LET a == rows[i]
        b == rows[j] IN
    \/ Specificity[a.key.scope] > Specificity[b.key.scope]
    \/ a.key.scope = b.key.scope /\ a.priority > b.priority
    \/ a.key.scope = b.key.scope /\ a.priority = b.priority /\ i > j

(* get_best_pricing_rule, get_best_discount_rule: one query per order.     *)
GetBestRule(table, scopes) ==
    FirstRow({i \in RowsInForce(table) : rows[i].key.scope \in scopes}, Overrides)

(* Mutant: the in-memory resolution looks at the priority first.           *)
BestScopedRuleByPriority(rules, scopes) ==
    FirstRow({i \in rules : rows[i].key.scope \in scopes},
             LAMBDA i, j : \/ rows[i].priority > rows[j].priority
                           \/ rows[i].priority = rows[j].priority /\ i > j)

(* _best_scoped_rule: the same, among rules that were loaded before.       *)
BestScopedRule(rules, scopes) ==
    FirstRow({i \in rules : rows[i].key.scope \in scopes}, Overrides)

(* round(a / b), a half going to the even neighbour.                       *)
RoundQuotient(a, b) ==
    LET q == a \div b
        r == a % b IN
    IF 2 * r > b \/ (2 * r = b /\ q % 2 = 1) THEN q + 1 ELSE q

(* round_to_step *)
RoundToStep(n) == ((2 * n + Step) \div (2 * Step)) * Step

AtLeastZero(n) == IF n > 0 THEN n ELSE 0

(* _calculate_adjustment_minor *)
Adjustment(v, basis) ==
    IF v.kind = "fixed" THEN v.amount ELSE RoundQuotient(basis * v.amount, 100)

PercentOf(p, basis) == Adjustment([kind |-> "percent", amount |-> p], basis)

ValueOf(i) == rows[i].value
OfTotal(i) == rows[i].key.applies_to \in TotalBases
IsAbsolute(i) == i # Unset /\ ValueOf(i).kind = "absolute"

(* Scopes that match the package, with its country or without.             *)
Matching(country) == Scopes \ (IF country THEN {} ELSE {"country"})

(* quote_esim_sale_prices: without a rate the cost itself is the basis.    *)
Quote(country) ==
    LET scopes    == Matching(country)
        converted == Cost * (IF ActiveRate = Unset THEN 1 ELSE ValueOf(ActiveRate).rate)
        fallback  == IF ActiveRate = Unset THEN 0 ELSE ValueOf(ActiveRate).markup
        rule      == BestScopedRule(RowsInForce("pricing"), scopes)
        discount  == BestScopedRule(RowsInForce("discount"), scopes)
        total     == IF IsAbsolute(rule) THEN ValueOf(rule).amount
                     ELSE converted + (IF rule # Unset THEN Adjustment(ValueOf(rule), converted)
                                       ELSE PercentOf(fallback, converted))
        off       == IF discount = Unset THEN 0
                     ELSE Adjustment(ValueOf(discount),
                             IF OfTotal(discount) THEN total ELSE converted)
        sale      == AtLeastZero(total - off) IN
    IF IsAbsolute(rule) THEN sale ELSE RoundToStep(sale)

(* The total save_managed_order records, at a rate.                        *)
OrderTotal(country, rate) ==
    LET subtotal == Cost * rate
        rule     == GetBestRule("pricing", Matching(country))
        discount == GetBestRule("discount", Matching(country))
        markup   == IF rule # Unset THEN Adjustment(ValueOf(rule), subtotal)
                    ELSE IF ActiveRate = Unset THEN 0
                    ELSE PercentOf(ValueOf(ActiveRate).markup, subtotal)
        before   == IF IsAbsolute(rule) THEN ValueOf(rule).amount ELSE subtotal + markup
        basis    == IF discount # Unset /\ OfTotal(discount) THEN before ELSE subtotal
        computed == AtLeastZero(before -
            (IF discount = Unset THEN 0 ELSE Adjustment(ValueOf(discount), basis))) IN
    IF IsAbsolute(rule) THEN computed ELSE RoundToStep(computed)

(* Its rate: the one the order came with, or the active one, without which *)
(* it raises.                                                              *)
AppliedRate(ownRate) ==
    IF ownRate # Unset THEN ownRate
    ELSE IF ActiveRate = Unset THEN Unset ELSE ValueOf(ActiveRate).rate

(* Mutant: the rate's markup comes before a global rule's.                 *)
GlobalMarkupOfRate ==
    IF ActiveRate = Unset THEN 0 ELSE ValueOf(ActiveRate).markup

(* get_global_esim_markup_percent, as shown to the app.                    *)
GlobalMarkup ==
    LET rule == GetBestRule("pricing", {"global"}) IN
    IF rule # Unset /\ ValueOf(rule).kind = "percent" THEN ValueOf(rule).amount
    ELSE IF ActiveRate = Unset THEN 0 ELSE ValueOf(ActiveRate).markup

-----------------------------------------------------------------------------
(* The catalogue shows a price, with the country of a package that has one *)
(* only (_apply_sale_prices), and the customer pays it.  The app names a   *)
(* country with the order, and may add a rate.                             *)
Pays(b) ==
    /\ purchase.stage = "none"
    /\ purchase' = [stage |-> "paid", price |-> Quote(b.single), total |-> 0, buy |-> b,
                    undisturbed |-> TRUE]
    /\ UNCHANGED <<day, rows, lastId, saving>>

(* Mutant: a payment of more than the price passes as well.                *)
VerifiesOverpaid ==
    /\ purchase.stage \in {"paid", "refused"}
    /\ purchase' = IF Quote(purchase.buy.named) <= purchase.price
                   THEN [purchase EXCEPT !.stage = "bought", !.undisturbed = TRUE]
                   ELSE [purchase EXCEPT !.stage = "refused"]
    /\ UNCHANGED <<day, rows, lastId, saving>>

(* Mutant: the gate quotes the package in every country.                   *)
VerifiesEverywhere ==
    /\ purchase.stage \in {"paid", "refused"}
    /\ purchase' = IF Quote(TRUE) = purchase.price
                   THEN [purchase EXCEPT !.stage = "bought", !.undisturbed = TRUE]
                   ELSE [purchase EXCEPT !.stage = "refused"]
    /\ UNCHANGED <<day, rows, lastId, saving>>

(* _verify_fib_payment_for_managed_order quotes again.  A payment of       *)
(* another amount is refused, as often as it is tried.                     *)
Verifies ==
    /\ purchase.stage \in {"paid", "refused"}
    /\ purchase' = IF Quote(purchase.buy.named) = purchase.price
                   THEN [purchase EXCEPT !.stage = "bought", !.undisturbed = TRUE]
                   ELSE [purchase EXCEPT !.stage = "refused"]
    /\ UNCHANGED <<day, rows, lastId, saving>>

(* The provider was called and the order is saved, or raises.              *)
RecordsOrder ==
    /\ purchase.stage = "bought"
    /\ LET rate == AppliedRate(purchase.buy.ownRate) IN
       purchase' = IF rate = Unset THEN [purchase EXCEPT !.stage = "failed"]
                   ELSE [purchase EXCEPT !.stage = "recorded",
                                         !.total = OrderTotal(purchase.buy.named, rate)]
    /\ UNCHANGED <<day, rows, lastId, saving>>

CatalogueNext ==
    \/ \E e \in Editors :
          \/ \E d \in Drafts : SaveDisables(e, d) \/ SaveInserts(e, d)
          \/ SaveCommits(e) \/ SaveFails(e)
    \/ DayPasses
    \/ \E b \in Buys : Pays(b)
    \/ Verifies \/ RecordsOrder

CatalogueSpec == CatalogueInit /\ [][CatalogueNext]_catalogueVars

-----------------------------------------------------------------------------
(* The catalogue's quote, with its rules in memory, and the total of an    *)
(* order, with a query per rule, are the same whatever is configured, if a *)
(* rate is in force: the price shown is the price charged.                 *)
QuoteMatchesCharge ==
    ActiveRate # Unset =>
        \A country \in BOOLEAN :
            Quote(country) = OrderTotal(country, ValueOf(ActiveRate).rate)

(* The markup shown to the app is the one quotes apply to a package for    *)
(* which nothing more specific is configured, unless the global rule is    *)
(* not a percentage.                                                       *)
MarkupShownIsApplied ==
    LET rule == GetBestRule("pricing", Scopes) IN
    (/\ ActiveRate # Unset
     /\ GetBestRule("discount", Scopes) = Unset
     /\ rule = Unset \/ (rows[rule].key.scope = "global" /\ ValueOf(rule).kind = "percent"))
    => LET converted == Cost * ValueOf(ActiveRate).rate IN
       Quote(TRUE) = RoundToStep(converted + PercentOf(GlobalMarkup, converted))

(* One active row per key: two of them were saved by handlers of which     *)
(* neither could see the other one's row.                                  *)
OneActivePerKey ==
    \A i, j \in DOMAIN rows :
        (i # j /\ rows[i].active /\ rows[j].active /\ SameKey(rows[i], rows[j]))
        => i \notin rows[j].knew /\ j \notin rows[i].knew

(* A key that has a value in force loses it when its window ends, or by a  *)
(* save for this key that switches it off or is not in force itself: the   *)
(* present value ends when its successor is scheduled, not when it starts. *)
LostByChoice == [][
    \A t \in ConfigTables : \A k \in {rows[i].key : i \in RowsInForce(t)} :
        (\A i \in RowsInForce(t)' : rows'[i].key # k) =>
            \/ /\ day' # day
               /\ \E i \in RowsInForce(t) : rows[i].key = k /\ rows[i].until = day'
            \/ \E e \in Editors :
                  /\ saving[e] # Unset /\ saving'[e] = Unset
                  /\ \E i \in saving[e].previous : rows[i].table = t /\ rows[i].key = k
                  /\ saving[e].row = Unset \/ ~ InForce(saving[e].row)
    ]_catalogueVars

(* While nothing changes, a payment of the price shown passes the gate and *)
(* its order is recorded with that total, if the app names the country the *)
(* catalogue quoted, brings no rate of its own, and a rate is in force.    *)
PriceHolds == [][
    (/\ purchase.undisturbed /\ purchase.buy.named = purchase.buy.single
     /\ purchase.buy.ownRate = Unset /\ ActiveRate # Unset
     /\ purchase.stage # purchase'.stage)
    => /\ purchase.stage = "paid" => purchase'.stage = "bought"
       /\ purchase.stage = "bought" =>
             purchase'.stage = "recorded" /\ purchase'.total = purchase.price
    ]_catalogueVars

(* Whatever changed since it was paid, a payment passes the gate only if   *)
(* the order, recorded now without a rate of its own, would get the total  *)
(* that was paid: a repriced purchase is refused, not bought at a loss.    *)
GateHolds == [][
    (/\ purchase.stage # "bought" /\ purchase'.stage = "bought"
     /\ purchase.buy.ownRate = Unset /\ ActiveRate # Unset)
    => OrderTotal(purchase.buy.named, ValueOf(ActiveRate).rate) = purchase.price
    ]_catalogueVars

(* A key has one value in force, and keeps one.                            *)
KeysKeepOneValue == []OneActivePerKey /\ LostByChoice

(* The price shown is the price charged, whichever code computes it, and   *)
(* what was paid is the price when it is bought.                           *)
ShownIsCharged == [](QuoteMatchesCharge /\ MarkupShownIsApplied) /\ PriceHolds /\ GateHolds
=============================================================================
