----------------------------- MODULE ProfileRows -----------------------------
(***************************************************************************)
(* How an order comes to have its order item, and each of its eSIMs a row  *)
(* of esim_profiles.                                                       *)
(*                                                                         *)
(* Saving an order stores a placeholder, a row without an eSIM.  A sync    *)
(* asks the provider which eSIMs it allocated and gives each of them a     *)
(* row: the one it has, else the placeholder, else a new one; an order it  *)
(* does not find it stores itself, without a customer.  Saves and syncs    *)
(* overlap: each of them reads in one step and commits in another, and     *)
(* only the unique constraints stand between them.                         *)
(*                                                                         *)
(* What a sync says of the status of a profile is in ESimLifecycle.        *)
(***************************************************************************)
EXTENDS Naturals, FiniteSets, Sequences
Seqs == INSTANCE SequencesExt

CONSTANTS
    Orders,       \* orders at the provider
    ESimsOf,      \* the eSIMs of each order
    Savers,       \* handlers that save an order: a client's and the finalizer's
    Crons,        \* runs of the cron refresh
    Askers,       \* other handlers that query profiles
    Missing,      \* no eSIM
    MaxFailures   \* bound: handlers that fail before they commit

Handlers == Savers \cup Crons \cup Askers
ESims    == UNION {ESimsOf[o] : o \in Orders}

ASSUME OrdersAssumption ==
    /\ \A o \in Orders : ESimsOf[o] # {} /\ IsFiniteSet(ESimsOf[o])
    /\ \A o, p \in Orders : o # p => ESimsOf[o] \cap ESimsOf[p] = {}
    /\ Missing \notin ESims
    /\ MaxFailures \in Nat

VARIABLES
    placed,     \* the orders the provider executed
    allocated,  \* the eSIMs the provider lists
    saved,      \* the order item; "stray": a sync stored it, without a customer
    cards,      \* the rows of esim_profiles, by id
    aged,       \* the orders whose placeholder is older than seven days
    task,       \* what each handler has read
    failures,
    strays      \* history: the orders that a sync stored

rowsVars == <<placed, allocated, saved, cards, aged, task, failures, strays>>

Ids             == DOMAIN cards
RowsOf(o)       == {i \in Ids : cards[i].order = o}
Placeholders(o) == {i \in RowsOf(o) : cards[i].esim = Missing}
RowsFor(e)      == {i \in Ids : cards[i].esim = e}
OrderOf(e)      == CHOOSE o \in Orders : e \in ESimsOf[o]

Free == [stage |-> "free"]
Tasks ==
    [stage : {"free"}]
    \cup [stage : {"save"}, order : Orders, found : BOOLEAN, row : SUBSET Nat]
    \cup [stage : {"answered"}, order : Orders, esims : SUBSET ESims]
    \cup [stage : {"sync"}, order : Orders, esims : SUBSET ESims, found : BOOLEAN,
          owned : BOOLEAN, own : SUBSET Nat, fill : SUBSET (Nat \X ESims),
          new : SUBSET ESims]

(* esim_tran_no and iccid are unique.                                      *)
RowsTypeOK ==
    /\ placed \subseteq Orders /\ aged \subseteq Orders /\ strays \subseteq Orders
    /\ allocated \subseteq ESims
    /\ saved \in [Orders -> {"absent", "stray", "saved"}]
    /\ cards \in Seq([order : Orders, esim : ESims \cup {Missing}, owner : BOOLEAN])
    /\ \A e \in ESims : Cardinality(RowsFor(e)) <= 1
    /\ task \in [Handlers -> Tasks]
    /\ failures \in 0 .. MaxFailures

RowsInit ==
    /\ placed = {} /\ allocated = {} /\ aged = {} /\ strays = {}
    /\ saved = [o \in Orders |-> "absent"]
    /\ cards = <<>>
    /\ task = [h \in Handlers |-> Free]
    /\ failures = 0

database == <<saved, cards, strays>>
provider == <<placed, allocated>>

Begin(h, t) == task' = [task EXCEPT ![h] = t]
Done(h)     == Begin(h, Free)

-----------------------------------------------------------------------------
(* The provider executes an order, and allocates its eSIMs one by one.     *)
Place(o) ==
    /\ placed' = placed \cup {o}
    /\ UNCHANGED <<allocated, database, aged, task, failures>>

Allocate(e) ==
    /\ OrderOf(e) \in placed
    /\ allocated' = allocated \cup {e}
    /\ UNCHANGED <<placed, database, aged, task, failures>>

GrowsOld(o) ==
    /\ saved[o] = "saved"
    /\ aged' = aged \cup {o}
    /\ UNCHANGED <<provider, database, task, failures>>

-----------------------------------------------------------------------------
(* save_managed_order: it finds the item of the transaction, and ...       *)
SaveReads(h, o) ==
    /\ task[h] = Free
    /\ o \in placed
    /\ \E r \in SUBSET RowsOf(o) :
          /\ IF RowsOf(o) = {} THEN r = {} ELSE Cardinality(r) = 1
          /\ Begin(h, [stage |-> "save", order |-> o, row |-> r,
                       found |-> saved[o] # "absent"])
    /\ UNCHANGED <<provider, database, aged, failures>>

(* Mutant: the customer is not entered.                                    *)
WithPlaceholderOfNobody(r, o) ==
    IF r = {} THEN Append(cards, [order |-> o, esim |-> Missing, owner |-> FALSE]) ELSE cards

(* ensure_profile_placeholder_for_order_item: ... one of the order's rows, *)
(* or a new one, becomes the customer's.                                   *)
WithPlaceholder(r, o) ==
    IF r = {} THEN Append(cards, [order |-> o, esim |-> Missing, owner |-> TRUE])
    ELSE [i \in Ids |-> IF i \in r THEN [cards[i] EXCEPT !.owner = TRUE] ELSE cards[i]]

(* The commit, unless somebody else stored the item since.                 *)
SaveCommits(h) ==
    LET t == task[h]
        o == t.order
    IN  /\ t.stage = "save"
        /\ IF ~t.found /\ saved[o] # "absent"
           THEN UNCHANGED <<saved, cards>>
           ELSE /\ saved' = [saved EXCEPT ![o] = "saved"]
                /\ cards' = WithPlaceholder(t.row, o)
        /\ Done(h)
        /\ UNCHANGED <<provider, aged, failures, strays>>

-----------------------------------------------------------------------------
(* The queries.  An answer lists what is allocated by then.                *)
Answered(h, o, E) ==
    /\ task[h] = Free
    /\ E \cap allocated # {}
    /\ Begin(h, [stage |-> "answered", order |-> o, esims |-> E \cap allocated])
    /\ UNCHANGED <<provider, database, aged, failures>>

AskOrder(h, o) == Answered(h, o, ESimsOf[o])
AskESim(h, e)  == Answered(h, OrderOf(e), {e})

(* The client that saved an order asks at once.                            *)
OrderAsks(h, o) == saved[o] = "saved" /\ AskOrder(h, o)

(* user_recover_profile: by the eSIM of the customer's row, if it has one. *)
UserRecovers(h, i) ==
    /\ cards[i].owner
    /\ IF cards[i].esim = Missing THEN AskOrder(h, cards[i].order)
                                  ELSE AskESim(h, cards[i].esim)

(* The resync of a row by an administrator asks for the latest order of    *)
(* the row's customer, whichever order the row is of.                      *)
AdminResyncs(h, i) ==
    \E o \in Orders : /\ saved[o] = IF cards[i].owner THEN "saved" ELSE "stray"
                      /\ AskOrder(h, o)

(* An administrator may ask for anything at the provider.                  *)
AdminAsks(h) == \/ \E o \in placed : AskOrder(h, o)
                \/ \E e \in allocated : AskESim(h, e)

(* Mutant: the broken placeholders are not asked for.                      *)
CronRecoversNone(h, o) == FALSE /\ AskOrder(h, o)

(* The cron refresh asks for orders that have a young placeholder.  One    *)
(* whose placeholder was filled after the refresh loaded it is asked for   *)
(* as by AdminAsks.                                                        *)
CronRecovers(h, o) ==
    /\ Placeholders(o) # {}
    /\ o \notin aged
    /\ AskOrder(h, o)

(* It asks for the eSIMs it takes to be in use, too.                       *)
CronRefreshes(h, i) == cards[i].esim # Missing /\ AskESim(h, cards[i].esim)

-----------------------------------------------------------------------------
(* Mutants: the placeholder is not looked for; any row of the order is     *)
(* taken for one.                                                          *)
ReusableNone(o) == {}
ReusableAny(o)  == RowsOf(o)

Reusable(o) == Placeholders(o)

(* sync_profiles reads: the eSIMs that have no row fill the order's first  *)
(* placeholder, and new rows.                                              *)
SyncReads(h) ==
    LET t == task[h]
        o == t.order
        strange == {e \in t.esims : RowsFor(e) = {}}
    IN  /\ t.stage = "answered"
        /\ \E fill \in SUBSET (Reusable(o) \X strange) :
              /\ IF Reusable(o) = {} \/ strange = {}
                 THEN fill = {}
                 ELSE Cardinality(fill) = 1
              /\ Begin(h, [stage |-> "sync", order |-> o, esims |-> t.esims,
                     found |-> saved[o] # "absent", owned |-> saved[o] = "saved",
                     own |-> UNION {RowsFor(e) : e \in t.esims},
                     fill |-> fill,
                     new |-> strange \ {f[2] : f \in fill}])
        /\ UNCHANGED <<provider, database, aged, failures>>

(* The rows after the flush of the placeholder, and after that of the new  *)
(* rows.                                                                   *)
Filled(t) ==
    [i \in Ids |->
        [order |-> cards[i].order,
         esim  |-> IF \E f \in t.fill : f[1] = i
                   THEN (CHOOSE f \in t.fill : f[1] = i)[2]
                   ELSE cards[i].esim,
         owner |-> \/ cards[i].owner
                   \/ t.owned /\ (i \in t.own \/ \E f \in t.fill : f[1] = i)]]

Stored(t) == Filled(t) \o
    Seqs!SetToSeq({[order |-> t.order, esim |-> e, owner |-> t.owned] : e \in t.new})

(* Mutant: nothing is unique.                                              *)
CollidesNever(t) == FALSE

(* Somebody else stored the item, or gave one of the eSIMs a row, since.   *)
Collides(t) ==
    \/ ~t.found /\ saved[t.order] # "absent"
    \/ \E i, j \in DOMAIN Stored(t) : /\ i # j
                                     /\ Stored(t)[i].esim = Stored(t)[j].esim
                                     /\ Stored(t)[i].esim \in t.esims

(* The commit; a unique constraint rolls the whole sync back.              *)
SyncCommits(h) ==
    LET t == task[h]
    IN  /\ t.stage = "sync"
        /\ IF Collides(t)
           THEN UNCHANGED database
           ELSE /\ cards' = Stored(t)
                /\ saved' = IF t.found THEN saved ELSE [saved EXCEPT ![t.order] = "stray"]
                /\ strays' = IF t.found THEN strays ELSE strays \cup {t.order}
        /\ Done(h)
        /\ UNCHANGED <<provider, aged, failures>>

(* A query or a transaction fails, or its process ends.                    *)
TaskFails(h) ==
    /\ task[h] # Free
    /\ failures < MaxFailures
    /\ failures' = failures + 1
    /\ Done(h)
    /\ UNCHANGED <<provider, database, aged>>

-----------------------------------------------------------------------------
Saves(h) == SaveCommits(h) \/ \E o \in Orders : SaveReads(h, o)
Syncs(h) == SyncReads(h) \/ SyncCommits(h)
Asks(h)  == \/ \E o \in Orders : OrderAsks(h, o)
            \/ \E i \in Ids : UserRecovers(h, i) \/ AdminResyncs(h, i)
            \/ AdminAsks(h)

RowsNext ==
    \/ \E o \in Orders : Place(o) \/ GrowsOld(o)
    \/ \E e \in ESims : Allocate(e)
    \/ \E h \in Savers : Saves(h)
    \/ \E h \in Askers : Asks(h)
    \/ \E h \in Crons : \/ \E o \in Orders : CronRecovers(h, o)
                       \/ \E i \in Ids : CronRefreshes(h, i)
    \/ \E h \in Askers \cup Crons : Syncs(h)
    \/ \E h \in Handlers : TaskFails(h)

(* Every run of the cron job asks for each of the orders it loaded, and    *)
(* stores the answer.  Nobody else has to do anything.                     *)
RowsFairness ==
    \A h \in Crons :
        /\ WF_rowsVars(Syncs(h))
        /\ \A o \in Orders : SF_rowsVars(CronRecovers(h, o))

RowsSpec == RowsInit /\ [][RowsNext]_rowsVars /\ RowsFairness
-----------------------------------------------------------------------------
(* What the code promises.                                                 *)

(* list_profiles_for_user: the cards the customer sees of a saved order.   *)
(* Rows are told apart by their eSIM; an order without any is shown too.   *)
Shown(o) == IF RowsOf(o) = {} THEN {Missing} ELSE {cards[i].esim : i \in RowsOf(o)}

(* The customer never sees more cards of an order than it has eSIMs,       *)
(* whatever saves and syncs overlap: no placeholder stays beside the rows  *)
(* that replaced it (the duplicate cards the comment in sync_profiles and  *)
(* the migration 0037 speak of).                                           *)
NoDuplicateCards ==
    \A o \in Orders : saved[o] = "saved" =>
        Cardinality(Shown(o)) \in 1 .. Cardinality(ESimsOf[o])

(* A customer who sees a card may install and activate it, which takes the *)
(* row's own customer, unless a sync stored the order before the request   *)
(* that bought it did: then only one of the rows is handed over.           *)
CardsBelongToCustomer ==
    \A i \in Ids :
        (saved[cards[i].order] = "saved" /\ ~cards[i].owner)
            => cards[i].order \in strays /\ Cardinality(ESimsOf[cards[i].order]) > 1

(* An eSIM that has a row loses it only to a sync that overlapped the one  *)
(* that gave it the row, and whose answer holds another eSIM of the order  *)
(* but not this one.                                                       *)
RowsLostOnlyToPartialAnswers ==
    [][\A e \in ESims :
          (RowsFor(e) # {} /\ RowsFor(e)' = {}) =>
              \E h \in Handlers :
                  /\ task[h].stage = "sync" /\ task'[h] = Free
                  /\ e \notin task[h].esims
                  /\ \E f \in task[h].fill : f[1] \in RowsFor(e)]_rowsVars

(* The placeholder of a customer's order gets an eSIM once the provider    *)
(* allocated one, unless it takes over seven days, although the customer   *)
(* never comes back and queries fail ("recover orders where the initial    *)
(* provisioning call returned no data").                                   *)
PlaceholderIsFilled ==
    \A o \in Orders :
        (saved[o] = "saved" /\ ESimsOf[o] \cap allocated # {})
            ~> (Placeholders(o) = {} \/ o \in aged)

(* An order shows the cards of its eSIMs, all of them its customer's, and  *)
(* keeps them.                                                             *)
OrdersKeepTheirCards ==
    [](NoDuplicateCards /\ CardsBelongToCustomer) /\ RowsLostOnlyToPartialAnswers
=============================================================================
