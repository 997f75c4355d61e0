--------------------------- MODULE CatalogueProofs ---------------------------
(* Proofs about Catalogue, for any drafts and editors, any rows in force   *)
(* at first, and any cost and step of rounding.                            *)
EXTENDS Catalogue, FiniteSetTheorems, TLAPS

-----------------------------------------------------------------------------
(* The rows and the saves under way.                                       *)

RowsInv ==
    /\ day \in 0 .. MaxDay
    /\ lastId \in 0 .. MaxRows
    /\ DOMAIN rows \subseteq 1 .. lastId
    /\ \A i \in DOMAIN rows : rows[i] \in ConfigRows /\ rows[i].knew \subseteq DOMAIN rows

(* A save has an id that no other row or save has.  It knows the active    *)
(* rows of its key that were visible, but for those ended since.           *)
SavingInv ==
    /\ saving \in [Editors -> Savings \cup {Unset}]
    /\ \A e \in Editors : saving[e] # Unset =>
          /\ saving[e].id \in ((1 .. lastId) \ DOMAIN rows) \cup {Unset}
          /\ saving[e].id = Unset <=> saving[e].row = Unset
          /\ saving[e].ended \subseteq saving[e].previous
          /\ saving[e].previous \subseteq DOMAIN rows
          /\ saving[e].row # Unset =>
                /\ saving[e].row.knew \subseteq DOMAIN rows
                /\ \A i \in saving[e].previous : SameKey(rows[i], saving[e].row)
                /\ saving[e].row.active =>
                      \A i \in saving[e].row.knew :
                          rows[i].active /\ SameKey(rows[i], saving[e].row) =>
                              i \in saving[e].previous
    /\ \A e, f \in Editors :
          (e # f /\ saving[e] # Unset /\ saving[f] # Unset /\ saving[e].id # Unset) =>
              saving[e].id # saving[f].id

(* The fields of the rows and of what is saved.                            *)
LEMMA RowFields ==
    ASSUME NEW r \in ConfigRows
    PROVE  /\ r.table \in ConfigTables /\ r.key.scope \in Scopes /\ r.value \in Values[r.table]
           /\ r.priority \in Nat /\ r.active \in BOOLEAN /\ r.from \in Nat
           /\ r.until \in Nat \cup {Unset} /\ r.knew \subseteq Ids
           /\ r # Unset
<1>1. r.key = RateKey \/ r.key \in RuleKeys
  BY DEF ConfigRows, ConfigRowsOf, KeysOf
<1>2. RateKey.scope \in Scopes /\ \A k \in RuleKeys : k.scope \in Scopes
  BY DEF RateKey, RuleKeys, Scopes
<1>3. r.key.scope \in Scopes
  BY <1>1, <1>2
<1> QED BY <1>3, UnsetAssumption DEF ConfigRows, ConfigRowsOf, ConfigTables

LEMMA FormFields ==
    ASSUME NEW d \in Forms
    PROVE  /\ d.table \in ConfigTables /\ d.key \in KeysOf(d.table) /\ d.value \in Values[d.table]
           /\ d.priority \in Nat /\ d.active \in BOOLEAN
           /\ d.delay \in Nat \cup {Unset} /\ d.span \in Nat \cup {Unset}
BY DEF Forms, FormsOf, ConfigTables

LEMMA RowOfRule ==
    ASSUME NEW d \in Forms, NEW now \in Nat, NEW known \in SUBSET Ids
    PROVE  /\ RowOf(d, now, known) \in ConfigRows /\ StartAt(d, now) \in Nat
           /\ RowOf(d, now, known).table = d.table /\ RowOf(d, now, known).key = d.key
           /\ RowOf(d, now, known).active = d.active /\ RowOf(d, now, known).knew = known
<1> DEFINE start == StartAt(d, now)
           until == IF d.span = Unset THEN Unset ELSE start + d.span
<1>1. start \in Nat
  BY FormFields DEF StartAt
<1>2. until \in Nat \cup {Unset}
  BY <1>1, FormFields
<1>3. RowOf(d, now, known) =
        [table |-> d.table, key |-> d.key, value |-> d.value, priority |-> d.priority,
         active |-> d.active, from |-> start, knew |-> known, until |-> until]
  BY DEF RowOf
<1> HIDE DEF start, until
<1>4. RowOf(d, now, known) \in ConfigRowsOf(d.table)
  BY <1>1, <1>2, <1>3, FormFields DEF ConfigRowsOf
<1>5. RowOf(d, now, known) \in ConfigRows
  BY <1>4, FormFields DEF ConfigRows, ConfigTables
<1> QED BY <1>1, <1>3, <1>5 DEF start

(* What a commit makes of a row.                                           *)
LEMMA EndedRule ==
    ASSUME NEW r \in ConfigRows, NEW t \in Nat
    PROVE  /\ [r EXCEPT !.active = FALSE] \in ConfigRows
           /\ [[r EXCEPT !.active = FALSE] EXCEPT !.until = t] \in ConfigRows
BY DEF ConfigRows, ConfigRowsOf

LEMMA RowsStart == CatalogueInit => RowsInv /\ SavingInv
<1> SUFFICES ASSUME CatalogueInit
             PROVE  RowsInv /\ SavingInv
  OBVIOUS
<1> DEFINE n == Len(Configured)
<1>1. /\ n \in Nat /\ n \in 0 .. MaxRows /\ MaxRows \in Nat /\ MaxDay \in Nat
      /\ \A i \in 1 .. n : Configured[i] \in Forms
  BY DraftAssumption
<1>2. /\ rows = [i \in 1 .. n |-> RowOf(Configured[i], 0, 1 .. (i - 1))]
      /\ lastId = n /\ day = 0
  BY DEF CatalogueInit
<1> HIDE DEF n
<1>3. ASSUME NEW i \in 1 .. n
      PROVE  rows[i] \in ConfigRows /\ rows[i].knew \subseteq 1 .. n
  <2>1. 1 .. (i - 1) \subseteq Ids /\ 1 .. (i - 1) \subseteq 1 .. n
    BY <1>1 DEF Ids
  <2>2. rows[i] = RowOf(Configured[i], 0, 1 .. (i - 1))
    BY <1>2
  <2> DEFINE known == 1 .. (i - 1)
  <2> HIDE DEF known
  <2>3. known \in SUBSET Ids /\ known \subseteq 1 .. n /\ rows[i] = RowOf(Configured[i], 0, known)
    BY <2>1, <2>2 DEF known
  <2>4. Configured[i] \in Forms
    BY <1>1
  <2>5. /\ RowOf(Configured[i], 0, known) \in ConfigRows
        /\ RowOf(Configured[i], 0, known).knew = known
    <3>1. 0 \in Nat
      OBVIOUS
    <3> QED BY <2>3, <2>4, <3>1, RowOfRule
  <2> QED BY <2>3, <2>5
<1>4. RowsInv
  BY <1>1, <1>2, <1>3 DEF RowsInv
<1>5. saving = [e \in Editors |-> Unset]
  BY DEF CatalogueInit
<1>6. SavingInv
  BY <1>5 DEF SavingInv
<1> QED BY <1>4, <1>6

(* The rows a save would end.                                              *)
LEMMA ActiveRowsRule ==
    ASSUME RowsInv, NEW d \in Forms
    PROVE  /\ ActiveRows(d) \subseteq DOMAIN rows /\ ActiveRows(d) \subseteq Ids
           /\ PreviousRows(d) \subseteq ActiveRows(d)
           /\ d.active => PreviousRows(d) = ActiveRows(d)
           /\ \A t : \A s : OutlastedBy(t, s) \subseteq s
           /\ StartOf(d) \in Nat /\ DOMAIN rows \subseteq Ids
           /\ NewRow(d) \in ConfigRows /\ NewRow(d).table = d.table /\ NewRow(d).key = d.key
           /\ NewRow(d).active = d.active /\ NewRow(d).knew = DOMAIN rows
<1>1. DOMAIN rows \subseteq Ids
  BY DraftAssumption DEF RowsInv, Ids
<1>2. day \in Nat
  BY DraftAssumption DEF RowsInv
<1>3. /\ StartOf(d) \in Nat
      /\ NewRow(d) \in ConfigRows /\ NewRow(d).table = d.table /\ NewRow(d).key = d.key
      /\ NewRow(d).active = d.active /\ NewRow(d).knew = DOMAIN rows
  BY <1>1, <1>2, RowOfRule DEF StartOf, NewRow
<1>4. ActiveRows(d) \subseteq DOMAIN rows
  BY DEF ActiveRows
<1>5. PreviousRows(d) \subseteq ActiveRows(d) /\ (d.active => PreviousRows(d) = ActiveRows(d))
  BY DEF PreviousRows
<1>6. \A t : \A s : OutlastedBy(t, s) \subseteq s
  BY DEF OutlastedBy
<1> QED BY <1>1, <1>3, <1>4, <1>5, <1>6

(* What an editor begins to save.                                          *)
BeginsSaving(e, d, s) ==
    /\ s \in Savings
    /\ saving[e] = Unset
    /\ saving' = [saving EXCEPT ![e] = s]
    /\ rows' = rows /\ day' = day /\ purchase' = purchase
    /\ s.ended \subseteq s.previous /\ s.previous \subseteq DOMAIN rows
    /\ \/ s.id = Unset /\ s.row = Unset /\ lastId' = lastId
       \/ /\ lastId < MaxRows /\ lastId' = lastId + 1 /\ s.id = lastId'
          /\ s.row = NewRow(d) /\ s.previous = PreviousRows(d)

LEMMA BeginRule ==
    ASSUME RowsInv, NEW e \in Editors, NEW d \in Drafts, SaveDisables(e, d) \/ SaveInserts(e, d)
    PROVE  \E s : BeginsSaving(e, d, s)
<1>1. d \in Forms
  BY DraftAssumption
<1>2. CASE SaveDisables(e, d)
  <2> DEFINE s == [id |-> Unset, row |-> Unset, previous |-> ActiveRows(d), at |-> StartOf(d),
                   ended |-> OutlastedBy(StartOf(d), ActiveRows(d))]
  <2>1. /\ s \in Savings /\ s.id = Unset /\ s.row = Unset
        /\ s.ended \subseteq s.previous /\ s.previous \subseteq DOMAIN rows
    BY <1>1, ActiveRowsRule DEF Savings
  <2>2. /\ saving[e] = Unset /\ saving' = [saving EXCEPT ![e] = s]
        /\ rows' = rows /\ day' = day /\ lastId' = lastId /\ purchase' = purchase
    BY <1>2 DEF SaveDisables
  <2> HIDE DEF s
  <2>3. BeginsSaving(e, d, s)
    BY <2>1, <2>2 DEF BeginsSaving
  <2> QED BY <2>3
<1>3. CASE SaveInserts(e, d)
  <2> DEFINE s == [id |-> lastId', row |-> NewRow(d), previous |-> PreviousRows(d),
                   at |-> StartOf(d), ended |-> OutlastedBy(StartOf(d), PreviousRows(d))]
  <2>1. /\ saving[e] = Unset /\ saving' = [saving EXCEPT ![e] = s]
        /\ rows' = rows /\ day' = day /\ purchase' = purchase
        /\ lastId < MaxRows /\ lastId' = lastId + 1
    BY <1>3 DEF SaveInserts
  <2>2. lastId' \in Ids
    BY <2>1, DraftAssumption DEF RowsInv, Ids
  <2>3. /\ s \in Savings /\ s.id = lastId' /\ s.row = NewRow(d) /\ s.previous = PreviousRows(d)
        /\ s.ended \subseteq s.previous /\ s.previous \subseteq DOMAIN rows
    BY <1>1, <2>2, ActiveRowsRule DEF Savings
  <2> HIDE DEF s
  <2>4. BeginsSaving(e, d, s)
    BY <2>1, <2>3 DEF BeginsSaving
  <2> QED BY <2>4
<1> QED BY <1>2, <1>3

LEMMA BeginStep ==
    ASSUME RowsInv, SavingInv, NEW e \in Editors, NEW d \in Drafts, NEW s, BeginsSaving(e, d, s)
    PROVE  RowsInv' /\ SavingInv'
<1>1. d \in Forms /\ MaxRows \in Nat
  BY DraftAssumption
<1>2. /\ s \in Savings /\ rows' = rows /\ day' = day /\ saving[e] = Unset
      /\ saving' = [saving EXCEPT ![e] = s]
      /\ s.ended \subseteq s.previous /\ s.previous \subseteq DOMAIN rows
  BY DEF BeginsSaving
<1>3. /\ lastId \in Nat /\ lastId' \in 0 .. MaxRows /\ lastId <= lastId' /\ Unset \notin Nat
      /\ DOMAIN rows \subseteq 1 .. lastId /\ DOMAIN rows \subseteq 1 .. lastId'
  BY <1>1, UnsetAssumption DEF BeginsSaving, RowsInv
<1>4. RowsInv'
  BY <1>2, <1>3 DEF RowsInv
<1>5. saving'[e] = s /\ \A f \in Editors : f # e => saving'[f] = saving[f]
  BY <1>2 DEF SavingInv
<1>6. saving' \in [Editors -> Savings \cup {Unset}]
  BY <1>2 DEF SavingInv
<1>7. /\ s.id \in ((1 .. lastId') \ DOMAIN rows) \cup {Unset}
      /\ s.id = Unset <=> s.row = Unset
      /\ s.id # Unset => s.id = lastId + 1
  <2>1. CASE s.id = Unset /\ s.row = Unset
    BY <2>1
  <2>2. CASE lastId' = lastId + 1 /\ s.id = lastId' /\ s.row = NewRow(d)
    <3>1. s.row # Unset
      BY <1>1, <2>2, ActiveRowsRule, RowFields
    <3>2. s.id \in 1 .. lastId' /\ s.id \notin 1 .. lastId /\ s.id # Unset
      BY <1>3, <2>2
    <3> QED BY <1>3, <2>2, <3>1, <3>2
  <2> QED BY <2>1, <2>2 DEF BeginsSaving
<1>8. s.row # Unset =>
        /\ s.row.knew \subseteq DOMAIN rows
        /\ \A i \in s.previous : SameKey(rows[i], s.row)
        /\ s.row.active => \A i \in s.row.knew :
              rows[i].active /\ SameKey(rows[i], s.row) => i \in s.previous
  <2> SUFFICES ASSUME s.row # Unset
               PROVE  /\ s.row.knew \subseteq DOMAIN rows
                      /\ \A i \in s.previous : SameKey(rows[i], s.row)
                      /\ s.row.active => \A i \in s.row.knew :
                            rows[i].active /\ SameKey(rows[i], s.row) => i \in s.previous
    OBVIOUS
  <2>1. s.row = NewRow(d) /\ s.previous = PreviousRows(d)
    BY DEF BeginsSaving
  <2>2. /\ s.row.table = d.table /\ s.row.key = d.key /\ s.row.active = d.active
        /\ s.row.knew = DOMAIN rows
        /\ PreviousRows(d) \subseteq ActiveRows(d)
        /\ d.active => PreviousRows(d) = ActiveRows(d)
    BY <1>1, <2>1, ActiveRowsRule
  <2> QED BY <2>1, <2>2 DEF ActiveRows, SameKey
<1>9. ASSUME NEW f \in Editors, saving'[f] # Unset
      PROVE  /\ saving'[f].id \in ((1 .. lastId') \ DOMAIN rows) \cup {Unset}
             /\ saving'[f].id = Unset <=> saving'[f].row = Unset
             /\ saving'[f].ended \subseteq saving'[f].previous
             /\ saving'[f].previous \subseteq DOMAIN rows
             /\ saving'[f].row # Unset =>
                   /\ saving'[f].row.knew \subseteq DOMAIN rows
                   /\ \A i \in saving'[f].previous : SameKey(rows[i], saving'[f].row)
                   /\ saving'[f].row.active =>
                         \A i \in saving'[f].row.knew :
                             rows[i].active /\ SameKey(rows[i], saving'[f].row) =>
                                 i \in saving'[f].previous
  <2>1. CASE f = e
    BY <1>2, <1>5, <1>7, <1>8, <2>1
  <2>2. CASE f # e
    <3>1. saving'[f] = saving[f]
      BY <1>5, <2>2
    <3>2. saving[f].id \in ((1 .. lastId') \ DOMAIN rows) \cup {Unset}
      BY <1>3, <1>9, <3>1 DEF SavingInv
    <3> QED BY <1>9, <3>1, <3>2 DEF SavingInv
  <2> QED BY <2>1, <2>2
<1>10. ASSUME NEW f \in Editors, NEW g \in Editors, f # g, saving'[f] # Unset,
              saving'[g] # Unset, saving'[f].id # Unset
       PROVE  saving'[f].id # saving'[g].id
  <2>1. \A h \in Editors : h # e /\ saving'[h] # Unset /\ s.id # Unset => saving'[h].id # s.id
    <3> SUFFICES ASSUME NEW h \in Editors, h # e, saving'[h] # Unset, s.id # Unset
                 PROVE  saving'[h].id # s.id
      OBVIOUS
    <3>1. saving[h].id \in (1 .. lastId) \cup {Unset}
      BY <1>5 DEF SavingInv
    <3> QED BY <1>3, <1>5, <1>7, <3>1
  <2>2. CASE f = e
    BY <1>5, <1>10, <2>1, <2>2
  <2>3. CASE g = e
    BY <1>5, <1>10, <2>1, <2>3
  <2>4. CASE f # e /\ g # e
    BY <1>5, <1>10, <2>4 DEF SavingInv
  <2> QED BY <2>2, <2>3, <2>4
<1>11. SavingInv'
  BY <1>2, <1>6, <1>9, <1>10 DEF SavingInv, SameKey
<1> QED BY <1>4, <1>11

(* A commit: the row of the save, and the rows it ends.                    *)
LEMMA CommitRule ==
    ASSUME RowsInv, SavingInv, NEW e \in Editors, SaveCommits(e)
    PROVE  /\ saving[e] # Unset /\ saving' = [saving EXCEPT ![e] = Unset]
           /\ lastId' = lastId /\ day' = day
           /\ saving[e] \in Savings /\ saving[e].previous \subseteq DOMAIN rows
           /\ DOMAIN rows' =
                 DOMAIN rows \cup (IF saving[e].id = Unset THEN {} ELSE {saving[e].id})
           /\ saving[e].id # Unset => rows'[saving[e].id] = saving[e].row
           /\ \A i \in DOMAIN rows :
                 /\ i # saving[e].id
                 /\ rows'[i] \in ConfigRows
                 /\ rows'[i].knew = rows[i].knew /\ rows'[i].table = rows[i].table
                 /\ rows'[i].key = rows[i].key
                 /\ rows'[i].active => rows[i].active /\ i \notin saving[e].previous
                 /\ i \notin saving[e].previous => rows'[i] = rows[i]
<1> DEFINE s   == saving[e]
           new == IF s.id = Unset THEN {} ELSE {s.id}
           off == [i \in s.previous |-> [rows[i] EXCEPT !.active = FALSE]]
<1>1. /\ s # Unset /\ saving' = [saving EXCEPT ![e] = Unset]
      /\ lastId' = lastId /\ day' = day
      /\ rows' = [i \in DOMAIN rows \cup new |->
                   IF i \in new THEN s.row
                   ELSE IF i \in s.ended THEN [off[i] EXCEPT !.until = s.at]
                   ELSE IF i \in s.previous THEN off[i] ELSE rows[i]]
  BY DEF SaveCommits
<1>2. /\ s \in Savings /\ s.previous \subseteq DOMAIN rows /\ s.ended \subseteq s.previous
      /\ s.id \notin DOMAIN rows \/ s.id = Unset
  BY <1>1 DEF SavingInv
<1>3. Unset \notin DOMAIN rows
  BY UnsetAssumption DEF RowsInv
<1>4. s.at \in Nat
  BY <1>2 DEF Savings
<1> HIDE DEF s
<1>5. ASSUME NEW i \in DOMAIN rows
      PROVE  /\ i # s.id
             /\ rows'[i] \in ConfigRows
             /\ rows'[i].knew = rows[i].knew /\ rows'[i].table = rows[i].table
             /\ rows'[i].key = rows[i].key
             /\ rows'[i].active => rows[i].active /\ i \notin s.previous
             /\ i \notin s.previous => rows'[i] = rows[i]
  <2>1. i # s.id /\ i \notin new
    BY <1>2, <1>3
  <2>2. rows[i] \in ConfigRows
    BY DEF RowsInv
  <2> DEFINE r == rows[i]
             o == [r EXCEPT !.active = FALSE]
             u == [o EXCEPT !.until = s.at]
  <2>3. /\ o \in ConfigRows /\ ~ o.active /\ o.knew = r.knew /\ o.table = r.table /\ o.key = r.key
        /\ u \in ConfigRows /\ ~ u.active /\ u.knew = r.knew /\ u.table = r.table /\ u.key = r.key
    BY <1>4, <2>2, EndedRule DEF ConfigRows, ConfigRowsOf
  <2>4. rows'[i] = IF i \in s.ended THEN u ELSE IF i \in s.previous THEN o ELSE r
    BY <1>1, <1>2, <2>1
  <2> HIDE DEF r, o, u
  <2>5. CASE i \in s.previous
    <3>1. rows'[i] = u \/ rows'[i] = o
      BY <2>4, <2>5
    <3> QED BY <2>1, <2>3, <2>5, <3>1 DEF r
  <2>6. CASE i \notin s.previous
    <3>1. rows'[i] = rows[i]
      BY <1>2, <2>4, <2>6 DEF r
    <3> QED BY <2>1, <2>2, <2>6, <3>1
  <2> QED BY <2>5, <2>6
<1>6. DOMAIN rows' = DOMAIN rows \cup new
  BY <1>1
<1>7. s.id # Unset => rows'[s.id] = s.row
  BY <1>1
<1> QED BY <1>1, <1>2, <1>5, <1>6, <1>7 DEF s

LEMMA CommitStep ==
    ASSUME RowsInv, SavingInv, NEW e \in Editors, SaveCommits(e)
    PROVE  RowsInv' /\ SavingInv'
<1> DEFINE s   == saving[e]
           new == IF s.id = Unset THEN {} ELSE {s.id}
<1>1. /\ s # Unset /\ saving' = [saving EXCEPT ![e] = Unset]
      /\ lastId' = lastId /\ day' = day
      /\ s \in Savings /\ s.previous \subseteq DOMAIN rows
      /\ DOMAIN rows' = DOMAIN rows \cup new
      /\ s.id # Unset => rows'[s.id] = s.row
  BY CommitRule
<1>2. \A i \in DOMAIN rows :
          /\ i # s.id
          /\ rows'[i] \in ConfigRows
          /\ rows'[i].knew = rows[i].knew /\ rows'[i].table = rows[i].table
          /\ rows'[i].key = rows[i].key
          /\ rows'[i].active => rows[i].active /\ i \notin s.previous
  BY CommitRule
<1>3. /\ s.id \in ((1 .. lastId) \ DOMAIN rows) \cup {Unset}
      /\ s.id = Unset <=> s.row = Unset
      /\ s.row # Unset => s.row.knew \subseteq DOMAIN rows
  BY <1>1 DEF SavingInv
<1>4. s.row \in ConfigRows \cup {Unset}
  BY <1>1 DEF Savings
<1> HIDE DEF s
<1>5. RowsInv'
  <2>1. DOMAIN rows' \subseteq 1 .. lastId
    BY <1>1, <1>3 DEF RowsInv
  <2>2. \A i \in DOMAIN rows' : rows'[i] \in ConfigRows /\ rows'[i].knew \subseteq DOMAIN rows'
    BY <1>1, <1>2, <1>3, <1>4 DEF RowsInv
  <2> QED BY <1>1, <2>1, <2>2 DEF RowsInv
<1>6. ASSUME NEW f \in Editors, saving'[f] # Unset
      PROVE  /\ f # e /\ saving'[f] = saving[f]
             /\ saving[f].id \in ((1 .. lastId) \ DOMAIN rows') \cup {Unset}
             /\ saving[f].previous \subseteq DOMAIN rows'
             /\ saving[f].row # Unset =>
                   /\ saving[f].row.knew \subseteq DOMAIN rows'
                   /\ \A i \in saving[f].previous : SameKey(rows'[i], saving[f].row)
                   /\ saving[f].row.active =>
                         \A i \in saving[f].row.knew :
                             rows'[i].active /\ SameKey(rows'[i], saving[f].row) =>
                                 i \in saving[f].previous
  <2>1. f # e /\ saving'[f] = saving[f]
    BY <1>1, <1>6 DEF SavingInv
  <2>2. saving[f].id \in ((1 .. lastId) \ DOMAIN rows') \cup {Unset}
    <3>1. saving[f].id \in ((1 .. lastId) \ DOMAIN rows) \cup {Unset}
      BY <1>6, <2>1 DEF SavingInv
    <3>2. saving[f].id # Unset => saving[f].id # s.id
      BY <1>1, <1>6, <2>1 DEF SavingInv, s
    <3> QED BY <1>1, <3>1, <3>2
  <2>3. saving[f].previous \subseteq DOMAIN rows
    BY <1>6, <2>1 DEF SavingInv
  <2>4. saving[f].row # Unset =>
                   /\ saving[f].row.knew \subseteq DOMAIN rows
                   /\ \A i \in saving[f].previous : SameKey(rows[i], saving[f].row)
                   /\ saving[f].row.active =>
                         \A i \in saving[f].row.knew :
                             rows[i].active /\ SameKey(rows[i], saving[f].row) =>
                                 i \in saving[f].previous
    BY <1>6, <2>1 DEF SavingInv
  <2> QED BY <1>1, <1>2, <2>1, <2>2, <2>3, <2>4 DEF SameKey
<1>7. saving' \in [Editors -> Savings \cup {Unset}]
  BY <1>1 DEF SavingInv
<1>8. \A f, g \in Editors :
          (f # g /\ saving'[f] # Unset /\ saving'[g] # Unset /\ saving'[f].id # Unset) =>
              saving'[f].id # saving'[g].id
  BY <1>6 DEF SavingInv
<1>9. \A f \in Editors : saving'[f] # Unset =>
          /\ saving'[f].id = Unset <=> saving'[f].row = Unset
          /\ saving'[f].ended \subseteq saving'[f].previous
  BY <1>6 DEF SavingInv
<1>10. SavingInv'
  BY <1>1, <1>6, <1>7, <1>8, <1>9 DEF SavingInv, SameKey
<1> QED BY <1>5, <1>10

LEMMA RowsStep == RowsInv /\ SavingInv /\ [CatalogueNext]_catalogueVars => RowsInv' /\ SavingInv'
<1> SUFFICES ASSUME RowsInv, SavingInv, [CatalogueNext]_catalogueVars
             PROVE  RowsInv' /\ SavingInv'
  OBVIOUS
<1>1. ASSUME NEW e \in Editors, NEW d \in Drafts, SaveDisables(e, d) \/ SaveInserts(e, d)
      PROVE  RowsInv' /\ SavingInv'
  BY <1>1, BeginRule, BeginStep
<1>2. ASSUME NEW e \in Editors, SaveFails(e)
      PROVE  RowsInv' /\ SavingInv'
  <2>1. /\ saving' = [saving EXCEPT ![e] = Unset]
        /\ rows' = rows /\ day' = day /\ lastId' = lastId
    BY <1>2 DEF SaveFails
  <2>2. /\ saving' \in [Editors -> Savings \cup {Unset}]
        /\ \A f \in Editors : saving'[f] # Unset => saving'[f] = saving[f]
    BY <2>1 DEF SavingInv
  <2>3. SavingInv'
    BY <2>1, <2>2 DEF SavingInv, SameKey
  <2> QED BY <2>1, <2>3 DEF RowsInv
<1>3. ASSUME rows' = rows, saving' = saving, lastId' = lastId, day' \in 0 .. MaxDay
      PROVE  RowsInv' /\ SavingInv'
  BY <1>3 DEF RowsInv, SavingInv, SameKey
<1>4. CASE DayPasses
  <2>1. day' \in 0 .. MaxDay
    BY <1>4, DraftAssumption DEF DayPasses, RowsInv
  <2> QED BY <1>3, <1>4, <2>1 DEF DayPasses
<1>5. CASE (\E b \in Buys : Pays(b)) \/ Verifies \/ RecordsOrder \/ UNCHANGED catalogueVars
  <2>1. rows' = rows /\ saving' = saving /\ lastId' = lastId /\ day' = day
    BY <1>5 DEF Pays, Verifies, RecordsOrder, catalogueVars
  <2> QED BY <1>3, <2>1 DEF RowsInv
<1> QED BY <1>1, <1>2, <1>4, <1>5, CommitStep DEF CatalogueNext

-----------------------------------------------------------------------------
(* One value per key.                                                      *)

LEMMA OneActiveStart == CatalogueInit => OneActivePerKey
<1> SUFFICES ASSUME CatalogueInit, NEW i \in DOMAIN rows, NEW j \in DOMAIN rows, i # j,
                    rows[i].active, rows[j].active, SameKey(rows[i], rows[j])
             PROVE  FALSE
  BY DEF OneActivePerKey
<1>1. i \in 1 .. Len(Configured) /\ j \in 1 .. Len(Configured)
  BY DEF CatalogueInit
<1>2. /\ rows[i] = RowOf(Configured[i], 0, 1 .. (i - 1))
      /\ rows[j] = RowOf(Configured[j], 0, 1 .. (j - 1))
  BY <1>1 DEF CatalogueInit
<1>3. /\ Configured[i].active /\ Configured[j].active
      /\ rows[i].table = Configured[i].table /\ rows[j].table = Configured[j].table
      /\ rows[i].key = Configured[i].key /\ rows[j].key = Configured[j].key
  <2>1. \A d, n, k : RowOf(d, n, k).table = d.table /\ RowOf(d, n, k).key = d.key
    BY DEF RowOf
  <2> DEFINE seen(k) == 1 .. (k - 1)
  <2>2. rows[i] = RowOf(Configured[i], 0, seen(i)) /\ rows[j] = RowOf(Configured[j], 0, seen(j))
    BY <1>2
  <2> HIDE DEF seen
  <2>3. /\ rows[i].table = Configured[i].table /\ rows[j].table = Configured[j].table
        /\ rows[i].key = Configured[i].key /\ rows[j].key = Configured[j].key
    BY <2>1, <2>2
  <2>4. ASSUME NEW d, NEW n, NEW k, RowOf(d, n, k).active
        PROVE  d.active
    BY <2>4 DEF RowOf
  <2>5. Configured[i].active /\ Configured[j].active
    BY <2>2, <2>4
  <2> QED BY <2>3, <2>5
<1> QED BY <1>1, <1>3, DraftAssumption DEF SameKey

LEMMA OneActiveStep ==
    RowsInv /\ SavingInv /\ OneActivePerKey /\ [CatalogueNext]_catalogueVars => OneActivePerKey'
<1> SUFFICES ASSUME RowsInv, SavingInv, OneActivePerKey, [CatalogueNext]_catalogueVars
             PROVE  OneActivePerKey'
  OBVIOUS
<1>1. CASE rows' = rows
  BY <1>1 DEF OneActivePerKey, SameKey
<1>2. ASSUME NEW e \in Editors, SaveCommits(e)
      PROVE  OneActivePerKey'
  <2> DEFINE s == saving[e]
  <2>1. /\ s # Unset
        /\ s.id # Unset => rows'[s.id] = s.row
        /\ DOMAIN rows' = DOMAIN rows \cup (IF s.id = Unset THEN {} ELSE {s.id})
    BY <1>2, CommitRule
  <2>2. \A i \in DOMAIN rows :
          /\ i # s.id
          /\ rows'[i].knew = rows[i].knew /\ rows'[i].table = rows[i].table
          /\ rows'[i].key = rows[i].key
          /\ rows'[i].active => rows[i].active /\ i \notin s.previous
    BY <1>2, CommitRule
  <2>3. /\ s.id \in ((1 .. lastId) \ DOMAIN rows) \cup {Unset}
        /\ s.id = Unset <=> s.row = Unset
        /\ s.row # Unset /\ s.row.active =>
              \A i \in s.row.knew :
                  rows[i].active /\ SameKey(rows[i], s.row) => i \in s.previous
    BY <2>1 DEF SavingInv
  <2> HIDE DEF s
  <2>4. ASSUME NEW i \in DOMAIN rows, s.id # Unset, rows'[i].active, rows'[s.id].active,
               SameKey(rows'[i], rows'[s.id])
        PROVE  i \notin rows'[s.id].knew /\ s.id \notin rows'[i].knew
    <3>1. i \notin s.row.knew
      BY <2>1, <2>2, <2>3, <2>4 DEF SameKey
    <3>2. s.id \notin DOMAIN rows
      BY <2>3, <2>4
    <3>3. s.id \notin rows[i].knew
      BY <3>2 DEF RowsInv
    <3> QED BY <2>1, <2>2, <2>4, <3>1, <3>3
  <2> SUFFICES ASSUME NEW i \in DOMAIN rows', NEW j \in DOMAIN rows', i # j,
                      rows'[i].active, rows'[j].active, SameKey(rows'[i], rows'[j])
               PROVE  i \notin rows'[j].knew /\ j \notin rows'[i].knew
    BY DEF OneActivePerKey, SameKey
  <2>5. CASE i \in DOMAIN rows /\ j \in DOMAIN rows
    BY <2>2, <2>5 DEF OneActivePerKey, SameKey
  <2>6. CASE i \in DOMAIN rows /\ j \notin DOMAIN rows
    <3>1. j = s.id /\ s.id # Unset
      BY <2>1, <2>6
    <3> QED BY <2>4, <2>6, <3>1
  <2>7. CASE i \notin DOMAIN rows /\ j \in DOMAIN rows
    <3>1. i = s.id /\ s.id # Unset
      BY <2>1, <2>7
    <3>2. SameKey(rows'[j], rows'[i])
      BY DEF SameKey
    <3> QED BY <2>4, <2>7, <3>1, <3>2
  <2>8. i \in DOMAIN rows \/ j \in DOMAIN rows
    BY <2>1
  <2> QED BY <2>5, <2>6, <2>7, <2>8
<1>3. (\E e \in Editors : SaveCommits(e)) \/ rows' = rows
  BY DEF CatalogueNext, catalogueVars, SaveDisables, SaveInserts, SaveFails, DayPasses,
         Pays, Verifies, RecordsOrder
<1> QED BY <1>1, <1>2, <1>3

(* Why a key loses its value.                                              *)
LostChoice ==
    \A t \in ConfigTables : \A k \in {rows[i].key : i \in RowsInForce(t)} :
        (\A i \in RowsInForce(t)' : rows'[i].key # k) =>
            \/ /\ day' # day
               /\ \E i \in RowsInForce(t) : rows[i].key = k /\ rows[i].until = day'
            \/ \E e \in Editors :
                  /\ saving[e] # Unset /\ saving'[e] = Unset
                  /\ \E i \in saving[e].previous : rows[i].table = t /\ rows[i].key = k
                  /\ saving[e].row = Unset \/ ~ InForce(saving[e].row)

LEMMA LostStep ==
    RowsInv /\ SavingInv /\ [CatalogueNext]_catalogueVars => LostChoice
<1> SUFFICES ASSUME RowsInv, SavingInv, [CatalogueNext]_catalogueVars,
                    NEW t \in ConfigTables, NEW k,
                    NEW i \in RowsInForce(t), rows[i].key = k,
                    \A j \in RowsInForce(t)' : rows'[j].key # k
             PROVE  \/ /\ day' # day
                       /\ \E j \in RowsInForce(t) : rows[j].key = k /\ rows[j].until = day'
                    \/ \E e \in Editors :
                          /\ saving[e] # Unset /\ saving'[e] = Unset
                          /\ \E j \in saving[e].previous :
                                rows[j].table = t /\ rows[j].key = k
                          /\ saving[e].row = Unset \/ ~ InForce(saving[e].row)
  BY DEF LostChoice
<1>1. \A j \in DOMAIN rows' :
          ~ (/\ rows'[j].table = t /\ rows'[j].key = k /\ rows'[j].active
             /\ rows'[j].from = Unset \/ rows'[j].from <= day'
             /\ rows'[j].until = Unset \/ rows'[j].until > day')
  BY DEF RowsInForce, InForce
<1>2. /\ i \in DOMAIN rows /\ rows[i].table = t /\ rows[i].active
      /\ rows[i].from = Unset \/ rows[i].from <= day
      /\ rows[i].until = Unset \/ rows[i].until > day
      /\ rows[i] \in ConfigRows /\ day \in Nat
  BY DraftAssumption DEF RowsInForce, InForce, RowsInv
<1>3. rows[i].from \in Nat /\ rows[i].until \in Nat \cup {Unset} /\ Unset \notin Nat
  BY <1>2, RowFields, UnsetAssumption
<1>4. CASE DayPasses
  <2>1. rows' = rows /\ day' = day + 1
    BY <1>4 DEF DayPasses
  <2>2. rows[i].until # Unset /\ ~ (rows[i].until > day')
    BY <1>1, <1>2, <1>3, <2>1
  <2>3. rows[i].until = day' /\ day' # day
    BY <1>2, <1>3, <2>1, <2>2
  <2> QED BY <2>3
<1>5. ASSUME NEW e \in Editors, SaveCommits(e)
      PROVE  /\ saving[e] # Unset /\ saving'[e] = Unset
             /\ \E j \in saving[e].previous : rows[j].table = t /\ rows[j].key = k
             /\ saving[e].row = Unset \/ ~ InForce(saving[e].row)
  <2>1. /\ saving[e] # Unset /\ saving' = [saving EXCEPT ![e] = Unset] /\ day' = day
        /\ DOMAIN rows' =
              DOMAIN rows \cup (IF saving[e].id = Unset THEN {} ELSE {saving[e].id})
        /\ saving[e].id # Unset => rows'[saving[e].id] = saving[e].row
        /\ \A j \in DOMAIN rows : j \notin saving[e].previous => rows'[j] = rows[j]
    BY <1>5, CommitRule
  <2>2. saving'[e] = Unset
    BY <2>1 DEF SavingInv
  <2>3. i \in saving[e].previous
    <3>1. ASSUME i \notin saving[e].previous
          PROVE  FALSE
      <4>1. rows'[i] = rows[i] /\ i \in DOMAIN rows'
        BY <1>2, <2>1, <3>1
      <4> QED BY <1>1, <1>2, <2>1, <4>1
    <3> QED BY <3>1
  <2>4. rows[i].table = t /\ rows[i].key = k
    BY <1>2
  <2>5. ASSUME saving[e].row # Unset
        PROVE  ~ InForce(saving[e].row)
    <3>1. saving[e].id # Unset /\ SameKey(rows[i], saving[e].row)
      BY <2>1, <2>3, <2>5 DEF SavingInv
    <3>2. saving[e].id \in DOMAIN rows' /\ rows'[saving[e].id] = saving[e].row
      BY <2>1, <3>1
    <3>3. saving[e].row.table = t /\ saving[e].row.key = k
      BY <1>2, <3>1 DEF SameKey
    <3> QED BY <1>1, <2>1, <3>2, <3>3 DEF InForce
  <2> QED BY <2>1, <2>2, <2>3, <2>4, <2>5
<1>6. CASE rows' = rows /\ day' = day
  BY <1>1, <1>2, <1>6
<1>7. DayPasses \/ (\E e \in Editors : SaveCommits(e)) \/ (rows' = rows /\ day' = day)
  BY DEF CatalogueNext, catalogueVars, SaveDisables, SaveInserts, SaveFails,
         Pays, Verifies, RecordsOrder
<1> QED BY <1>4, <1>5, <1>6, <1>7

LEMMA RowsHold == CatalogueSpec => [](RowsInv /\ SavingInv /\ OneActivePerKey)
BY RowsStart, RowsStep, OneActiveStart, OneActiveStep, PTL DEF CatalogueSpec

(* A key has one value in force, unless two saves overlapped, and keeps    *)
(* one, unless its window ends or a save replaces it by one that does not  *)
(* hold yet (save_pricing_rule, save_discount_rule, save_exchange_rate).   *)
THEOREM KeysKeepOne == CatalogueSpec => KeysKeepOneValue
<1>1. CatalogueSpec => [][LostChoice]_catalogueVars
  <2>1. RowsInv /\ SavingInv /\ [CatalogueNext]_catalogueVars => [LostChoice]_catalogueVars
    BY LostStep
  <2> QED BY <2>1, RowsHold, PTL DEF CatalogueSpec
<1>2. CatalogueSpec => LostByChoice
  BY <1>1 DEF LostChoice, LostByChoice
<1> QED BY <1>2, RowsHold, PTL DEF KeysKeepOneValue

-----------------------------------------------------------------------------
(* The first of the rows, in an order.                                     *)

(* A finite set has a first element, in an order that is total on it.      *)
LEMMA FiniteHasFirst ==
    ASSUME NEW S, IsFiniteSet(S), S # {}, NEW R,
           \A x, y \in S : x # y => <<x, y>> \in R \/ <<y, x>> \in R,
           \A x, y, z \in S : <<x, y>> \in R /\ <<y, z>> \in R => <<x, z>> \in R
    PROVE  \E x \in S : \A y \in S \ {x} : <<x, y>> \in R
<1> DEFINE HasFirst(T) == \E x \in T : \A y \in T \ {x} : <<x, y>> \in R
           without == {T \in SUBSET S : T # {} /\ ~ HasFirst(T)}
<1> SUFFICES ASSUME ~ HasFirst(S)
             PROVE  FALSE
  OBVIOUS
<1>1. S \in without /\ without \subseteq SUBSET S
  OBVIOUS
<1>2. IsWellFoundedOn(StrictSubsetOrdering(S), SUBSET S)
  <2>1. IsWellFoundedOn(StrictSubsetOrdering(S), FiniteSubsetsOf(S))
    BY FS_StrictSubsetOrderingWellFounded
  <2>2. FiniteSubsetsOf(S) = SUBSET S
    BY FS_FiniteSubsetsOfFinite
  <2> QED BY <2>1, <2>2
<1>3. PICK T \in without : \A U \in without : ~ (<<U, T>> \in StrictSubsetOrdering(S))
  <2> HIDE DEF without
  <2> QED BY <1>1, <1>2, WFMin
<1>4. T \subseteq S /\ T # {} /\ ~ HasFirst(T)
  BY <1>3
<1>5. PICK x \in T : TRUE
  BY <1>4
<1> DEFINE U == T \ {x}
<1>6. U \subseteq S /\ <<U, T>> \in StrictSubsetOrdering(S)
  BY <1>4, <1>5 DEF StrictSubsetOrdering
<1>7. CASE U = {}
  BY <1>4, <1>5, <1>7
<1>8. CASE U # {}
  <2>1. HasFirst(U)
    BY <1>3, <1>6, <1>8
  <2>2. PICK m \in U : \A y \in U \ {m} : <<m, y>> \in R
    BY <2>1
  <2>3. m \in S /\ x \in S /\ m # x /\ \A y \in T : y \in S
    BY <1>4, <1>5, <2>2
  <2>4. CASE <<m, x>> \in R
    <3>1. \A y \in T \ {m} : <<m, y>> \in R
      BY <2>2, <2>4
    <3> QED BY <1>4, <2>2, <3>1
  <2>5. CASE <<x, m>> \in R
    <3>1. \A y \in T \ {x} : <<x, y>> \in R
      BY <2>2, <2>3, <2>5
    <3> QED BY <1>4, <1>5, <3>1
  <2> QED BY <2>3, <2>4, <2>5
<1> QED BY <1>7, <1>8

BestOf(ids)   == FirstRow(ids, Overrides)
LatestOf(ids) == FirstRow(ids, Newer)

LEMMA RowIds ==
    ASSUME RowsInv, NEW ids \in SUBSET DOMAIN rows
    PROVE  /\ IsFiniteSet(ids) /\ ids \subseteq Nat /\ Unset \notin ids
           /\ \A i \in ids : rows[i] \in ConfigRows
<1>1. lastId \in Nat /\ 1 \in Int /\ lastId \in Int
  BY DraftAssumption DEF RowsInv
<1>2. IsFiniteSet(1 .. lastId) /\ ids \subseteq 1 .. lastId
  BY <1>1, FS_Interval DEF RowsInv
<1>3. ids \subseteq Nat
  BY <1>1, <1>2
<1>4. IsFiniteSet(ids)
  BY <1>2, FS_Subset
<1> QED BY <1>3, <1>4, UnsetAssumption DEF RowsInv

LEMMA OverridesOrder ==
    ASSUME RowsInv, NEW ids \in SUBSET DOMAIN rows
    PROVE  /\ \A i, j \in ids : i # j => Overrides(i, j) \/ Overrides(j, i)
           /\ \A i, j \in ids : ~ (Overrides(i, j) /\ Overrides(j, i))
           /\ \A i, j, k \in ids : Overrides(i, j) /\ Overrides(j, k) => Overrides(i, k)
<1> DEFINE rank(i) == Specificity[rows[i].key.scope]
           prio(i) == rows[i].priority
<1>1. ASSUME NEW i \in ids
      PROVE  rows[i].key.scope \in Scopes /\ rank(i) \in 1 .. 4 /\ prio(i) \in Nat /\ i \in Nat
  <2>1. rows[i] \in ConfigRows /\ i \in Nat
    BY RowIds
  <2>2. rows[i].key.scope \in Scopes /\ rows[i].priority \in Nat
    BY <2>1, RowFields
  <2>3. Specificity[rows[i].key.scope] \in 1 .. 4
    BY <2>2 DEF Specificity, Scopes
  <2> QED BY <2>1, <2>2, <2>3
<1>2. \A i, j \in ids : rows[i].key.scope = rows[j].key.scope <=> rank(i) = rank(j)
  BY <1>1 DEF Specificity, Scopes
<1>3. \A i, j \in ids :
          Overrides(i, j) <=> \/ rank(i) > rank(j)
                              \/ rank(i) = rank(j) /\ prio(i) > prio(j)
                              \/ rank(i) = rank(j) /\ prio(i) = prio(j) /\ i > j
  BY <1>2 DEF Overrides
<1> HIDE DEF rank, prio
<1> QED BY <1>1, <1>3

LEMMA NewerOrder ==
    ASSUME RowsInv, NEW ids \in SUBSET DOMAIN rows
    PROVE  /\ \A i, j \in ids : i # j => Newer(i, j) \/ Newer(j, i)
           /\ \A i, j \in ids : ~ (Newer(i, j) /\ Newer(j, i))
           /\ \A i, j, k \in ids : Newer(i, j) /\ Newer(j, k) => Newer(i, k)
<1> DEFINE start(i) == rows[i].from
<1>1. \A i \in ids : start(i) \in Nat /\ i \in Nat
  BY RowIds, RowFields
<1>2. \A i, j \in ids : Newer(i, j) <=> start(i) > start(j) \/ (start(i) = start(j) /\ i > j)
  BY DEF Newer
<1> HIDE DEF start
<1> QED BY <1>1, <1>2

(* The best and the latest of some rows are the first of them.             *)
LEMMA BestRule ==
    ASSUME RowsInv, NEW ids \in SUBSET DOMAIN rows, ids # {}
    PROVE  /\ BestOf(ids) \in ids
           /\ \A j \in ids \ {BestOf(ids)} : Overrides(BestOf(ids), j)
           /\ \A i \in ids : (\A j \in ids \ {i} : Overrides(i, j)) => BestOf(ids) = i
<1> DEFINE R == {p \in ids \X ids : Overrides(p[1], p[2])}
<1>1. \A i, j \in ids : <<i, j>> \in R <=> Overrides(i, j)
  OBVIOUS
<1> HIDE DEF R
<1>2. \A i, j \in ids : i # j => <<i, j>> \in R \/ <<j, i>> \in R
  BY <1>1, OverridesOrder
<1>3. \A i, j, k \in ids : <<i, j>> \in R /\ <<j, k>> \in R => <<i, k>> \in R
  BY <1>1, OverridesOrder
<1>4. \E i \in ids : \A j \in ids \ {i} : <<i, j>> \in R
  BY <1>2, <1>3, RowIds, FiniteHasFirst
<1>5. \E i \in ids : \A j \in ids \ {i} : Overrides(i, j)
  BY <1>1, <1>4
<1> DEFINE b == CHOOSE i \in ids : \A j \in ids \ {i} : Overrides(i, j)
<1>6. b \in ids /\ \A j \in ids \ {b} : Overrides(b, j)
  BY <1>5
<1>7. BestOf(ids) = b
  BY DEF BestOf, FirstRow
<1> HIDE DEF b
<1>8. ASSUME NEW i \in ids, \A j \in ids \ {i} : Overrides(i, j)
      PROVE  b = i
  <2>1. ASSUME b # i
        PROVE  FALSE
    BY <1>6, <1>8, <2>1, OverridesOrder
  <2> QED BY <2>1
<1> QED BY <1>6, <1>7, <1>8

LEMMA LatestRule ==
    ASSUME RowsInv, NEW ids \in SUBSET DOMAIN rows, ids # {}
    PROVE  /\ LatestOf(ids) \in ids
           /\ \A j \in ids \ {LatestOf(ids)} : Newer(LatestOf(ids), j)
           /\ \A i \in ids : (\A j \in ids \ {i} : Newer(i, j)) => LatestOf(ids) = i
<1> DEFINE R == {p \in ids \X ids : Newer(p[1], p[2])}
<1>1. \A i, j \in ids : <<i, j>> \in R <=> Newer(i, j)
  OBVIOUS
<1> HIDE DEF R
<1>2. \A i, j \in ids : i # j => <<i, j>> \in R \/ <<j, i>> \in R
  BY <1>1, NewerOrder
<1>3. \A i, j, k \in ids : <<i, j>> \in R /\ <<j, k>> \in R => <<i, k>> \in R
  BY <1>1, NewerOrder
<1>4. \E i \in ids : \A j \in ids \ {i} : <<i, j>> \in R
  BY <1>2, <1>3, RowIds, FiniteHasFirst
<1>5. \E i \in ids : \A j \in ids \ {i} : Newer(i, j)
  BY <1>1, <1>4
<1> DEFINE b == CHOOSE i \in ids : \A j \in ids \ {i} : Newer(i, j)
<1>6. b \in ids /\ \A j \in ids \ {b} : Newer(b, j)
  BY <1>5
<1>7. LatestOf(ids) = b
  BY DEF LatestOf, FirstRow
<1> HIDE DEF b
<1>8. ASSUME NEW i \in ids, \A j \in ids \ {i} : Newer(i, j)
      PROVE  b = i
  <2>1. ASSUME b # i
        PROVE  FALSE
    BY <1>6, <1>8, <2>1, NewerOrder
  <2> QED BY <2>1
<1> QED BY <1>6, <1>7, <1>8

-----------------------------------------------------------------------------
(* The price.                                                              *)

RulesAmong(t, scopes) == {i \in RowsInForce(t) : rows[i].key.scope \in scopes}

(* Either way of looking for it, the best rule is the same.                *)
LEMMA SameRule ==
    ASSUME NEW t, NEW scopes
    PROVE  /\ BestScopedRule(RowsInForce(t), scopes) = GetBestRule(t, scopes)
           /\ GetBestRule(t, scopes) =
                 IF RulesAmong(t, scopes) = {} THEN Unset ELSE BestOf(RulesAmong(t, scopes))
BY DEF BestScopedRule, GetBestRule, BestOf, FirstRow, RulesAmong

LEMMA ChosenRule ==
    ASSUME RowsInv, NEW t \in ConfigTables, NEW scopes
    PROVE  LET g == GetBestRule(t, scopes) IN
           /\ g = Unset <=> RulesAmong(t, scopes) = {}
           /\ g # Unset => /\ g \in RulesAmong(t, scopes) /\ ValueOf(g) \in Values[t]
                           /\ g = BestOf(RulesAmong(t, scopes))
<1> DEFINE g == GetBestRule(t, scopes)
<1>1. RulesAmong(t, scopes) \in SUBSET DOMAIN rows
  BY DEF RulesAmong, RowsInForce
<1>2. CASE RulesAmong(t, scopes) = {}
  <2>1. g = Unset
    BY <1>2, SameRule
  <2> QED BY <1>2, <2>1
<1>3. CASE RulesAmong(t, scopes) # {}
  <2>1. g = BestOf(RulesAmong(t, scopes))
    BY <1>3, SameRule
  <2>2. g \in RulesAmong(t, scopes)
    BY <1>1, <1>3, <2>1, BestRule
  <2>3. g # Unset /\ rows[g] \in ConfigRows
    BY <1>1, <2>2, RowIds
  <2>4. rows[g].table = t
    BY <2>2 DEF RulesAmong, RowsInForce
  <2>5. rows[g].value \in Values[t]
    BY <2>3, <2>4, RowFields
  <2> QED BY <1>3, <2>1, <2>2, <2>3, <2>5 DEF ValueOf
<1> QED BY <1>2, <1>3

LEMMA ChosenRate ==
    ASSUME RowsInv
    PROVE  /\ ActiveRate = Unset <=> RowsInForce("rate") = {}
           /\ ActiveRate # Unset => /\ ActiveRate = LatestOf(RowsInForce("rate"))
                                    /\ ValueOf(ActiveRate) \in Values["rate"]
<1> DEFINE g == ActiveRate
           ids == RowsInForce("rate")
<1>1. ids \in SUBSET DOMAIN rows
  BY DEF RowsInForce
<1>2. g = IF ids = {} THEN Unset ELSE LatestOf(ids)
  BY DEF ActiveRate, LatestOf, FirstRow
<1>3. CASE ids = {}
  BY <1>2, <1>3
<1>4. CASE ids # {}
  <2>1. g = LatestOf(ids)
    BY <1>2, <1>4
  <2>2. g \in ids
    BY <1>1, <1>4, <2>1, LatestRule
  <2>3. g # Unset /\ rows[g] \in ConfigRows
    BY <1>1, <2>2, RowIds
  <2>4. rows[g].table = "rate"
    BY <2>2 DEF RowsInForce
  <2>5. rows[g].value \in Values["rate"]
    BY <2>3, <2>4, RowFields
  <2> QED BY <1>4, <2>1, <2>3, <2>5 DEF ValueOf
<1> QED BY <1>3, <1>4

LEMMA Amounts ==
    /\ \A n \in Int : AtLeastZero(n) \in Nat
    /\ \A n \in Nat : AtLeastZero(n) = n
    /\ \A n \in Nat : RoundToStep(n) \in Nat
    /\ \A v, n \in Nat : v * n \in Nat
    /\ \A p, n \in Nat : PercentOf(p, n) \in Nat
    /\ \A v : \A n \in Nat : v.amount \in Nat => Adjustment(v, n) \in Nat
<1>1. \A n \in Int : AtLeastZero(n) \in Nat
  BY DEF AtLeastZero
<1>2. \A n \in Nat : AtLeastZero(n) = n
  BY DEF AtLeastZero
<1>3. \A v, n \in Nat : v * n \in Nat
  OBVIOUS
<1>4. \A a \in Nat : RoundQuotient(a, 100) \in Nat
  BY DEF RoundQuotient
<1>5. \A v : \A n \in Nat : v.amount \in Nat => Adjustment(v, n) \in Nat
  BY <1>3, <1>4 DEF Adjustment
<1>6. \A p, n \in Nat : PercentOf(p, n) \in Nat
  BY <1>5 DEF PercentOf
<1>7. ASSUME NEW n \in Nat
      PROVE  RoundToStep(n) \in Nat
  <2>1. 2 * n + Step \in Nat /\ 2 * Step \in Nat \ {0} /\ Step \in Nat
    BY PriceAssumption
  <2>2. \A a \in Nat : \A b \in Nat \ {0} : a \div b \in Nat
    OBVIOUS
  <2>3. (2 * n + Step) \div (2 * Step) \in Nat
    BY <2>1, <2>2
  <2> QED BY <1>3, <2>1, <2>3 DEF RoundToStep
<1> QED BY <1>1, <1>2, <1>3, <1>5, <1>6, <1>7

(* What changes no row and does not take a day leaves the choices alone.   *)
LEMMA SameChoices ==
    ASSUME rows' = rows, day' = day
    PROVE  /\ ActiveRate' = ActiveRate
           /\ \A t, scopes : GetBestRule(t, scopes)' = GetBestRule(t, scopes)
           /\ \A t, scopes : BestScopedRule(RowsInForce(t), scopes)'
                                = BestScopedRule(RowsInForce(t), scopes)
<1>1. ActiveRate' = ActiveRate
  BY DEF ActiveRate, FirstRow, RowsInForce, InForce, Newer
<1>2. \A t, scopes : GetBestRule(t, scopes)' = GetBestRule(t, scopes)
  BY DEF GetBestRule, FirstRow, RowsInForce, InForce, Overrides
<1> QED BY <1>1, <1>2 DEF GetBestRule, BestScopedRule

LEMMA SameQuote ==
    ASSUME rows' = rows, day' = day
    PROVE  \A c \in BOOLEAN : Quote(c)' = Quote(c)
BY SameChoices DEF Quote, ValueOf, OfTotal, IsAbsolute

(* The quote, in the words of the order: the rule, the discount and the    *)
(* rate that an order of this moment would find.                           *)
LEMMA QuoteRule ==
    ASSUME NEW c
    PROVE  LET r    == GetBestRule("pricing", Matching(c))
               d    == GetBestRule("discount", Matching(c))
               cv   == Cost * (IF ActiveRate = Unset THEN 1 ELSE ValueOf(ActiveRate).rate)
               mk   == IF ActiveRate = Unset THEN 0 ELSE ValueOf(ActiveRate).markup
               tot  == IF IsAbsolute(r) THEN ValueOf(r).amount
                       ELSE cv + (IF r # Unset THEN Adjustment(ValueOf(r), cv)
                                  ELSE PercentOf(mk, cv))
               off  == IF d = Unset THEN 0
                       ELSE Adjustment(ValueOf(d), IF OfTotal(d) THEN tot ELSE cv)
               sale == AtLeastZero(tot - off) IN
           Quote(c) = IF IsAbsolute(r) THEN sale ELSE RoundToStep(sale)
BY SameRule DEF Quote

(* If a rate is in force, the quote is what an order at that rate costs.   *)
LEMMA QuoteIsTotal == QuoteMatchesCharge
<1> SUFFICES ASSUME ActiveRate # Unset, NEW c \in BOOLEAN
             PROVE  Quote(c) = OrderTotal(c, ValueOf(ActiveRate).rate)
  BY DEF QuoteMatchesCharge
<1> DEFINE r   == GetBestRule("pricing", Matching(c))
           d   == GetBestRule("discount", Matching(c))
           cv  == Cost * ValueOf(ActiveRate).rate
           mk  == ValueOf(ActiveRate).markup
           tot == IF IsAbsolute(r) THEN ValueOf(r).amount
                  ELSE cv + (IF r # Unset THEN Adjustment(ValueOf(r), cv) ELSE PercentOf(mk, cv))
           off == IF d = Unset THEN 0
                  ELSE Adjustment(ValueOf(d), IF OfTotal(d) THEN tot ELSE cv)
           sale == AtLeastZero(tot - off)
<1>1. Quote(c) = IF IsAbsolute(r) THEN sale ELSE RoundToStep(sale)
  BY QuoteRule
<1> DEFINE up  == IF r # Unset THEN Adjustment(ValueOf(r), cv)
                  ELSE IF ActiveRate = Unset THEN 0 ELSE PercentOf(mk, cv)
           bef == IF IsAbsolute(r) THEN ValueOf(r).amount ELSE cv + up
           bas == IF d # Unset /\ OfTotal(d) THEN bef ELSE cv
           com == AtLeastZero(bef - (IF d = Unset THEN 0 ELSE Adjustment(ValueOf(d), bas)))
<1>2. OrderTotal(c, ValueOf(ActiveRate).rate) = IF IsAbsolute(r) THEN com ELSE RoundToStep(com)
  BY DEF OrderTotal
<1>3. bef = tot
  OBVIOUS
<1>4. d # Unset => bas = IF OfTotal(d) THEN tot ELSE cv
  BY <1>3
<1>5. com = sale
  BY <1>3, <1>4
<1> QED BY <1>1, <1>2, <1>5

(* The amounts of a quote and of an order are natural numbers.             *)
LEMMA PriceType ==
    ASSUME RowsInv, NEW c
    PROVE  Quote(c) \in Nat /\ \A rate \in Nat : OrderTotal(c, rate) \in Nat
<1> DEFINE r == GetBestRule("pricing", Matching(c))
           d == GetBestRule("discount", Matching(c))
           v == ValueOf(ActiveRate)
<1>1. r # Unset => ValueOf(r).amount \in Nat
  BY ChosenRule DEF ConfigTables, Values
<1>2. d # Unset => ValueOf(d).amount \in Nat
  BY ChosenRule DEF ConfigTables, Values
<1>3. ActiveRate # Unset => v.rate \in Nat /\ v.markup \in Nat
  BY ChosenRate DEF Values
<1>4. IsAbsolute(r) => r # Unset
  BY DEF IsAbsolute
<1>5. ASSUME NEW before \in Nat, NEW basis \in Nat
      PROVE  before - (IF d = Unset THEN 0 ELSE Adjustment(ValueOf(d), basis)) \in Int
  <2>1. d # Unset => Adjustment(ValueOf(d), basis) \in Nat
    BY <1>2, Amounts
  <2> QED BY <2>1
<1>6. ASSUME NEW basis \in Nat, NEW m \in Nat
      PROVE  /\ r # Unset => basis + Adjustment(ValueOf(r), basis) \in Nat
             /\ basis + PercentOf(m, basis) \in Nat
  <2>1. r # Unset => Adjustment(ValueOf(r), basis) \in Nat
    BY <1>1, Amounts
  <2>2. PercentOf(m, basis) \in Nat
    BY Amounts
  <2> QED BY <2>1, <2>2
<1> HIDE DEF r, d, v
<1>7. Quote(c) \in Nat
  <2> DEFINE cv  == Cost * (IF ActiveRate = Unset THEN 1 ELSE v.rate)
             mk  == IF ActiveRate = Unset THEN 0 ELSE v.markup
             tot == IF IsAbsolute(r) THEN ValueOf(r).amount
                    ELSE cv + (IF r # Unset THEN Adjustment(ValueOf(r), cv) ELSE PercentOf(mk, cv))
             off == IF d = Unset THEN 0
                    ELSE Adjustment(ValueOf(d), IF OfTotal(d) THEN tot ELSE cv)
             sale == AtLeastZero(tot - off)
  <2>1. Quote(c) = IF IsAbsolute(r) THEN sale ELSE RoundToStep(sale)
    BY QuoteRule DEF r, d, v
  <2>2. cv \in Nat /\ mk \in Nat
    BY <1>3, Amounts, PriceAssumption
  <2> HIDE DEF cv, mk
  <2>3. tot \in Nat
    BY <1>1, <1>4, <1>6, <2>2
  <2> HIDE DEF tot
  <2>4. tot - off \in Int
    <3> DEFINE basis == IF OfTotal(d) THEN tot ELSE cv
    <3>1. basis \in Nat
      BY <2>2, <2>3
    <3> HIDE DEF basis
    <3>2. tot - (IF d = Unset THEN 0 ELSE Adjustment(ValueOf(d), basis)) \in Int
      BY <1>5, <2>3, <3>1
    <3> QED BY <3>2 DEF basis
  <2> HIDE DEF off
  <2>5. sale \in Nat
    BY <2>4, Amounts
  <2> QED BY <2>1, <2>5, Amounts
<1>8. ASSUME NEW rate \in Nat
      PROVE  OrderTotal(c, rate) \in Nat
  <2> DEFINE sub == Cost * rate
             up  == IF r # Unset THEN Adjustment(ValueOf(r), sub)
                    ELSE IF ActiveRate = Unset THEN 0 ELSE PercentOf(v.markup, sub)
             bef == IF IsAbsolute(r) THEN ValueOf(r).amount ELSE sub + up
             bas == IF d # Unset /\ OfTotal(d) THEN bef ELSE sub
             com == AtLeastZero(bef - (IF d = Unset THEN 0 ELSE Adjustment(ValueOf(d), bas)))
  <2>1. OrderTotal(c, rate) = IF IsAbsolute(r) THEN com ELSE RoundToStep(com)
    BY DEF OrderTotal, r, d, v
  <2>2. sub \in Nat
    BY Amounts, PriceAssumption
  <2> HIDE DEF sub
  <2>3. bef \in Nat
    <3>1. ~ IsAbsolute(r) => sub + up \in Nat
      <4>1. CASE r # Unset
        BY <1>6, <2>2, <4>1
      <4>2. CASE r = Unset /\ ActiveRate # Unset
        BY <1>3, <1>6, <2>2, <4>2
      <4>3. CASE r = Unset /\ ActiveRate = Unset
        BY <2>2, <4>3
      <4> QED BY <4>1, <4>2, <4>3
    <3> QED BY <1>1, <1>4, <3>1
  <2> HIDE DEF bef
  <2>4. bas \in Nat
    BY <2>2, <2>3
  <2> HIDE DEF bas
  <2>5. com \in Nat
    BY <1>5, <2>3, <2>4, Amounts
  <2> QED BY <2>1, <2>5, Amounts
<1> QED BY <1>7, <1>8

(* The app is shown the markup that quotes apply.                          *)
LEMMA MarkupIsApplied == RowsInv => MarkupShownIsApplied
<1> DEFINE r  == GetBestRule("pricing", Scopes)
           cv == Cost * ValueOf(ActiveRate).rate
<1> SUFFICES ASSUME RowsInv, ActiveRate # Unset, GetBestRule("discount", Scopes) = Unset,
                    r = Unset \/ (rows[r].key.scope = "global" /\ ValueOf(r).kind = "percent")
             PROVE  Quote(TRUE) = RoundToStep(cv + PercentOf(GlobalMarkup, cv))
  BY DEF MarkupShownIsApplied
<1>1. Matching(TRUE) = Scopes
  BY DEF Matching
<1>2. ValueOf(ActiveRate).rate \in Nat /\ ValueOf(ActiveRate).markup \in Nat
  BY ChosenRate DEF Values
<1>3. cv \in Nat
  BY <1>2, Amounts, PriceAssumption
<1>4. ~ IsAbsolute(r)
  BY DEF IsAbsolute
<1> DEFINE mk == ValueOf(ActiveRate).markup
           up == IF r # Unset THEN Adjustment(ValueOf(r), cv) ELSE PercentOf(mk, cv)
<1>5. Quote(TRUE) = RoundToStep(AtLeastZero((cv + up) - 0))
  BY <1>1, <1>4, QuoteRule
<1> DEFINE g == GetBestRule("pricing", {"global"})
<1>6. up = PercentOf(GlobalMarkup, cv) /\ up \in Nat
  <2>1. CASE r = Unset
    <3>1. RulesAmong("pricing", Scopes) = {}
      BY <2>1, ChosenRule DEF ConfigTables
    <3>2. RulesAmong("pricing", {"global"}) = {}
      BY <3>1 DEF RulesAmong, Scopes
    <3>3. g = Unset
      BY <3>2, ChosenRule DEF ConfigTables
    <3>4. GlobalMarkup = mk
      BY <3>3 DEF GlobalMarkup
    <3>5. PercentOf(mk, cv) \in Nat
      BY <1>2, <1>3, Amounts
    <3> QED BY <2>1, <3>4, <3>5
  <2>2. CASE r # Unset
    <3>1. /\ r \in RulesAmong("pricing", Scopes) /\ r = BestOf(RulesAmong("pricing", Scopes))
          /\ ValueOf(r).amount \in Nat
      BY <2>2, ChosenRule DEF ConfigTables, Values
    <3>2. /\ RulesAmong("pricing", Scopes) \in SUBSET DOMAIN rows
          /\ RulesAmong("pricing", {"global"}) \in SUBSET DOMAIN rows
          /\ RulesAmong("pricing", {"global"}) \subseteq RulesAmong("pricing", Scopes)
      BY DEF RulesAmong, RowsInForce, Scopes
    <3>3. r \in RulesAmong("pricing", {"global"})
      BY <2>2, <3>1 DEF RulesAmong
    <3> DEFINE all == RulesAmong("pricing", Scopes)
               few == RulesAmong("pricing", {"global"})
    <3> HIDE DEF all, few, r
    <3>4. \A j \in all \ {r} : Overrides(r, j)
      BY <3>1, <3>2, BestRule DEF all
    <3>5. r = BestOf(few)
      BY <3>2, <3>3, <3>4, BestRule DEF all, few
    <3>6. g = r
      BY <3>3, <3>5, SameRule DEF few
    <3>7. ValueOf(r).kind = "percent"
      BY <2>2 DEF r
    <3>8. GlobalMarkup = ValueOf(r).amount
      BY <2>2, <3>6, <3>7 DEF GlobalMarkup
    <3>9. Adjustment(ValueOf(r), cv) = PercentOf(ValueOf(r).amount, cv)
      BY <3>7 DEF PercentOf, Adjustment
    <3>10. PercentOf(ValueOf(r).amount, cv) \in Nat
      BY <1>3, <3>1, Amounts
    <3> QED BY <2>2, <3>8, <3>9, <3>10
  <2> QED BY <2>1, <2>2
<1> HIDE DEF cv, up
<1>7. (cv + up) - 0 = cv + up /\ cv + up \in Nat
  BY <1>3, <1>6
<1>8. AtLeastZero((cv + up) - 0) = cv + up
  BY <1>7, Amounts
<1> QED BY <1>5, <1>6, <1>8 DEF cv

-----------------------------------------------------------------------------
(* The purchase.                                                           *)

Purchases == [stage : {"none", "paid", "refused", "bought", "recorded", "failed"},
              price : Nat, total : Nat, buy : Buys \cup {Unset}, undisturbed : BOOLEAN]

(* While nothing changes, the price of a purchase is what would be quoted. *)
PurchaseInv ==
    /\ purchase \in Purchases
    /\ purchase.stage # "none" => purchase.buy \in Buys
    /\ purchase.undisturbed =>
          /\ purchase.stage = "paid" => purchase.price = Quote(purchase.buy.single)
          /\ purchase.stage = "bought" => purchase.price = Quote(purchase.buy.named)

LEMMA BuyFields ==
    ASSUME NEW b \in Buys
    PROVE  /\ b.single \in BOOLEAN /\ b.named \in BOOLEAN /\ b.ownRate \in Nat \cup {Unset}
BY BuyAssumption

LEMMA PurchaseStart == CatalogueInit => PurchaseInv
<1> SUFFICES ASSUME CatalogueInit
             PROVE  PurchaseInv
  OBVIOUS
<1>1. purchase = [stage |-> "none", price |-> 0, total |-> 0, buy |-> Unset,
                  undisturbed |-> FALSE]
  BY DEF CatalogueInit
<1>2. purchase \in Purchases /\ purchase.stage = "none"
  BY <1>1 DEF Purchases
<1> QED BY <1>2 DEF PurchaseInv

LEMMA PaysStep ==
    ASSUME RowsInv, NEW b \in Buys, Pays(b)
    PROVE  PurchaseInv'
<1> DEFINE p == [stage |-> "paid", price |-> Quote(b.single), total |-> 0, buy |-> b,
                 undisturbed |-> TRUE]
<1>1. purchase' = p /\ rows' = rows /\ day' = day
  BY DEF Pays
<1>2. p \in Purchases /\ p.stage = "paid" /\ p.buy = b /\ p.price = Quote(b.single)
  BY PriceType DEF Purchases
<1> HIDE DEF p
<1>3. Quote(b.single)' = Quote(b.single)
  BY <1>1, BuyFields, SameQuote
<1> QED BY <1>1, <1>2, <1>3 DEF PurchaseInv

LEMMA VerifiesStep ==
    ASSUME RowsInv, PurchaseInv, Verifies
    PROVE  PurchaseInv'
<1>1. /\ purchase.stage \in {"paid", "refused"} /\ purchase.buy \in Buys /\ purchase \in Purchases
      /\ rows' = rows /\ day' = day
      /\ purchase' = IF Quote(purchase.buy.named) = purchase.price
                     THEN [purchase EXCEPT !.stage = "bought", !.undisturbed = TRUE]
                     ELSE [purchase EXCEPT !.stage = "refused"]
  BY DEF Verifies, PurchaseInv
<1>2. \A c \in BOOLEAN : Quote(c)' = Quote(c)
  BY <1>1, SameQuote
<1>3. CASE Quote(purchase.buy.named) = purchase.price
  <2> DEFINE p == [purchase EXCEPT !.stage = "bought", !.undisturbed = TRUE]
  <2>1. purchase' = p
    BY <1>1, <1>3
  <2>2. /\ p \in Purchases /\ p.stage = "bought" /\ p.buy = purchase.buy
        /\ p.price = purchase.price
    BY <1>1 DEF Purchases
  <2> HIDE DEF p
  <2> DEFINE c == purchase.buy.named
  <2>3. c \in BOOLEAN /\ Quote(c) = p.price /\ c = p.buy.named
    BY <1>1, <1>3, <2>2, BuyFields
  <2> QED BY <1>1, <1>2, <2>1, <2>2, <2>3 DEF PurchaseInv
<1>4. CASE Quote(purchase.buy.named) # purchase.price
  <2> DEFINE p == [purchase EXCEPT !.stage = "refused"]
  <2>1. purchase' = p
    BY <1>1, <1>4
  <2>2. p \in Purchases /\ p.stage = "refused" /\ p.buy = purchase.buy
    BY <1>1 DEF Purchases
  <2> HIDE DEF p
  <2> QED BY <1>1, <2>1, <2>2 DEF PurchaseInv
<1> QED BY <1>3, <1>4

LEMMA RecordStep ==
    ASSUME RowsInv, PurchaseInv, RecordsOrder
    PROVE  PurchaseInv'
<1> DEFINE rate == AppliedRate(purchase.buy.ownRate)
           sum  == OrderTotal(purchase.buy.named, rate)
<1>1. /\ purchase.stage = "bought" /\ purchase.buy \in Buys /\ purchase \in Purchases
      /\ purchase' = IF rate = Unset THEN [purchase EXCEPT !.stage = "failed"]
                     ELSE [purchase EXCEPT !.stage = "recorded", !.total = sum]
  BY DEF RecordsOrder, PurchaseInv
<1>2. rate # Unset => rate \in Nat
  <2>1. ActiveRate # Unset => ValueOf(ActiveRate).rate \in Nat
    BY ChosenRate DEF Values
  <2> QED BY <1>1, <2>1, BuyFields DEF AppliedRate
<1>3. rate # Unset => sum \in Nat
  BY <1>2, PriceType
<1> HIDE DEF rate, sum
<1>4. CASE rate = Unset
  <2> DEFINE p == [purchase EXCEPT !.stage = "failed"]
  <2>1. purchase' = p
    BY <1>1, <1>4
  <2>2. p \in Purchases /\ p.stage = "failed" /\ p.buy = purchase.buy
    BY <1>1 DEF Purchases
  <2> HIDE DEF p
  <2> QED BY <1>1, <2>1, <2>2 DEF PurchaseInv
<1>5. CASE rate # Unset
  <2> DEFINE p == [purchase EXCEPT !.stage = "recorded", !.total = sum]
  <2>1. purchase' = p
    BY <1>1, <1>5
  <2>2. p \in Purchases /\ p.stage = "recorded" /\ p.buy = purchase.buy
    BY <1>1, <1>3, <1>5 DEF Purchases
  <2> HIDE DEF p
  <2> QED BY <1>1, <2>1, <2>2 DEF PurchaseInv
<1> QED BY <1>4, <1>5

LEMMA PurchaseStep ==
    RowsInv /\ PurchaseInv /\ [CatalogueNext]_catalogueVars => PurchaseInv'
<1> SUFFICES ASSUME RowsInv, PurchaseInv, [CatalogueNext]_catalogueVars
             PROVE  PurchaseInv'
  OBVIOUS
<1>1. CASE purchase' = [purchase EXCEPT !.undisturbed = FALSE]
  <2> DEFINE p == [purchase EXCEPT !.undisturbed = FALSE]
  <2>1. /\ p \in Purchases /\ p.stage = purchase.stage /\ p.buy = purchase.buy
        /\ p.undisturbed = FALSE
    BY DEF PurchaseInv, Purchases
  <2>2. purchase' = p
    BY <1>1
  <2> HIDE DEF p
  <2> QED BY <2>1, <2>2 DEF PurchaseInv
<1>2. CASE purchase' = purchase /\ rows' = rows /\ day' = day
  <2>1. \A c \in BOOLEAN : Quote(c)' = Quote(c)
    BY <1>2, SameQuote
  <2>2. purchase.stage # "none" =>
            purchase.buy.single \in BOOLEAN /\ purchase.buy.named \in BOOLEAN
    BY BuyFields DEF PurchaseInv
  <2> QED BY <1>2, <2>1, <2>2 DEF PurchaseInv
<1>3. \/ purchase' = [purchase EXCEPT !.undisturbed = FALSE]
      \/ purchase' = purchase /\ rows' = rows /\ day' = day
      \/ \E b \in Buys : Pays(b)
      \/ Verifies
      \/ RecordsOrder
  BY DEF CatalogueNext, catalogueVars, SaveDisables, SaveInserts, SaveCommits, SaveFails,
         DayPasses
<1> QED BY <1>1, <1>2, <1>3, PaysStep, VerifiesStep, RecordStep

(* What a step makes of a purchase of the price shown.                     *)
HoldsPrice ==
    (/\ purchase.undisturbed /\ purchase.buy.named = purchase.buy.single
     /\ purchase.buy.ownRate = Unset /\ ActiveRate # Unset
     /\ purchase.stage # purchase'.stage)
    => /\ purchase.stage = "paid" => purchase'.stage = "bought"
       /\ purchase.stage = "bought" =>
             purchase'.stage = "recorded" /\ purchase'.total = purchase.price

LEMMA HoldsStep == RowsInv /\ PurchaseInv /\ [CatalogueNext]_catalogueVars => HoldsPrice
<1> SUFFICES ASSUME RowsInv, PurchaseInv, [CatalogueNext]_catalogueVars,
                    purchase.undisturbed, purchase.buy.named = purchase.buy.single,
                    purchase.buy.ownRate = Unset, ActiveRate # Unset,
                    purchase.stage # purchase'.stage
             PROVE  /\ purchase.stage = "paid" => purchase'.stage = "bought"
                    /\ purchase.stage = "bought" =>
                          purchase'.stage = "recorded" /\ purchase'.total = purchase.price
  BY DEF HoldsPrice
<1>1. purchase \in Purchases
  BY DEF PurchaseInv
<1>2. CASE Verifies
  <2>1. ASSUME purchase.stage = "paid"
        PROVE  purchase'.stage = "bought"
    <3>1. purchase.price = Quote(purchase.buy.named)
      BY <2>1 DEF PurchaseInv
    <3>2. purchase' = [purchase EXCEPT !.stage = "bought", !.undisturbed = TRUE]
      BY <1>2, <3>1 DEF Verifies
    <3> QED BY <1>1, <3>2 DEF Purchases
  <2>2. purchase.stage # "bought"
    BY <1>2 DEF Verifies
  <2> QED BY <2>1, <2>2
<1>3. CASE RecordsOrder
  <2> DEFINE rate == ValueOf(ActiveRate).rate
             c    == purchase.buy.named
  <2>1. rate \in Nat /\ rate # Unset
    BY ChosenRate, UnsetAssumption DEF Values
  <2>2. purchase.stage = "bought" /\ purchase.buy \in Buys
    BY <1>3 DEF RecordsOrder, PurchaseInv
  <2>3. AppliedRate(purchase.buy.ownRate) = rate
    BY DEF AppliedRate
  <2>4. purchase' = [purchase EXCEPT !.stage = "recorded", !.total = OrderTotal(c, rate)]
    BY <1>3, <2>1, <2>3 DEF RecordsOrder
  <2>5. c \in BOOLEAN
    BY <2>2, BuyFields
  <2>6. OrderTotal(c, rate) = Quote(c)
    BY <2>5, QuoteIsTotal DEF QuoteMatchesCharge
  <2>7. Quote(c) = purchase.price
    BY <2>2 DEF PurchaseInv
  <2> QED BY <1>1, <2>2, <2>4, <2>6, <2>7 DEF Purchases
<1>4. CASE purchase.stage \notin {"paid", "bought"}
  BY <1>4
<1>5. \/ Verifies \/ RecordsOrder \/ purchase.stage = "none"
      \/ purchase' = [purchase EXCEPT !.undisturbed = FALSE] \/ purchase' = purchase
  BY DEF CatalogueNext, catalogueVars, SaveDisables, SaveInserts, SaveCommits, SaveFails,
         DayPasses, Pays
<1>6. purchase' # purchase /\ purchase' # [purchase EXCEPT !.undisturbed = FALSE]
  BY <1>1 DEF Purchases
<1> QED BY <1>2, <1>3, <1>4, <1>5, <1>6

(* What a payment that passes the gate was of.                             *)
GatePrice ==
    (/\ purchase.stage # "bought" /\ purchase'.stage = "bought"
     /\ purchase.buy.ownRate = Unset /\ ActiveRate # Unset)
    => OrderTotal(purchase.buy.named, ValueOf(ActiveRate).rate) = purchase.price

LEMMA GateStep == PurchaseInv /\ [CatalogueNext]_catalogueVars => GatePrice
<1> SUFFICES ASSUME PurchaseInv, [CatalogueNext]_catalogueVars, ActiveRate # Unset,
                    purchase.stage # "bought", purchase'.stage = "bought"
             PROVE  OrderTotal(purchase.buy.named, ValueOf(ActiveRate).rate) = purchase.price
  BY DEF GatePrice
<1>1. purchase \in Purchases
  BY DEF PurchaseInv
<1>2. purchase' # purchase /\ purchase' # [purchase EXCEPT !.undisturbed = FALSE]
  BY <1>1 DEF Purchases
<1>3. Verifies
  <2>1. \/ Verifies \/ RecordsOrder \/ \E b \in Buys : Pays(b)
        \/ purchase' = [purchase EXCEPT !.undisturbed = FALSE] \/ purchase' = purchase
    BY DEF CatalogueNext, catalogueVars, SaveDisables, SaveInserts, SaveCommits, SaveFails,
           DayPasses
  <2>2. ASSUME NEW b \in Buys, Pays(b)
        PROVE  purchase'.stage = "paid"
    BY <2>2 DEF Pays
  <2>3. ~ RecordsOrder
    BY DEF RecordsOrder
  <2> QED BY <1>2, <2>1, <2>2, <2>3
<1>4. purchase.buy \in Buys
  BY <1>3 DEF Verifies, PurchaseInv
<1>5. Quote(purchase.buy.named) = purchase.price
  BY <1>1, <1>3 DEF Verifies, Purchases
<1> QED BY <1>4, <1>5, BuyFields, QuoteIsTotal DEF QuoteMatchesCharge

LEMMA PurchaseHolds == CatalogueSpec => [](RowsInv /\ SavingInv /\ PurchaseInv)
BY RowsHold, PurchaseStart, PurchaseStep, PTL DEF CatalogueSpec

THEOREM CatalogueTypeCorrect == CatalogueSpec => []CatalogueTypeOK
<1>1. RowsInv /\ SavingInv /\ PurchaseInv => CatalogueTypeOK
  BY DEF RowsInv, SavingInv, PurchaseInv, Purchases, CatalogueTypeOK
<1> QED BY <1>1, PurchaseHolds, PTL

(* The price shown is the price charged, whichever code computes it        *)
(* (quote_esim_sale_prices, save_managed_order), while nothing changes a   *)
(* payment of it passes the gate and is recorded, and whatever changes,    *)
(* only a payment of the price of the moment passes.                       *)
THEOREM ShownCharged == CatalogueSpec => ShownIsCharged
<1>1. RowsInv => QuoteMatchesCharge /\ MarkupShownIsApplied
  BY QuoteIsTotal, MarkupIsApplied
<1>2. CatalogueSpec => [][HoldsPrice]_catalogueVars
  <2>1. RowsInv /\ PurchaseInv /\ [CatalogueNext]_catalogueVars => [HoldsPrice]_catalogueVars
    BY HoldsStep
  <2> QED BY <2>1, PurchaseHolds, PTL DEF CatalogueSpec
<1>3. CatalogueSpec => PriceHolds
  BY <1>2 DEF HoldsPrice, PriceHolds
<1>4. CatalogueSpec => [][GatePrice]_catalogueVars
  <2>1. PurchaseInv /\ [CatalogueNext]_catalogueVars => [GatePrice]_catalogueVars
    BY GateStep
  <2> QED BY <2>1, PurchaseHolds, PTL DEF CatalogueSpec
<1>5. CatalogueSpec => GateHolds
  BY <1>4 DEF GatePrice, GateHolds
<1> QED BY <1>1, <1>3, <1>5, PurchaseHolds, PTL DEF ShownIsCharged
=============================================================================
