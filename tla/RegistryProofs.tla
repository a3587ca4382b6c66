--------------------------- MODULE RegistryProofs ---------------------------
(***************************************************************************)
(* Theorems about Registry, for every set of browsers, emails and URLs,    *)
(* and any number of submissions and calls.                                *)
(*                                                                         *)
(* The tables change in five ways only, whoever causes it (TableMove); the *)
(* forms change one at a time.  So the invariant has a part for the rows,  *)
(* a part for what refers to them, and a part for what a form has learnt.  *)
(***************************************************************************)
EXTENDS Registry, FiniteSetTheorems, TLAPS

Row == [id : Nat \ {0}, daraz_url : Url, owner : Identities]

\* What every stored URL looks like.
Stored(page) == [page |-> page, tracked |-> FALSE, plain |-> TRUE]

\* A URL is its three fields.
LEMMA UrlFields ==
  ASSUME NEW url \in Url
  PROVE  url = [page |-> url.page, tracked |-> url.tracked, plain |-> url.plain]
  <1>1. ASSUME NEW B PROVE
          \A u \in [page : STRING, tracked : B, plain : B] :
              u = [page |-> u.page, tracked |-> u.tracked, plain |-> u.plain]
    OBVIOUS
  <1> QED BY <1>1, Zenon DEF Url

\* The two conversions overwrite one field each.  (The value is named: the
\* provers treat a truth value in a record apart.)
LEMMA UrlUpdates ==
  ASSUME NEW page, NEW tracked, NEW plain
  PROVE  /\ HttpUrl([page |-> page, tracked |-> tracked, plain |-> plain])
                = [page |-> page, tracked |-> tracked, plain |-> TRUE]
         /\ normalize_daraz_url([page |-> page, tracked |-> tracked, plain |-> plain])
                = [page |-> page, tracked |-> FALSE, plain |-> plain]
  <1> DEFINE u == [page |-> page, tracked |-> tracked, plain |-> plain]
             t == TRUE
             f == FALSE
  <1> HIDE DEF t, f
  <1>1. [u EXCEPT !.plain = t] = [page |-> page, tracked |-> tracked, plain |-> t]
    OBVIOUS
  <1>2. [u EXCEPT !.tracked = f] = [page |-> page, tracked |-> f, plain |-> plain]
    OBVIOUS
  <1>3. HttpUrl(u) = [page |-> page, tracked |-> tracked, plain |-> TRUE]
    BY <1>1, Zenon DEF HttpUrl, t
  <1>4. normalize_daraz_url(u) = [page |-> page, tracked |-> FALSE, plain |-> plain]
    BY <1>2, Zenon DEF normalize_daraz_url, f
  <1> QED BY <1>3, <1>4, Zenon

\* What is stored is the page's one form; the lookup, which normalizes the
\* typed URL alone, looks for it if the URL was written plainly.
LEMMA StoredForm ==
  ASSUME NEW url \in Url
  PROVE  /\ StoredUrl(url) = Stored(url.page) /\ StoredUrl(url) \in Url
         /\ url.plain => normalize_daraz_url(url) = StoredUrl(url)
         /\ normalize_daraz_url(url).page = url.page
  <1> DEFINE page == url.page
             tracked == url.tracked
             plain == url.plain
             fields == [page |-> page, tracked |-> tracked, plain |-> plain]
  <1>1. url = fields /\ page \in STRING
    BY UrlFields DEF Url
  <1>2. url.plain => plain = TRUE
    BY Zenon DEF Url
  <1>3. normalize_daraz_url(url).page = page
    BY DEF normalize_daraz_url, Url
  <1> HIDE DEF page, tracked, plain
  <1>4. /\ HttpUrl(url) = [page |-> page, tracked |-> tracked, plain |-> TRUE]
        /\ normalize_daraz_url(url) = [page |-> page, tracked |-> FALSE, plain |-> plain]
    BY <1>1, UrlUpdates, Zenon
  <1>5. StoredUrl(url) = Stored(page)
    <2> DEFINE t == TRUE
    <2> HIDE DEF t
    <2>1. normalize_daraz_url([page |-> page, tracked |-> tracked, plain |-> t])
            = [page |-> page, tracked |-> FALSE, plain |-> t]
      BY UrlUpdates, Zenon
    <2> QED BY <1>4, <2>1, Zenon DEF StoredUrl, Stored, t
  <1>6. Stored(page) \in Url
    BY <1>1, Zenon DEF Stored, Url
  <1>7. url.plain => normalize_daraz_url(url) = StoredUrl(url)
    BY <1>2, <1>4, <1>5, Zenon DEF Stored
  <1> QED BY <1>3, <1>5, <1>6, <1>7, Zenon DEF page

-----------------------------------------------------------------------------
(* The tables.                                                             *)

Ids == {p.id : p \in products}

RowsOK ==
    /\ products \subseteq Row
    /\ IsFiniteSet(products)
    /\ \A p \in products : p.id <= Cardinality(products)
    /\ \A p \in products : p.daraz_url = Stored(p.daraz_url.page)
    /\ \A p, q \in products : p.id = q.id => p = q
    /\ \A p, q \in products : p.daraz_url = q.daraz_url => p = q

RefsOK ==
    /\ \A l \in links : l.by \in Identities /\ l.product \in Ids /\ l.competitor \in Ids
    /\ \A r \in rules : r.owner \in Identities /\ r.id \in 1..rule_ids /\ r.product \in Ids
    /\ rule_ids \in Nat

TablesOK == RowsOK /\ RefsOK /\ OwnersAgree

\* The number of products, and so the next id, is a number.
LEMMA NextIdType == RowsOK => NextId \in Nat \ {0}
  BY FS_CardinalityType DEF RowsOK, NextId

LEMMA InsertProductTables ==
  ASSUME NEW email \in Identities, NEW url \in Urls, TablesOK, InsertProduct(email, url)
  PROVE  TablesOK' /\ NextId' = NextId + 1
  <1> DEFINE new == [id |-> NextId, daraz_url |-> StoredUrl(url), owner |-> email]
  <1>1. /\ products' = products \cup {new} /\ ~Taken(url)
        /\ UNCHANGED <<links, rules, rule_ids, removed>>
    BY DEF InsertProduct
  <1>2. url \in Url /\ StoredUrl(url) = Stored(url.page) /\ StoredUrl(url) \in Url
    BY StoredForm, ConstantsAssumption
  <1>3. NextId \in Nat \ {0} /\ Cardinality(products) \in Nat
    BY NextIdType, FS_CardinalityType DEF TablesOK, RowsOK
  <1>4. /\ new \in Row /\ new.id = NextId /\ new.daraz_url = Stored(url.page)
        /\ new.daraz_url = StoredUrl(url) /\ new.daraz_url.page = url.page
        /\ new.owner = email
    BY <1>2, <1>3 DEF Row, Stored
  <1>5. \A p \in products : p.id < NextId /\ p.daraz_url # new.daraz_url
    BY <1>1, <1>3, <1>4 DEF TablesOK, RowsOK, Row, NextId, Taken
  <1>6. new \notin products
    BY <1>4, <1>5
  <1>7. IsFiniteSet(products') /\ Cardinality(products') = Cardinality(products) + 1
    BY <1>1, <1>6, FS_AddElement DEF TablesOK, RowsOK
  <1> HIDE DEF new
  <1>8. RowsOK'
    <2>1. products' \subseteq Row
      BY <1>1, <1>4 DEF TablesOK, RowsOK
    <2>2. \A p \in products' : p.id <= Cardinality(products')
      BY <1>1, <1>3, <1>4, <1>7 DEF TablesOK, RowsOK, Row, NextId
    <2>3. \A p \in products' : p.daraz_url = Stored(p.daraz_url.page)
      BY <1>1, <1>4 DEF TablesOK, RowsOK
    <2>4. \A p, q \in products' : p.id = q.id => p = q
      <3>1. \A p \in products : p.id # new.id
        BY <1>3, <1>4, <1>5 DEF TablesOK, RowsOK, Row
      <3> QED BY <1>1, <3>1 DEF TablesOK, RowsOK
    <2>5. \A p, q \in products' : p.daraz_url = q.daraz_url => p = q
      BY <1>1, <1>5 DEF TablesOK, RowsOK
    <2> QED BY <2>1, <2>2, <2>3, <2>4, <2>5, <1>7 DEF RowsOK
  <1>9. RefsOK'
    <2>1. Ids \subseteq Ids'
      BY <1>1 DEF Ids
    <2> QED BY <1>1, <2>1 DEF TablesOK, RefsOK
  <1>10. OwnersAgree'
    <2>1. \A r \in rules : r.product # new.id
      BY <1>3, <1>4, <1>5 DEF TablesOK, RefsOK, RowsOK, Row, Ids
    <2>2. \A l \in links : l.product # new.id
      BY <1>3, <1>4, <1>5 DEF TablesOK, RefsOK, RowsOK, Row, Ids
    <2> QED BY <1>1, <2>1, <2>2 DEF TablesOK, OwnersAgree
  <1> QED BY <1>3, <1>7, <1>8, <1>9, <1>10 DEF TablesOK, NextId

LEMMA InsertLinkTables ==
  ASSUME NEW email \in Identities, NEW product, NEW competitor, TablesOK,
         InsertLink(email, product, competitor)
  PROVE  TablesOK'
  <1> DEFINE new == [product |-> product, competitor |-> competitor, by |-> email]
  <1>1. /\ links' = links \cup {new} /\ Linkable(email, product, competitor)
        /\ UNCHANGED <<products, rules, rule_ids, removed>>
    BY DEF InsertLink
  <1>2. new.product = product /\ new.competitor = competitor /\ new.by = email
    OBVIOUS
  <1>3. PICK p \in products : p.id = product /\ Sees(email, p)
    BY <1>1 DEF Linkable, Owned
  <1>4. competitor \in Ids /\ product \in Ids
    BY <1>1, <1>3 DEF Linkable, Ids
  <1> HIDE DEF new
  <1>5. RowsOK' /\ Ids' = Ids
    BY <1>1 DEF TablesOK, RowsOK, Ids
  <1>6. RefsOK'
    BY <1>1, <1>2, <1>4, <1>5 DEF TablesOK, RefsOK
  <1>7. OwnersAgree'
    <2>1. \A q \in products : q.id = product /\ q.owner # Nobody => email \in {q.owner, Nobody}
      BY <1>3 DEF TablesOK, RowsOK, Sees
    <2> QED BY <1>1, <1>2, <2>1 DEF TablesOK, OwnersAgree
  <1> QED BY <1>5, <1>6, <1>7 DEF TablesOK

LEMMA InsertRuleTables ==
  ASSUME NEW email \in Identities, NEW product, TablesOK, InsertRule(email, product)
  PROVE  TablesOK'
  <1> DEFINE new == [id |-> rule_ids + 1, product |-> product, owner |-> email]
  <1>1. /\ rules' = rules \cup {new} /\ rule_ids' = rule_ids + 1 /\ Owned(email, product)
        /\ UNCHANGED <<products, links, removed>>
    BY DEF InsertRule
  <1>2. new.product = product /\ new.id = rule_ids + 1 /\ new.owner = email
    OBVIOUS
  <1>3. PICK p \in products : p.id = product /\ Sees(email, p)
    BY <1>1 DEF Owned
  <1> HIDE DEF new
  <1>4. RowsOK' /\ Ids' = Ids /\ product \in Ids
    BY <1>1, <1>3 DEF TablesOK, RowsOK, Ids
  <1>5. RefsOK'
    BY <1>1, <1>2, <1>4 DEF TablesOK, RefsOK
  <1>6. OwnersAgree'
    <2>1. \A q \in products : q.id = product /\ q.owner # Nobody => email \in {q.owner, Nobody}
      BY <1>3 DEF TablesOK, RowsOK, Sees
    <2> QED BY <1>1, <1>2, <2>1 DEF TablesOK, OwnersAgree
  <1> QED BY <1>4, <1>5, <1>6 DEF TablesOK

LEMMA RemovalTables ==
  ASSUME TablesOK, UNCHANGED <<products, rule_ids>>,
         links' \subseteq links, rules' \subseteq rules
  PROVE  TablesOK'
  <1>1. RowsOK' /\ Ids' = Ids
    BY DEF TablesOK, RowsOK, Ids
  <1>2. RefsOK'
    BY <1>1 DEF TablesOK, RefsOK
  <1> QED BY <1>1, <1>2 DEF TablesOK, OwnersAgree
-----------------------------------------------------------------------------
(* What a form knows, as a relation between the form and the tables; ls    *)
(* and rs are the links and the rules there are and there were.            *)

LeadsTo(id, url, ps) == \E p \in ps : p.id = id /\ p.daraz_url.page = url.page

Linked(id, url, ps, ls) ==
    \E l \in ls : /\ "competitor" \in DOMAIN l
                  /\ l.product = id /\ LeadsTo(l.competitor, url, ps)

Ruled(id, rs) == \E r \in rs : "competitor" \notin DOMAIN r /\ r.product = id

Created == {"find", "create_rival", "link", "rule", "done"}

Knows(f, ps, ls, rs) ==
    /\ f.pc \in Created => \E id \in Nat : f.product = {id} /\ LeadsTo(id, f.url, ps)
    /\ f.pc = "create_rival" =>
        /\ f.seen <= Cardinality(ps)
        /\ \A url \in f.rival : \A p \in ps :
               p.daraz_url = StoredUrl(url) => p.id > f.seen \/ ~url.plain
    /\ f.pc = "link" => \E id \in Nat : /\ f.competitor = {id}
                                        /\ \A url \in f.rival : LeadsTo(id, url, ps)
    /\ f.pc \in {"rule", "done"} =>
        \A id \in f.product : \A url \in f.rival : Linked(id, url, ps, ls)
    /\ f.pc = "done" /\ f.alert => \A id \in f.product : Ruled(id, rs)

\* A form that knows something has been filled in.
FormOK(f, ps, ls, rs) == f = Blank \/ (f \in Filled /\ Knows(f, ps, ls, rs))

\* Rows are only added, with ids never seen before: what a form knows stays
\* true.
LEMMA KnowsStays ==
  ASSUME NEW f, NEW ps, NEW ls, NEW rs, NEW ps2, NEW ls2, NEW rs2,
         ps \subseteq ps2, ls \subseteq ls2, rs \subseteq rs2,
         ps2 \subseteq Row, Cardinality(ps) \in Nat, Cardinality(ps2) \in Nat,
         Cardinality(ps) <= Cardinality(ps2),
         \A p \in ps2 \ ps : p.id > Cardinality(ps),
         FormOK(f, ps, ls, rs)
  PROVE  FormOK(f, ps2, ls2, rs2)
  <1>1. \A id, url : LeadsTo(id, url, ps) => LeadsTo(id, url, ps2)
    BY DEF LeadsTo
  <1>2. \A id, url : Linked(id, url, ps, ls) => Linked(id, url, ps2, ls2)
    BY <1>1 DEF Linked
  <1>3. \A id : Ruled(id, rs) => Ruled(id, rs2)
    BY DEF Ruled
  <1>4. SUFFICES ASSUME f \in Filled, Knows(f, ps, ls, rs) PROVE Knows(f, ps2, ls2, rs2)
    BY DEF FormOK
  <1>5. f.seen \in Nat
    BY <1>4 DEF Filled
  <1>6. f.pc \in Created => \E id \in Nat : f.product = {id} /\ LeadsTo(id, f.url, ps2)
    BY <1>1, <1>4 DEF Knows
  <1>7. ASSUME f.pc = "create_rival"
        PROVE  /\ f.seen <= Cardinality(ps2)
               /\ \A url \in f.rival : \A p \in ps2 :
                      p.daraz_url = StoredUrl(url) => p.id > f.seen \/ ~url.plain
    <2>1. f.seen <= Cardinality(ps)
      BY <1>4, <1>7 DEF Knows
    <2>2. \A p \in ps2 \ ps : p.id > f.seen
      BY <1>5, <2>1 DEF Row
    <2>3. \A url \in f.rival : \A p \in ps :
              p.daraz_url = StoredUrl(url) => p.id > f.seen \/ ~url.plain
      BY <1>4, <1>7 DEF Knows
    <2> QED BY <1>5, <2>1, <2>2, <2>3
  <1>8. f.pc = "link" => \E id \in Nat : /\ f.competitor = {id}
                                         /\ \A url \in f.rival : LeadsTo(id, url, ps2)
    BY <1>1, <1>4 DEF Knows
  <1>9. f.pc \in {"rule", "done"} =>
            \A id \in f.product : \A url \in f.rival : Linked(id, url, ps2, ls2)
    BY <1>2, <1>4 DEF Knows
  <1>10. f.pc = "done" /\ f.alert => \A id \in f.product : Ruled(id, rs2)
    BY <1>3, <1>4 DEF Knows
  <1> QED BY <1>6, <1>7, <1>8, <1>9, <1>10 DEF Knows

\* A filled form, as a request leaves it behind.
Places == {"create", "find", "create_rival", "link", "rule", "done"}

WithPlace(f, pc) == [f EXCEPT !.pc = pc]
WithProduct(f, pc, ids) == [f EXCEPT !.pc = pc, !.product = ids]
WithRival(f, pc, ids) == [f EXCEPT !.pc = pc, !.competitor = ids]
WithFound(f, pc, ids, n) == [f EXCEPT !.pc = pc, !.competitor = ids, !.seen = n]

LEMMA SetPlace ==
  ASSUME NEW f \in Filled, NEW pc \in Places
  PROVE  LET g == WithPlace(f, pc) IN
         /\ g \in Filled /\ g.pc = pc
         /\ g.url = f.url /\ g.rival = f.rival /\ g.alert = f.alert /\ g.product = f.product
  <1> DEFINE g == WithPlace(f, pc)
             Forms(B) == [pc : Places, url : Urls, rival : {{}} \cup {{u} : u \in Urls},
                          alert : B, product : SUBSET Nat, competitor : SUBSET Nat,
                          seen : Nat]
  <1>1. ASSUME NEW B, f \in Forms(B) PROVE g \in Forms(B)
    BY <1>1 DEF WithPlace
  <1>2. Filled = Forms(BOOLEAN)
    BY Zenon DEF Filled, Places
  <1>3. /\ g.pc = pc
        /\ g.url = f.url /\ g.rival = f.rival /\ g.alert = f.alert /\ g.product = f.product
    BY DEF Filled, WithPlace
  <1> HIDE DEF Forms, g
  <1> QED BY <1>1, <1>2, <1>3, Zenon DEF g

LEMMA SetProduct ==
  ASSUME NEW f \in Filled, NEW ids \in SUBSET Nat, NEW pc \in Places
  PROVE  LET g == WithProduct(f, pc, ids) IN
         /\ g \in Filled /\ g.pc = pc
         /\ g.url = f.url /\ g.rival = f.rival /\ g.alert = f.alert /\ g.product = ids
  <1> DEFINE g == WithProduct(f, pc, ids)
             Forms(B) == [pc : Places, url : Urls, rival : {{}} \cup {{u} : u \in Urls},
                          alert : B, product : SUBSET Nat, competitor : SUBSET Nat,
                          seen : Nat]
  <1>1. ASSUME NEW B, f \in Forms(B) PROVE g \in Forms(B)
    BY <1>1 DEF WithProduct
  <1>2. Filled = Forms(BOOLEAN)
    BY Zenon DEF Filled, Places
  <1>3. /\ g.pc = pc
        /\ g.url = f.url /\ g.rival = f.rival /\ g.alert = f.alert /\ g.product = ids
    BY DEF Filled, WithProduct
  <1> HIDE DEF Forms, g
  <1> QED BY <1>1, <1>2, <1>3, Zenon DEF g

LEMMA SetRival ==
  ASSUME NEW f \in Filled, NEW ids \in SUBSET Nat, NEW pc \in Places
  PROVE  LET g == WithRival(f, pc, ids) IN
         /\ g \in Filled /\ g.pc = pc /\ g.competitor = ids
         /\ g.url = f.url /\ g.rival = f.rival /\ g.alert = f.alert /\ g.product = f.product
  <1> DEFINE g == WithRival(f, pc, ids)
             Forms(B) == [pc : Places, url : Urls, rival : {{}} \cup {{u} : u \in Urls},
                          alert : B, product : SUBSET Nat, competitor : SUBSET Nat,
                          seen : Nat]
  <1>1. ASSUME NEW B, f \in Forms(B) PROVE g \in Forms(B)
    BY <1>1 DEF WithRival
  <1>2. Filled = Forms(BOOLEAN)
    BY Zenon DEF Filled, Places
  <1>3. /\ g.pc = pc /\ g.competitor = ids
        /\ g.url = f.url /\ g.rival = f.rival /\ g.alert = f.alert /\ g.product = f.product
    BY DEF Filled, WithRival
  <1> HIDE DEF Forms, g
  <1> QED BY <1>1, <1>2, <1>3, Zenon DEF g

LEMMA SetFound ==
  ASSUME NEW f \in Filled, NEW ids \in SUBSET Nat, NEW n \in Nat, NEW pc \in Places
  PROVE  LET g == WithFound(f, pc, ids, n) IN
         /\ g \in Filled /\ g.pc = pc /\ g.competitor = ids /\ g.seen = n
         /\ g.url = f.url /\ g.rival = f.rival /\ g.alert = f.alert /\ g.product = f.product
  <1> DEFINE g == WithFound(f, pc, ids, n)
             Forms(B) == [pc : Places, url : Urls, rival : {{}} \cup {{u} : u \in Urls},
                          alert : B, product : SUBSET Nat, competitor : SUBSET Nat,
                          seen : Nat]
  <1>1. ASSUME NEW B, f \in Forms(B) PROVE g \in Forms(B)
    BY <1>1 DEF WithFound
  <1>2. Filled = Forms(BOOLEAN)
    BY Zenon DEF Filled, Places
  <1>3. /\ g.pc = pc /\ g.competitor = ids /\ g.seen = n
        /\ g.url = f.url /\ g.rival = f.rival /\ g.alert = f.alert /\ g.product = f.product
    BY DEF Filled, WithFound
  <1> HIDE DEF Forms, g
  <1> QED BY <1>1, <1>2, <1>3, Zenon DEF g

-----------------------------------------------------------------------------
(* Steps.                                                                  *)

Requested(email) ==
    \/ \E url \in Urls : InsertProduct(email, url)
    \/ \E product, competitor : InsertLink(email, product, competitor)
    \/ \E product : InsertRule(email, product)

Removed ==
    /\ UNCHANGED <<products, rule_ids>>
    /\ links' \subseteq links /\ rules' \subseteq rules
    /\ links \cup removed \subseteq links' \cup removed'
    /\ rules \cup removed \subseteq rules' \cup removed'

TableMove == Removed \/ \E email \in Identities : Requested(email)

Grows ==
    /\ products \subseteq products' /\ Cardinality(products) <= Cardinality(products')
    /\ links \cup removed \subseteq links' \cup removed'
    /\ rules \cup removed \subseteq rules' \cup removed'
    /\ \A p \in products' \ products : p.id > Cardinality(products)

LEMMA MoveTables == TablesOK /\ TableMove => TablesOK' /\ Grows
  <1> SUFFICES ASSUME TablesOK, TableMove PROVE TablesOK' /\ Grows
    OBVIOUS
  <1>1. NextId \in Nat \ {0} /\ Cardinality(products) \in Nat
    BY NextIdType, FS_CardinalityType DEF TablesOK, RowsOK
  <1>2. CASE Removed
    BY <1>1, <1>2, RemovalTables DEF Removed, Grows
  <1>3. ASSUME NEW email \in Identities, NEW url \in Urls, InsertProduct(email, url)
        PROVE  TablesOK' /\ Grows
    <2>1. TablesOK' /\ NextId' = NextId + 1
      BY <1>3, InsertProductTables
    <2>2. Cardinality(products') = Cardinality(products) + 1
      <3>1. Cardinality(products') \in Nat
        BY <2>1, FS_CardinalityType DEF TablesOK, RowsOK
      <3> QED BY <1>1, <2>1, <3>1 DEF NextId
    <2>3. \A p \in products' \ products : p.id = NextId
      BY <1>3 DEF InsertProduct
    <2> QED BY <1>1, <1>3, <2>1, <2>2, <2>3 DEF InsertProduct, NextId, Grows
  <1>4. ASSUME NEW email \in Identities, NEW product, NEW competitor,
               InsertLink(email, product, competitor)
        PROVE  TablesOK' /\ Grows
    BY <1>1, <1>4, InsertLinkTables DEF InsertLink, Grows
  <1>5. ASSUME NEW email \in Identities, NEW product, InsertRule(email, product)
        PROVE  TablesOK' /\ Grows
    BY <1>1, <1>5, InsertRuleTables DEF InsertRule, Grows
  <1> QED BY <1>2, <1>3, <1>4, <1>5 DEF TableMove, Requested

Counters ==
    /\ submits \in 0..MaxSubmits /\ calls \in 0..MaxCalls
    /\ owner_email \in [Browsers -> Identities]

FormsOK ==
    /\ form \in [Browsers -> {Blank} \cup Filled]
    /\ \A b \in Browsers : FormOK(form[b], products, links \cup removed, rules \cup removed)

\* One form moves on, or none.
LEMMA MoveForms ==
  ASSUME TablesOK, TableMove, FormsOK, NEW b \in Browsers, NEW g,
         FormOK(g, products', links' \cup removed', rules' \cup removed'),
         form' = [form EXCEPT ![b] = g] \/ UNCHANGED form
  PROVE  FormsOK'
  <1>1. TablesOK' /\ Grows
    BY MoveTables
  <1>2. Cardinality(products) \in Nat /\ Cardinality(products') \in Nat
    BY <1>1, FS_CardinalityType DEF TablesOK, RowsOK
  <1>3. \A f : FormOK(f, products, links \cup removed, rules \cup removed)
                 => FormOK(f, products', links' \cup removed', rules' \cup removed')
    BY <1>1, <1>2, KnowsStays DEF TablesOK, RowsOK, Grows
  <1>4. \A c \in Browsers : form'[c] = form[c] \/ form'[c] = g
    BY DEF FormsOK
  <1>5. \A c \in Browsers :
            FormOK(form'[c], products', links' \cup removed', rules' \cup removed')
    BY <1>3, <1>4 DEF FormsOK
  <1>6. g \in {Blank} \cup Filled
    BY DEF FormOK
  <1>7. form' \in [Browsers -> {Blank} \cup Filled]
    BY <1>6 DEF FormsOK
  <1> QED BY <1>5, <1>7 DEF FormsOK

LEMMA RestForms == TablesOK /\ TableMove /\ FormsOK /\ UNCHANGED form => FormsOK'
  <1> SUFFICES ASSUME TablesOK, TableMove, FormsOK, UNCHANGED form PROVE FormsOK'
    OBVIOUS
  <1>1. CASE Browsers = {}
    BY <1>1 DEF FormsOK
  <1>2. ASSUME NEW b \in Browsers PROVE FormsOK'
    <2>1. FormOK(Blank, products', links' \cup removed', rules' \cup removed')
      BY DEF FormOK
    <2> QED BY <2>1, MoveForms
  <1> QED BY <1>1, <1>2

\* A request's end: the form goes on, or is blank again.
LEMMA GoForms ==
  ASSUME TablesOK, TableMove, FormsOK, NEW b \in Browsers, NEW answered, NEW g,
         Go(b, answered, g),
         FormOK(g, products', links' \cup removed', rules' \cup removed')
  PROVE  FormsOK'
  <1>1. FormOK(Blank, products', links' \cup removed', rules' \cup removed')
    BY DEF FormOK
  <1>2. CASE answered
    BY <1>2, MoveForms DEF Go
  <1>3. CASE ~answered
    BY <1>1, <1>3, MoveForms DEF Go
  <1> QED BY <1>2, <1>3

LEMMA FormInUse ==
  ASSUME FormsOK, NEW b \in Browsers, form[b].pc # "editing"
  PROVE  /\ form[b] \in Filled
         /\ Knows(form[b], products, links \cup removed, rules \cup removed)
  BY DEF FormsOK, FormOK, Blank

LEMMA SubmitForms ==
  ASSUME TablesOK, FormsOK, NEW b \in Browsers, NEW url \in Urls,
         NEW rival \in {{}} \cup {{u} : u \in Urls}, NEW alert \in BOOLEAN,
         Submit(b, url, rival, alert)
  PROVE  FormsOK'
  <1> DEFINE g == [pc |-> "create", url |-> url, rival |-> rival, alert |-> alert,
                   product |-> {}, competitor |-> {}, seen |-> 0]
  <1>1. g \in Filled
    BY DEF Filled
  <1>2. FormOK(g, products', links' \cup removed', rules' \cup removed')
    BY <1>1 DEF FormOK, Knows, Created
  <1>3. TableMove
    BY DEF Submit, tables, TableMove, Removed
  <1> QED BY <1>2, <1>3, MoveForms DEF Submit

\* The row that an insert adds is there for its page.
LEMMA Inserted ==
  ASSUME TablesOK, NEW email \in Identities, NEW url \in Urls, InsertProduct(email, url)
  PROVE  LeadsTo(NextId, url, products') /\ NextId \in Nat /\ TableMove
  <1>1. StoredUrl(url) = Stored(url.page)
    BY StoredForm, ConstantsAssumption
  <1>2. NextId \in Nat
    BY NextIdType DEF TablesOK
  <1>3. TableMove
    BY Zenon DEF TableMove, Requested
  <1>4. PICK p \in products' : p.id = NextId /\ p.daraz_url = Stored(url.page)
    <2> DEFINE new == [id |-> NextId, daraz_url |-> StoredUrl(url), owner |-> email]
    <2>1. new.id = NextId /\ new.daraz_url = Stored(url.page)
      BY <1>1
    <2> QED BY <2>1 DEF InsertProduct
  <1> QED BY <1>2, <1>3, <1>4 DEF LeadsTo, Stored

LEMMA CreateProductForms ==
  ASSUME TablesOK, FormsOK, Counters, NEW b \in Browsers, NEW answered,
         CreateProduct(b, answered)
  PROVE  FormsOK' /\ TableMove
  <1> DEFINE f == form[b]
             g == [f EXCEPT !.pc = AfterProduct(f), !.product = {NextId}]
  <1>1. /\ f.pc = "create" /\ InsertProduct(owner_email[b], f.url)
        /\ Go(b, answered, g)
    BY DEF CreateProduct
  <1>2. f \in Filled /\ f.url \in Urls /\ owner_email[b] \in Identities
    BY <1>1, FormInUse DEF Counters, Filled
  <1>3. LeadsTo(NextId, f.url, products') /\ NextId \in Nat /\ TableMove
    BY <1>1, <1>2, Inserted
  <1>4. AfterProduct(f) \in {"find", "rule", "done"}
    BY DEF AfterProduct
  <1>5. /\ g \in Filled /\ g.pc = AfterProduct(f) /\ g.url = f.url /\ g.rival = f.rival
        /\ g.alert = f.alert /\ g.product = {NextId}
    <2>1. {NextId} \in SUBSET Nat
      BY <1>3
    <2>2. AfterProduct(f) \in Places
      BY <1>4 DEF Places
    <2>3. g = WithProduct(f, AfterProduct(f), {NextId})
      BY DEF WithProduct
    <2> HIDE DEF f, g
    <2> QED BY <1>2, <2>1, <2>2, <2>3, SetProduct
  <1>6. /\ g.pc \in {"rule", "done"} => g.rival = {}
        /\ g.pc = "done" => ~g.alert
    BY <1>5 DEF AfterProduct
  <1> HIDE DEF g
  <1>7. Knows(g, products', links' \cup removed', rules' \cup removed')
    BY <1>3, <1>4, <1>5, <1>6 DEF Knows
  <1> QED BY <1>1, <1>3, <1>5, <1>7, GoForms DEF FormOK

\* What the lookup finds is the one row of the page.
LEMMA FoundOne ==
  ASSUME TablesOK, NEW email, NEW url \in Url, NEW q \in Found(email, url)
  PROVE  {p.id : p \in Found(email, url)} = {q.id} /\ q.id \in Nat /\ LeadsTo(q.id, url, products)
  <1>1. q \in products /\ q.daraz_url = normalize_daraz_url(url)
    BY DEF Found
  <1>2. \A p \in Found(email, url) : p = q
    BY <1>1 DEF Found, TablesOK, RowsOK
  <1>3. q.id \in Nat
    BY <1>1 DEF TablesOK, RowsOK, Row
  <1>4. LeadsTo(q.id, url, products)
    BY <1>1, StoredForm DEF LeadsTo
  <1> QED BY <1>2, <1>3, <1>4

LEMMA FindProductForms ==
  ASSUME TablesOK, FormsOK, NEW b \in Browsers, FindProduct(b)
  PROVE  FormsOK' /\ TableMove
  <1> DEFINE f == form[b]
             ls == links \cup removed
             rs == rules \cup removed
  <1>1. f.pc = "find" /\ UNCHANGED tables
    BY DEF FindProduct
  <1>2. TableMove
    BY <1>1 DEF tables, TableMove, Removed
  <1>3. f \in Filled /\ Knows(f, products, ls, rs)
    BY <1>1, FormInUse
  <1>4. PICK url \in f.rival :
          LET found == {p.id : p \in Found(owner_email[b], url)} IN
          Go(b, TRUE, [f EXCEPT !.pc = IF found = {} THEN "create_rival" ELSE "link",
                                !.competitor = found,
                                !.seen = Cardinality(products)])
    BY DEF FindProduct
  <1>5. f.rival = {url} /\ url \in Url
    BY <1>3, ConstantsAssumption DEF Filled
  <1> DEFINE found == {p.id : p \in Found(owner_email[b], url)}
             pc == IF found = {} THEN "create_rival" ELSE "link"
             g == [f EXCEPT !.pc = pc, !.competitor = found, !.seen = Cardinality(products)]
  <1>6. Go(b, TRUE, g)
    BY <1>4
  <1>7. Cardinality(products) \in Nat
    BY FS_CardinalityType DEF TablesOK, RowsOK
  <1>8. found \in SUBSET Nat
    BY DEF Found, TablesOK, RowsOK, Row
  <1>9. pc \in Places /\ pc \in {"create_rival", "link"}
    BY DEF Places
  <1>10. g = WithFound(f, pc, found, Cardinality(products))
    BY DEF WithFound
  <1>11. CASE found = {}
    <2>1. \A p \in products : p.daraz_url # normalize_daraz_url(url)
      BY <1>11 DEF Found
    <2>2. url.plain => \A p \in products : p.daraz_url # StoredUrl(url)
      BY <1>5, <2>1, StoredForm
    <2>3. pc = "create_rival"
      BY <1>11
    <2> HIDE DEF f, found, pc, g
    <2>4. /\ g \in Filled /\ g.pc = pc /\ g.competitor = found /\ g.seen = Cardinality(products)
          /\ g.url = f.url /\ g.rival = f.rival /\ g.alert = f.alert /\ g.product = f.product
      BY <1>3, <1>7, <1>8, <1>9, <1>10, SetFound
    <2>5. \E id \in Nat : g.product = {id} /\ LeadsTo(id, g.url, products)
      BY <1>1, <1>3, <2>4 DEF Knows, Created, f
    <2>6. Knows(g, products, ls, rs)
      BY <1>5, <1>7, <2>2, <2>3, <2>4, <2>5 DEF Knows
    <2> QED BY <1>1, <1>2, <1>6, <2>4, <2>6, GoForms DEF FormOK, tables
  <1>12. CASE found # {}
    <2>1. PICK q \in Found(owner_email[b], url) : TRUE
      BY <1>12
    <2>2. found = {q.id} /\ q.id \in Nat /\ LeadsTo(q.id, url, products)
      BY <1>5, <2>1, FoundOne
    <2>3. pc = "link"
      BY <1>12
    <2> HIDE DEF f, found, pc, g
    <2>4. /\ g \in Filled /\ g.pc = pc /\ g.competitor = found /\ g.seen = Cardinality(products)
          /\ g.url = f.url /\ g.rival = f.rival /\ g.alert = f.alert /\ g.product = f.product
      BY <1>3, <1>7, <1>8, <1>9, <1>10, SetFound
    <2>5. \E id \in Nat : g.product = {id} /\ LeadsTo(id, g.url, products)
      BY <1>1, <1>3, <2>4 DEF Knows, Created, f
    <2>6. Knows(g, products, ls, rs)
      BY <1>5, <2>2, <2>3, <2>4, <2>5 DEF Knows
    <2> QED BY <1>1, <1>2, <1>6, <2>4, <2>6, GoForms DEF FormOK, tables
  <1> QED BY <1>11, <1>12

LEMMA CreateRivalForms ==
  ASSUME TablesOK, FormsOK, Counters, NEW b \in Browsers, NEW answered,
         CreateRival(b, answered)
  PROVE  FormsOK' /\ TableMove
  <1> DEFINE f == form[b]
             g == [f EXCEPT !.pc = "link", !.competitor = {NextId}]
             ls == links' \cup removed'
             rs == rules' \cup removed'
  <1>1. f.pc = "create_rival" /\ Go(b, answered, g)
    BY DEF CreateRival
  <1>2. PICK url \in f.rival : InsertProduct(owner_email[b], url)
    BY DEF CreateRival
  <1>3. f \in Filled /\ Knows(f, products, links \cup removed, rules \cup removed)
    BY <1>1, FormInUse
  <1>4. f.rival = {url} /\ url \in Urls /\ owner_email[b] \in Identities
    BY <1>3 DEF Filled, Counters
  <1>5. LeadsTo(NextId, url, products') /\ NextId \in Nat /\ TableMove
    BY <1>2, <1>4, Inserted
  <1>6. \A id, u : LeadsTo(id, u, products) => LeadsTo(id, u, products')
    BY <1>2 DEF InsertProduct, LeadsTo
  <1>7. "link" \in Places /\ {NextId} \in SUBSET Nat
    BY <1>5 DEF Places
  <1>8. g = WithRival(f, "link", {NextId})
    BY DEF WithRival
  <1> HIDE DEF f, g
  <1>9. /\ g \in Filled /\ g.pc = "link" /\ g.competitor = {NextId}
        /\ g.url = f.url /\ g.rival = f.rival /\ g.alert = f.alert /\ g.product = f.product
    BY <1>3, <1>7, <1>8, SetRival
  <1>10. \E id \in Nat : g.product = {id} /\ LeadsTo(id, g.url, products')
    BY <1>1, <1>3, <1>6, <1>9 DEF Knows, Created
  <1>11. Knows(g, products', ls, rs)
    BY <1>4, <1>5, <1>9, <1>10 DEF Knows
  <1> QED BY <1>1, <1>5, <1>9, <1>11, GoForms DEF FormOK

LEMMA AddCompetitorForms ==
  ASSUME TablesOK, FormsOK, Counters, NEW b \in Browsers, NEW answered,
         AddCompetitor(b, answered)
  PROVE  FormsOK' /\ TableMove
  <1> DEFINE f == form[b]
             g == [f EXCEPT !.pc = AfterLink(f)]
             ls == links' \cup removed'
             rs == rules' \cup removed'
  <1>1. f.pc = "link" /\ Go(b, answered, g)
    BY DEF AddCompetitor
  <1>2. PICK p \in f.product, c \in f.competitor : InsertLink(owner_email[b], p, c)
    BY DEF AddCompetitor
  <1>3. /\ f \in Filled /\ Knows(f, products, links \cup removed, rules \cup removed)
        /\ owner_email[b] \in Identities
    BY <1>1, FormInUse DEF Counters
  <1>4. TableMove
    BY <1>2, <1>3, Zenon DEF TableMove, Requested
  <1>5. /\ \A id \in f.product : id = p
        /\ \A url \in f.rival : LeadsTo(c, url, products)
    BY <1>1, <1>3 DEF Knows, Created
  <1>6. PICK l \in ls : "competitor" \in DOMAIN l /\ l.product = p /\ l.competitor = c
    <2> DEFINE new == [product |-> p, competitor |-> c, by |-> owner_email[b]]
    <2>1. "competitor" \in DOMAIN new /\ new.product = p /\ new.competitor = c
      OBVIOUS
    <2> QED BY <1>2, <2>1 DEF InsertLink
  <1>7. products' = products
    BY <1>2 DEF InsertLink
  <1>8. \A id \in f.product : \A url \in f.rival : Linked(id, url, products', ls)
    BY <1>5, <1>6, <1>7 DEF Linked
  <1>9. AfterLink(f) \in Places /\ AfterLink(f) \in {"rule", "done"}
    BY DEF AfterLink, Places
  <1>10. AfterLink(f) = "done" => ~f.alert
    BY DEF AfterLink
  <1>11. g = WithPlace(f, AfterLink(f))
    BY DEF WithPlace
  <1> HIDE DEF f, g
  <1>12. /\ g \in Filled /\ g.pc = AfterLink(f)
         /\ g.url = f.url /\ g.rival = f.rival /\ g.alert = f.alert /\ g.product = f.product
    BY <1>3, <1>9, <1>11, SetPlace
  <1>13. \E id \in Nat : g.product = {id} /\ LeadsTo(id, g.url, products')
    BY <1>1, <1>3, <1>7, <1>12 DEF Knows, Created
  <1>14. Knows(g, products', ls, rs)
    BY <1>8, <1>9, <1>10, <1>12, <1>13 DEF Knows
  <1> QED BY <1>1, <1>4, <1>12, <1>14, GoForms DEF FormOK

LEMMA CreateAlertRuleForms ==
  ASSUME TablesOK, FormsOK, Counters, NEW b \in Browsers, NEW answered,
         CreateAlertRule(b, answered)
  PROVE  FormsOK' /\ TableMove
  <1> DEFINE f == form[b]
             g == [f EXCEPT !.pc = "done"]
             ls == links' \cup removed'
             rs == rules' \cup removed'
  <1>1. f.pc = "rule" /\ Go(b, answered, g)
    BY DEF CreateAlertRule
  <1>2. PICK p \in f.product : InsertRule(owner_email[b], p)
    BY DEF CreateAlertRule
  <1>3. /\ f \in Filled /\ Knows(f, products, links \cup removed, rules \cup removed)
        /\ owner_email[b] \in Identities
    BY <1>1, FormInUse DEF Counters
  <1>4. TableMove
    BY <1>2, <1>3, Zenon DEF TableMove, Requested
  <1>5. PICK r \in rs : "competitor" \notin DOMAIN r /\ r.product = p
    <2> DEFINE new == [id |-> rule_ids + 1, product |-> p, owner |-> owner_email[b]]
    <2>1. "competitor" \notin DOMAIN new /\ new.product = p
      OBVIOUS
    <2> QED BY <1>2, <2>1 DEF InsertRule
  <1>6. \A id \in f.product : id = p /\ Ruled(id, rs)
    BY <1>1, <1>3, <1>5 DEF Knows, Created, Ruled
  <1>7. products' = products /\ ls = links \cup removed
    BY <1>2 DEF InsertRule
  <1>8. "done" \in Places
    BY DEF Places
  <1>9. g = WithPlace(f, "done")
    BY DEF WithPlace
  <1> HIDE DEF f, g
  <1>10. /\ g \in Filled /\ g.pc = "done"
         /\ g.url = f.url /\ g.rival = f.rival /\ g.alert = f.alert /\ g.product = f.product
    BY <1>3, <1>8, <1>9, SetPlace
  <1>11. \E id \in Nat : g.product = {id} /\ LeadsTo(id, g.url, products')
    BY <1>1, <1>3, <1>7, <1>10 DEF Knows, Created
  <1>12. \A id \in g.product : \A url \in g.rival : Linked(id, url, products', ls)
    BY <1>1, <1>3, <1>7, <1>10 DEF Knows
  <1>13. Knows(g, products', ls, rs)
    BY <1>6, <1>10, <1>11, <1>12 DEF Knows
  <1> QED BY <1>1, <1>4, <1>10, <1>13, GoForms DEF FormOK

\* A request refused or not delivered, and a form left: the tables rest.
LEMMA BlankForms ==
  ASSUME TablesOK, FormsOK, NEW b \in Browsers, Refuse(b) \/ Unreachable(b) \/ Leave(b)
  PROVE  FormsOK' /\ TableMove
  <1>1. UNCHANGED tables /\ form' = [form EXCEPT ![b] = Blank]
    BY DEF Refuse, Unreachable, Leave, Go
  <1>2. TableMove
    BY <1>1 DEF tables, TableMove, Removed
  <1>3. FormOK(Blank, products', links' \cup removed', rules' \cup removed')
    BY DEF FormOK
  <1> QED BY <1>1, <1>2, <1>3, MoveForms

-----------------------------------------------------------------------------
(* The invariant.                                                          *)

RegistryInv == TablesOK /\ Counters /\ FormsOK

LEMMA InitRegistryInv == Init => RegistryInv
  <1> SUFFICES ASSUME Init PROVE RegistryInv
    OBVIOUS
  <1>1. IsFiniteSet(products)
    BY FS_EmptySet DEF Init
  <1>2. TablesOK
    BY <1>1 DEF Init, TablesOK, RowsOK, RefsOK, OwnersAgree
  <1>3. Counters
    BY ConstantsAssumption DEF Init, Counters
  <1>4. FormsOK
    BY DEF Init, FormsOK, FormOK
  <1> QED BY <1>2, <1>3, <1>4 DEF RegistryInv

\* A form's step.
LEMMA FormStep ==
  ASSUME RegistryInv, NEW b \in Browsers, Form(b)
  PROVE  RegistryInv'
  <1> USE DEF RegistryInv
  <1>1. ASSUME NEW url \in Urls, NEW rival \in {{}} \cup {{u} : u \in Urls},
               NEW alert \in BOOLEAN, Submit(b, url, rival, alert)
        PROVE  RegistryInv'
    <2>1. FormsOK'
      BY <1>1, SubmitForms
    <2>2. TableMove
      BY <1>1 DEF Submit, tables, TableMove, Removed
    <2>3. Counters'
      BY <1>1, ConstantsAssumption DEF Submit, Counters
    <2> QED BY <2>1, <2>2, <2>3, MoveTables
  <1>2. ASSUME NEW answered \in BOOLEAN,
               CreateProduct(b, answered) \/ CreateRival(b, answered)
                 \/ AddCompetitor(b, answered) \/ CreateAlertRule(b, answered)
        PROVE  RegistryInv'
    <2>1. FormsOK' /\ TableMove
      BY <1>2, CreateProductForms, CreateRivalForms, AddCompetitorForms, CreateAlertRuleForms
    <2>2. Counters'
      BY <1>2 DEF CreateProduct, CreateRival, AddCompetitor, CreateAlertRule, Counters
    <2> QED BY <2>1, <2>2, MoveTables
  <1>3. CASE FindProduct(b) \/ Refuse(b) \/ Unreachable(b) \/ Leave(b)
    <2>1. FormsOK' /\ TableMove
      BY <1>3, FindProductForms, BlankForms
    <2>2. Counters'
      BY <1>3 DEF FindProduct, Refuse, Unreachable, Leave, Counters
    <2> QED BY <2>1, <2>2, MoveTables
  <1> QED BY <1>1, <1>2, <1>3, Zenon DEF Form

LEMMA StepRegistryInv == RegistryInv /\ [Next]_vars => RegistryInv'
  <1> SUFFICES ASSUME RegistryInv, [Next]_vars PROVE RegistryInv'
    OBVIOUS
  <1>1. ASSUME NEW b \in Browsers, Form(b) PROVE RegistryInv'
    BY <1>1, FormStep
  <1>2. ASSUME NEW b \in Browsers, NEW email \in Emails, SetOwnerEmail(b, email)
        PROVE  RegistryInv'
    <2>1. TableMove /\ UNCHANGED form
      BY <1>2 DEF SetOwnerEmail, tables, TableMove, Removed
    <2>2. Counters'
      BY <1>2, ConstantsAssumption
      DEF SetOwnerEmail, Call, Counters, Identities, RegistryInv
    <2> QED BY <2>1, <2>2, MoveTables, RestForms DEF RegistryInv
  <1>3. ASSUME NEW email \in Identities, NEW p \in products, CallCreateAlertRule(email, p)
        PROVE  RegistryInv'
    <2>1. TableMove /\ UNCHANGED form
      BY <1>3, Zenon DEF CallCreateAlertRule, TableMove, Requested
    <2>2. Counters'
      BY <1>3, ConstantsAssumption DEF CallCreateAlertRule, Call, Counters, RegistryInv
    <2> QED BY <2>1, <2>2, MoveTables, RestForms DEF RegistryInv
  <1>4. ASSUME NEW email \in Identities, NEW p \in products, NEW c \in products,
               CallAddCompetitor(email, p, c)
        PROVE  RegistryInv'
    <2>1. TableMove /\ UNCHANGED form
      BY <1>4, Zenon DEF CallAddCompetitor, TableMove, Requested
    <2>2. Counters'
      BY <1>4, ConstantsAssumption DEF CallAddCompetitor, Call, Counters, RegistryInv
    <2> QED BY <2>1, <2>2, MoveTables, RestForms DEF RegistryInv
  <1>5. ASSUME NEW email \in Identities, NEW l \in links, RemoveCompetitor(email, l)
        PROVE  RegistryInv'
    <2>1. TableMove /\ UNCHANGED form
      BY <1>5 DEF RemoveCompetitor, TableMove, Removed
    <2>2. Counters'
      BY <1>5, ConstantsAssumption DEF RemoveCompetitor, Call, Counters, RegistryInv
    <2> QED BY <2>1, <2>2, MoveTables, RestForms DEF RegistryInv
  <1>6. ASSUME NEW email \in Identities, NEW r \in rules, DeleteAlertRule(email, r)
        PROVE  RegistryInv'
    <2>1. TableMove /\ UNCHANGED form
      BY <1>6 DEF DeleteAlertRule, TableMove, Removed
    <2>2. Counters'
      BY <1>6, ConstantsAssumption DEF DeleteAlertRule, Call, Counters, RegistryInv
    <2> QED BY <2>1, <2>2, MoveTables, RestForms DEF RegistryInv
  <1>7. CASE UNCHANGED vars
    <2>1. TableMove /\ UNCHANGED form
      BY <1>7 DEF vars, tables, TableMove, Removed
    <2>2. Counters'
      BY <1>7 DEF vars, Counters, RegistryInv
    <2> QED BY <2>1, <2>2, MoveTables, RestForms DEF RegistryInv
  <1> QED BY <1>1, <1>2, <1>3, <1>4, <1>5, <1>6, <1>7, Zenon DEF Next

LEMMA AlwaysRegistryInv == Spec => []RegistryInv
  BY InitRegistryInv, StepRegistryInv, PTL DEF Spec

-----------------------------------------------------------------------------
(* Theorems.                                                               *)

LEMMA InvTypes == RegistryInv => TypeOK
  <1> SUFFICES ASSUME RegistryInv PROVE TypeOK
    OBVIOUS
  <1>1. \A b \in Browsers : LET f == form[b] IN
          /\ f.pc \in {"find", "link", "rule", "done"} => Cardinality(f.product) = 1
          /\ f.pc = "link" => Cardinality(f.competitor) = 1
    <2> SUFFICES ASSUME NEW b \in Browsers
                 PROVE  /\ form[b].pc \in {"find", "link", "rule", "done"}
                              => Cardinality(form[b].product) = 1
                        /\ form[b].pc = "link" => Cardinality(form[b].competitor) = 1
      OBVIOUS
    <2>1. CASE form[b].pc = "editing"
      BY <2>1
    <2>2. CASE form[b].pc # "editing"
      <3>1. Knows(form[b], products, links \cup removed, rules \cup removed)
        BY <2>2, FormInUse DEF RegistryInv
      <3>2. \A x : Cardinality({x}) = 1
        BY FS_Singleton
      <3> QED BY <3>1, <3>2 DEF Knows, Created
    <2> QED BY <2>1, <2>2
  <1>2. /\ products \subseteq [id : Nat \ {0}, daraz_url : Url, owner : Identities]
        /\ \A p, q \in products : p.id = q.id => p = q
    BY DEF RegistryInv, TablesOK, RowsOK, Row
  <1>3. /\ \A l \in links : /\ l.by \in Identities
                            /\ {l.product, l.competitor} \subseteq {p.id : p \in products}
        /\ \A r \in rules : /\ r.owner \in Identities /\ r.id \in 1..rule_ids
                            /\ r.product \in {p.id : p \in products}
        /\ rule_ids \in Nat
    BY DEF RegistryInv, TablesOK, RefsOK, Ids
  <1>4. /\ submits \in 0..MaxSubmits /\ calls \in 0..MaxCalls
        /\ owner_email \in [Browsers -> Identities]
        /\ form \in [Browsers -> {Blank} \cup Filled]
    BY DEF RegistryInv, Counters, FormsOK
  <1> QED BY <1>1, <1>2, <1>3, <1>4, Zenon DEF TypeOK

\* Type correctness of the registry and its forms.
THEOREM RegistryTypes == Spec => []TypeOK
  BY AlwaysRegistryInv, InvTypes, PTL

\* However many forms and requests race: one row per page.
THEOREM PagesHaveOneRow == Spec => []OneRowPerPage
  <1>1. RegistryInv => OneRowPerPage
    BY DEF RegistryInv, TablesOK, RowsOK, OneRowPerPage
  <1> QED BY <1>1, AlwaysRegistryInv, PTL

\* However emails change between a form's requests: the copies of
\* owner_email agree.
THEOREM OwnersNeverDisagree == Spec => []OwnersAgree
  <1>1. RegistryInv => OwnersAgree
    BY DEF RegistryInv, TablesOK
  <1> QED BY <1>1, AlwaysRegistryInv, PTL

\* A form that reports success did all that it was asked.
THEOREM ReportedIsComplete == Spec => []SuccessIsComplete
  <1>1. ASSUME RegistryInv, NEW b \in Browsers, form[b].pc = "done"
        PROVE  \A id \in form[b].product :
                 /\ LeadsTo(id, form[b].url, products)
                 /\ \A url \in form[b].rival : Linked(id, url, products, links \cup removed)
                 /\ form[b].alert => Ruled(id, rules \cup removed)
    <2>1. Knows(form[b], products, links \cup removed, rules \cup removed)
      BY <1>1, FormInUse DEF RegistryInv
    <2> QED BY <1>1, <2>1 DEF Knows, Created
  <1>2. RegistryInv => SuccessIsComplete
    BY <1>1 DEF SuccessIsComplete, LeadsTo, Linked, Ruled
  <1> QED BY <1>2, AlwaysRegistryInv, PTL

\* A lookup that finds nothing is followed by a create that succeeds, unless
\* the page is taken meanwhile or the URL was not written plainly.
THEOREM LookupIsUseful == Spec => []LookupSparesConflict
  <1>1. ASSUME RegistryInv, NEW b \in Browsers, form[b].pc = "create_rival"
        PROVE  \A url \in form[b].rival : \A p \in products :
                   p.daraz_url = StoredUrl(url) => p.id > form[b].seen \/ ~url.plain
    BY <1>1, FormInUse DEF RegistryInv, Knows
  <1>2. RegistryInv => LookupSparesConflict
    BY <1>1 DEF LookupSparesConflict
  <1> QED BY <1>2, AlwaysRegistryInv, PTL
=============================================================================
