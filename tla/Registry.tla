------------------------------ MODULE Registry ------------------------------
(***************************************************************************)
(* The product registry: the tables products, product_competitors and      *)
(* alert_rules behind the API's handlers, and the browsers that fill them  *)
(* through the add-product form, which sends up to five requests one after *)
(* the other and stops at the first that fails.                            *)
(*                                                                         *)
(* A handler is one action.  Products are never updated nor deleted, so    *)
(* what a handler reads of them still holds at its one commit, where the   *)
(* unique constraints are checked.  An answer may get lost on its way.     *)
(***************************************************************************)
EXTENDS Integers, FiniteSets

CONSTANTS
    Browsers,    \* browsers, each with the form open in one tab
    Emails,      \* values of X-Owner-Email
    Urls,        \* product URLs that users type
    MaxSubmits,  \* bound: submissions of the form
    MaxCalls     \* bound: other requests and changes of an email

Nobody == "nobody"  \* no X-Owner-Email header; owner_email NULL

\* A typed URL: the page it leads to, whether it carries a query string or a
\* fragment, and whether it is written as pydantic's HttpUrl prints it (the
\* host in lower case, no default port).
Url == [page : STRING, tracked : BOOLEAN, plain : BOOLEAN]

ASSUME ConstantsAssumption ==
    /\ Urls \subseteq Url
    /\ Nobody \notin Emails
    /\ MaxSubmits \in Nat /\ MaxCalls \in Nat

VARIABLES
    products,     \* rows [id, daraz_url, owner]
    links,        \* rows [product, competitor], by: history, who asked
    rules,        \* rows [id, product, owner]
    rule_ids,     \* the sequence behind AlertRule.id
    owner_email,  \* each browser's localStorage
    form,         \* each browser's add-product form
    removed,      \* history: links and rules removed
    submits,      \* submissions so far
    calls         \* other requests so far

tables == <<products, links, rules, rule_ids, removed>>
vars == <<tables, owner_email, form, submits, calls>>

Identities == Emails \cup {Nobody}

-----------------------------------------------------------------------------
(* URLs and ownership.                                                     *)

\* Mutant: query string and fragment are kept.
NormalizeKeeping(url) == url

normalize_daraz_url(url) == [url EXCEPT !.tracked = FALSE]

\* ProductCreate's field type rewrites the URL before the handler sees it;
\* list_products takes a plain string.
HttpUrl(url) == [url EXCEPT !.plain = TRUE]

StoredUrl(url) == normalize_daraz_url(HttpUrl(url))

\* Mutant: the owner is not looked at.
SeesAll(email, product) == TRUE

\* The owner check of get_owned_product_or_404.
Sees(email, product) ==
    \/ email = Nobody
    \/ product.owner \in {Nobody, email}

-----------------------------------------------------------------------------
(* The tables.                                                             *)

Taken(url) == \E p \in products : p.daraz_url = StoredUrl(url)

NextId == Cardinality(products) + 1

InsertProduct(email, url) ==
    /\ ~Taken(url)
    /\ products' = products \cup
            {[id |-> NextId, daraz_url |-> StoredUrl(url), owner |-> email]}
    /\ UNCHANGED <<links, rules, rule_ids, removed>>

\* Mutant: the lookup filters by owner like any other listing.
FoundOwn(email, url) ==
    {p \in products : p.daraz_url = normalize_daraz_url(url) /\ Sees(email, p)}

\* GET /products?daraz_url=...: not filtered by owner.
Found(email, url) == {p \in products : p.daraz_url = normalize_daraz_url(url)}

\* Depends(get_owned_product_or_404) lets the request through.
Owned(email, product) == \E p \in products : p.id = product /\ Sees(email, p)

\* POST .../competitors would be accepted.
Linkable(email, product, competitor) ==
    /\ Owned(email, product)
    /\ product # competitor
    /\ \E p \in products : p.id = competitor
    /\ ~\E l \in links : l.product = product /\ l.competitor = competitor

InsertLink(email, product, competitor) ==
    /\ Linkable(email, product, competitor)
    /\ links' = links \cup {[product |-> product, competitor |-> competitor, by |-> email]}
    /\ UNCHANGED <<products, rules, rule_ids, removed>>

InsertRule(email, product) ==
    /\ Owned(email, product)
    /\ rule_ids' = rule_ids + 1
    /\ rules' = rules \cup {[id |-> rule_ids + 1, product |-> product, owner |-> email]}
    /\ UNCHANGED <<products, links, removed>>

-----------------------------------------------------------------------------
(* The add-product form.                                                   *)

Blank == [pc |-> "editing"]

Init ==
    /\ products = {} /\ links = {} /\ rules = {} /\ rule_ids = 0 /\ removed = {}
    /\ owner_email \in [Browsers -> Identities]
    /\ form = [b \in Browsers |-> Blank]
    /\ submits = 0 /\ calls = 0

\* handleSubmit, with the competitor and the alert rule the user wants.
Submit(b, url, rival, alert) ==
    /\ form[b].pc = "editing"
    /\ submits < MaxSubmits
    /\ submits' = submits + 1
    /\ form' = [form EXCEPT ![b] =
            [pc |-> "create", url |-> url, rival |-> rival, alert |-> alert,
             product |-> {}, competitor |-> {}, seen |-> 0]]
    /\ UNCHANGED <<tables, owner_email, calls>>

AfterProduct(f) ==
    IF f.rival # {} THEN "find" ELSE IF f.alert THEN "rule" ELSE "done"

AfterLink(f) == IF f.alert THEN "rule" ELSE "done"

\* The request did its work; unless its answer was lost, the form goes on.
Go(b, answered, next) == form' = [form EXCEPT ![b] = IF answered THEN next ELSE Blank]

CreateProduct(b, answered) ==
    LET f == form[b] IN
    /\ f.pc = "create"
    /\ InsertProduct(owner_email[b], f.url)
    /\ Go(b, answered, [f EXCEPT !.pc = AfterProduct(f), !.product = {NextId}])
    /\ UNCHANGED <<owner_email, submits, calls>>

\* Mutant: an empty list is taken for a match.
FindProductAlways(b) ==
    LET f == form[b] IN
    /\ f.pc = "find"
    /\ \E url \in f.rival :
        Go(b, TRUE, [f EXCEPT !.pc = "link",
                              !.competitor = {p.id : p \in Found(owner_email[b], url)}])
    /\ UNCHANGED <<tables, owner_email, submits, calls>>

\* findOrCreateProductId's lookup.
FindProduct(b) ==
    LET f == form[b] IN
    /\ f.pc = "find"
    /\ \E url \in f.rival :
        LET found == {p.id : p \in Found(owner_email[b], url)} IN
        Go(b, TRUE, [f EXCEPT !.pc = IF found = {} THEN "create_rival" ELSE "link",
                              !.competitor = found,
                              !.seen = Cardinality(products)])
    /\ UNCHANGED <<tables, owner_email, submits, calls>>

CreateRival(b, answered) ==
    LET f == form[b] IN
    /\ f.pc = "create_rival"
    /\ \E url \in f.rival : InsertProduct(owner_email[b], url)
    /\ Go(b, answered, [f EXCEPT !.pc = "link", !.competitor = {NextId}])
    /\ UNCHANGED <<owner_email, submits, calls>>

\* Mutant: a refused link is passed over.
AddCompetitorCarefree(b, answered) ==
    LET f == form[b] IN
    /\ f.pc = "link"
    /\ Go(b, answered, [f EXCEPT !.pc = AfterLink(f)])
    /\ \E p \in f.product, c \in f.competitor :
        \/ InsertLink(owner_email[b], p, c)
        \/ ~Linkable(owner_email[b], p, c) /\ UNCHANGED tables
    /\ UNCHANGED <<owner_email, submits, calls>>

AddCompetitor(b, answered) ==
    LET f == form[b] IN
    /\ f.pc = "link"
    /\ \E p \in f.product, c \in f.competitor : InsertLink(owner_email[b], p, c)
    /\ Go(b, answered, [f EXCEPT !.pc = AfterLink(f)])
    /\ UNCHANGED <<owner_email, submits, calls>>

CreateAlertRule(b, answered) ==
    LET f == form[b] IN
    /\ f.pc = "rule"
    /\ \E p \in f.product : InsertRule(owner_email[b], p)
    /\ Go(b, answered, [f EXCEPT !.pc = "done"])
    /\ UNCHANGED <<owner_email, submits, calls>>

\* The API refuses the request in flight: 409, 404 or 422.
Refuse(b) ==
    LET f == form[b] IN
    /\ \/ f.pc = "create" /\ Taken(f.url)
       \/ f.pc = "create_rival" /\ \A url \in f.rival : Taken(url)
       \/ f.pc = "link" /\ \A p \in f.product, c \in f.competitor :
                                ~Linkable(owner_email[b], p, c)
       \/ f.pc = "rule" /\ \A p \in f.product : ~Owned(owner_email[b], p)
    /\ Go(b, FALSE, f)
    /\ UNCHANGED <<tables, owner_email, submits, calls>>

\* The request in flight never reaches the API.
Unreachable(b) ==
    /\ form[b].pc \notin {"editing", "done"}
    /\ Go(b, FALSE, form[b])
    /\ UNCHANGED <<tables, owner_email, submits, calls>>

\* router.push: a new form is blank.
Leave(b) ==
    /\ form[b].pc = "done"
    /\ Go(b, TRUE, Blank)
    /\ UNCHANGED <<tables, owner_email, submits, calls>>

-----------------------------------------------------------------------------
(* The dashboard, the setup page and direct calls of the API.              *)

Call == calls < MaxCalls /\ calls' = calls + 1

\* /setup, in another tab: later requests carry the new email.
SetOwnerEmail(b, email) ==
    /\ Call
    /\ owner_email[b] # email
    /\ owner_email' = [owner_email EXCEPT ![b] = email]
    /\ UNCHANGED <<tables, form, submits>>

CallAddCompetitor(email, p, c) ==
    /\ Call
    /\ InsertLink(email, p.id, c.id)
    /\ UNCHANGED <<owner_email, form, submits>>

CallCreateAlertRule(email, p) ==
    /\ Call
    /\ InsertRule(email, p.id)
    /\ UNCHANGED <<owner_email, form, submits>>

RemoveCompetitor(email, l) ==
    /\ Call
    /\ Owned(email, l.product)
    /\ links' = links \ {l}
    /\ removed' = removed \cup {l}
    /\ UNCHANGED <<products, rules, rule_ids, owner_email, form, submits>>

DeleteAlertRule(email, r) ==
    /\ Call
    /\ Owned(email, r.product)
    /\ rules' = rules \ {r}
    /\ removed' = removed \cup {r}
    /\ UNCHANGED <<products, links, rule_ids, owner_email, form, submits>>

-----------------------------------------------------------------------------
Form(b) ==
    \/ \E url \in Urls, rival \in {{}} \cup {{u} : u \in Urls}, alert \in BOOLEAN :
            Submit(b, url, rival, alert)
    \/ \E answered \in BOOLEAN :
        \/ CreateProduct(b, answered) \/ CreateRival(b, answered)
        \/ AddCompetitor(b, answered) \/ CreateAlertRule(b, answered)
    \/ FindProduct(b) \/ Refuse(b) \/ Unreachable(b) \/ Leave(b)

Next ==
    \/ \E b \in Browsers : Form(b) \/ \E email \in Emails : SetOwnerEmail(b, email)
    \/ \E email \in Identities :
        \/ \E p \in products : \/ CallCreateAlertRule(email, p)
                               \/ \E c \in products : CallAddCompetitor(email, p, c)
        \/ \E l \in links : RemoveCompetitor(email, l)
        \/ \E r \in rules : DeleteAlertRule(email, r)

Spec == Init /\ [][Next]_vars

-----------------------------------------------------------------------------
(* Properties.                                                             *)

Filled ==
    [pc : {"create", "find", "create_rival", "link", "rule", "done"},
     url : Urls, rival : {{}} \cup {{u} : u \in Urls}, alert : BOOLEAN,
     product : SUBSET Nat, competitor : SUBSET Nat, seen : Nat]

\* Type correctness; links and rules refer to rows that exist, ids are keys,
\* and a form that is past a request holds what the request answered.
TypeOK ==
    /\ products \subseteq [id : Nat \ {0}, daraz_url : Url, owner : Identities]
    /\ \A p, q \in products : p.id = q.id => p = q
    /\ \A l \in links : /\ l.by \in Identities
                        /\ {l.product, l.competitor} \subseteq {p.id : p \in products}
    /\ \A r \in rules : /\ r.owner \in Identities /\ r.id \in 1..rule_ids
                        /\ r.product \in {p.id : p \in products}
    /\ rule_ids \in Nat /\ submits \in 0..MaxSubmits /\ calls \in 0..MaxCalls
    /\ owner_email \in [Browsers -> Identities]
    /\ form \in [Browsers -> {Blank} \cup Filled]
    /\ \A b \in Browsers : LET f == form[b] IN
        /\ f.pc \in {"find", "link", "rule", "done"} => Cardinality(f.product) = 1
        /\ f.pc = "link" => Cardinality(f.competitor) = 1

\* normalize_daraz_url: "the same product added via different search/referral links
\* doesn't create duplicate rows", whoever races to add it.
OneRowPerPage ==
    \A p, q \in products : p.daraz_url.page = q.daraz_url.page => p = q

\* owner_email is copied onto rules so that filtering them needs no join:
\* a rule on an owned product belongs to that owner or to nobody, and links
\* of an owned product were asked for by its owner or without a header, also
\* when a browser's email changes between two requests of one form.
OwnersAgree ==
    \A p \in products : p.owner # Nobody =>
        /\ \A r \in rules : r.product = p.id => r.owner \in {p.owner, Nobody}
        /\ \A l \in links : l.product = p.id => l.by \in {p.owner, Nobody}

\* A form that reports success has left everything it was asked for, unless
\* somebody removed it since: the product under its page, the link to the
\* competitor's page, the rule.
SuccessIsComplete ==
    \A b \in Browsers : form[b].pc = "done" =>
        LET f == form[b]
            LeadsTo(id, url) == \E p \in products : p.id = id /\ p.daraz_url.page = url.page
        IN  \A id \in f.product :
            /\ LeadsTo(id, f.url)
            /\ \A url \in f.rival : \E l \in links \cup removed :
                /\ "competitor" \in DOMAIN l
                /\ l.product = id /\ LeadsTo(l.competitor, url)
            /\ f.alert => \E r \in rules \cup removed :
                "competitor" \notin DOMAIN r /\ r.product = id

\* list_products on its lookup by URL: hiding a match "would just cause the
\* frontend to attempt a create that 409s right after".  When the form has
\* to create the competitor's product and the page is taken, somebody took
\* it after the lookup, or the URL is not written the way it is stored.
LookupSparesConflict ==
    \A b \in Browsers : form[b].pc = "create_rival" =>
        \A url \in form[b].rival : \A p \in products :
            p.daraz_url = StoredUrl(url) => p.id > form[b].seen \/ ~url.plain
=============================================================================
