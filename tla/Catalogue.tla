------------------------------- MODULE Catalogue -------------------------------
(***************************************************************************)
(* Products and the Redis cache in front of them (product.service.ts), for *)
(* one tenant.                                                             *)
(*                                                                         *)
(* A read that misses the cache reads the database and stores what it got  *)
(* in a later step. A write commits, then looks for the cached lists, then *)
(* deletes them and the product's entry; a Redis error or a restart in     *)
(* between loses the invalidation. Sales (pos.service.ts) do the same for  *)
(* the stock they move; other stock movements and the categories' own      *)
(* service leave the cache alone.                                          *)
(***************************************************************************)
EXTENDS Integers

CONSTANTS
  Products,         \* product ids (and their SKUs)
  Categories,       \* category ids
  CategoryNames,    \* names of categories
  Locations,        \* locations with stock of the products
  Scopes,           \* the sets of locations that users may see
  MaxVersion,       \* bound: changes of a product's own fields
  MaxStock,         \* bound: stock at a location
  Calls             \* requests in flight at the same time

ASSUME CatalogueAssumption ==
  /\ MaxVersion \in Nat /\ MaxStock \in Nat
  /\ Scopes \subseteq SUBSET Locations
  /\ Products \cap Scopes = {}

VARIABLES
  product,          \* Product rows with their categories
  category,         \* the name of each category
  stock,            \* stock at each location
  used,             \* products that orders, stock or kits refer to
  entry,            \* what Redis holds under each key
  call,             \* what each request in flight has still to do
  suspect           \* history: keys that may hold an outdated entry

catalogueVars == <<product, category, stock, used, entry, call, suspect>>

-----------------------------------------------------------------------------

NoProduct == [version |-> -1]
NoEntry == [ttl |-> FALSE]
NoCall == [step |-> "idle"]

\* Mutant: one key for everybody's list.
SharedKey(S) == CHOOSE s \in Scopes : TRUE

\* The key of a list has the reader's locations in it.
ListKey(S) == S
ListKeys == {ListKey(S) : S \in Scopes}
Keys == Products \cup Scopes

Existing == {c \in Categories : category[c] # "none"}
Present == {p \in Products : product[p] # NoProduct}

\* What a read of the product, or of the list, finds in the database.
View(p) ==
  IF p \in Present
  THEN [version |-> product[p].version,
        categories |-> {<<c, category[c]>> : c \in product[p].categories}]
  ELSE NoProduct
ListView(S) == [products |-> [p \in Products |-> View(p)], stock |-> [l \in S |-> stock[l]]]
Current(k) == IF k \in Products THEN View(k) ELSE ListView(k)

CatalogueTypeOK ==
  /\ \A p \in Present :
       product[p].version \in 0..MaxVersion /\ product[p].categories \subseteq Existing
  /\ category \in [Categories -> CategoryNames \cup {"none"}]
  /\ stock \in [Locations -> 0..MaxStock]
  /\ used \subseteq Present
  /\ \A k \in Keys : entry[k] = NoEntry \/ DOMAIN entry[k] = {"ttl", "value"}
  /\ \A r \in Calls : call[r].step \in {"idle", "fill", "keys", "del"}
  /\ suspect \subseteq Keys

CallAt(r, step) == call[r].step = step
Cached(k) == entry[k] # NoEntry

\* The keys for which the database now says something else.
Outdated == {k \in Keys : Current(k)' # Current(k)}

\* Fills in flight carry what was read before.
CallsOvertaken == [q \in Calls |->
  IF CallAt(q, "fill") /\ call[q].reads \in Outdated THEN [call[q] EXCEPT !.stale = TRUE]
  ELSE call[q]]

Proceed(r, next) == call' = [CallsOvertaken EXCEPT ![r] = next]

Invalidating(p) == [step |-> "keys", product |-> p, found |-> {}]

CatalogueInit ==
  /\ product = [p \in Products |-> NoProduct]
  /\ category = [c \in Categories |-> "none"]
  /\ stock = [l \in Locations |-> 0]
  /\ used = {}
  /\ entry = [k \in Keys |-> NoEntry]
  /\ call = [r \in Calls |-> NoCall]
  /\ suspect = {}

-----------------------------------------------------------------------------
(* Reads. *)

\* Mutant: the entry is stored without a time to live.
EntryForever(value) == [ttl |-> FALSE, value |-> value]

\* SET ... EX: 180 seconds for a product, 60 for a list.
Entry(value) == [ttl |-> TRUE, value |-> value]

BeginFill(r, key, reads) ==
  /\ CallAt(r, "idle")
  /\ ~Cached(key)
  /\ call' = [call EXCEPT ![r] =
       [step |-> "fill", key |-> key, reads |-> reads, value |-> Current(reads), stale |-> FALSE]]
  /\ UNCHANGED <<product, category, stock, used, entry, suspect>>

GetProductById(r, p) == p \in Present /\ BeginFill(r, p, p)

QueryProducts(r, S) == BeginFill(r, ListKey(S), S)

Fill(r) ==
  LET q == call[r] IN
  /\ CallAt(r, "fill")
  /\ entry' = [entry EXCEPT ![q.key] = Entry(q.value)]
  /\ suspect' = IF q.stale THEN suspect \cup {q.key} ELSE suspect \ {q.key}
  /\ call' = [call EXCEPT ![r] = NoCall]
  /\ UNCHANGED <<product, category, stock, used>>

\* Redis drops an entry whose time is up.
Expire(k) ==
  /\ Cached(k) /\ entry[k].ttl
  /\ entry' = [entry EXCEPT ![k] = NoEntry]
  /\ suspect' = suspect \ {k}
  /\ UNCHANGED <<product, category, stock, used, call>>

-----------------------------------------------------------------------------
(* Writes. The unique SKU and the foreign keys repeat their checks. *)

CreateProduct(r, p, C) ==
  /\ CallAt(r, "idle")
  /\ p \notin Present
  /\ C \subseteq Existing
  /\ product' = [product EXCEPT ![p] = [version |-> 0, categories |-> C]]
  /\ UNCHANGED <<category, stock, used, entry, suspect>>
  /\ Proceed(r, Invalidating(p))

\* Fields, categories (all of them replaced) or both.
UpdateProductById(r, p, v, C) ==
  /\ CallAt(r, "idle")
  /\ p \in Present
  /\ v \in {product[p].version, product[p].version + 1} \cap 0..MaxVersion
  /\ C \subseteq Existing
  /\ product' = [product EXCEPT ![p] = [version |-> v, categories |-> C]]
  /\ UNCHANGED <<category, stock, used, entry, suspect>>
  /\ Proceed(r, Invalidating(p))

DeleteProductById(r, p) ==
  /\ CallAt(r, "idle")
  /\ p \in Present \ used
  /\ product' = [product EXCEPT ![p] = NoProduct]
  /\ UNCHANGED <<category, stock, used, entry, suspect>>
  /\ Proceed(r, Invalidating(p))

\* A sale or a suspended cart takes stock and then invalidates the product.
Sell(r, p, l) ==
  /\ CallAt(r, "idle")
  /\ p \in Present
  /\ stock[l] > 0
  /\ stock' = [stock EXCEPT ![l] = @ - 1]
  /\ used' = used \cup {p}
  /\ UNCHANGED <<product, category, entry, suspect>>
  /\ Proceed(r, Invalidating(p))

\* Mutant: the entry of the product alone is deleted.
FoundNone(r) == {}

\* KEYS: the cached lists of the tenant.
FoundLists(r) == {k \in ListKeys : Cached(k)}

FindLists(r) ==
  /\ CallAt(r, "keys")
  /\ call' = [call EXCEPT ![r] =
       [step |-> "del", product |-> call[r].product, found |-> FoundLists(r)]]
  /\ UNCHANGED <<product, category, stock, used, entry, suspect>>

\* One pipeline.
DeleteEntries(r) ==
  LET gone == {call[r].product} \cup call[r].found IN
  /\ CallAt(r, "del")
  /\ entry' = [k \in Keys |-> IF k \in gone THEN NoEntry ELSE entry[k]]
  /\ suspect' = suspect \ gone
  /\ call' = [call EXCEPT ![r] = NoCall]
  /\ UNCHANGED <<product, category, stock, used>>

\* A Redis error, which is only logged, or a restart.
AbandonCall(r) ==
  /\ ~CallAt(r, "idle")
  /\ suspect' = IF CallAt(r, "fill") THEN suspect
                ELSE suspect \cup {k \in ListKeys \cup {call[r].product} : Cached(k)}
  /\ call' = [call EXCEPT ![r] = NoCall]
  /\ UNCHANGED <<product, category, stock, used, entry>>

-----------------------------------------------------------------------------
(* What changes the views without the cache being told. *)

Silently ==
  /\ UNCHANGED <<product, entry>>
  /\ call' = CallsOvertaken
  /\ suspect' = suspect \cup {k \in Outdated : Cached(k)}

\* category.service.ts; a category with products is not deleted.
ChangeCategory(c, name) ==
  /\ name # category[c]
  /\ name = "none" => \A p \in Present : c \notin product[p].categories
  /\ category' = [category EXCEPT ![c] = name]
  /\ UNCHANGED <<stock, used>>
  /\ Silently

\* Deliveries, adjustments, transfers, counts.
ReceiveStock(p, l) ==
  /\ p \in Present
  /\ stock[l] < MaxStock
  /\ stock' = [stock EXCEPT ![l] = @ + 1]
  /\ used' = used \cup {p}
  /\ UNCHANGED category
  /\ Silently

CatalogueNext ==
  \/ \E r \in Calls, p \in Products :
       \/ GetProductById(r, p) \/ DeleteProductById(r, p)
       \/ \E C \in SUBSET Categories :
            \/ CreateProduct(r, p, C)
            \/ \E v \in 0..MaxVersion : UpdateProductById(r, p, v, C)
       \/ \E l \in Locations : Sell(r, p, l)
  \/ \E r \in Calls, S \in Scopes : QueryProducts(r, S)
  \/ \E r \in Calls : Fill(r) \/ FindLists(r) \/ DeleteEntries(r) \/ AbandonCall(r)
  \/ \E c \in Categories, name \in CategoryNames \cup {"none"} : ChangeCategory(c, name)
  \/ \E p \in Products, l \in Locations : ReceiveStock(p, l)
  \/ \E k \in Keys : Expire(k)

\* Redis expires what has a time to live, whatever the application does.
CatalogueSpec ==
  /\ CatalogueInit /\ [][CatalogueNext]_catalogueVars
  /\ \A k \in Keys : WF_catalogueVars(Expire(k))

-----------------------------------------------------------------------------
(* Properties. *)

\* An invalidation that has still to reach the key.
Pending(k) ==
  \E r \in Calls :
    \/ CallAt(r, "keys") /\ k \in ListKeys \cup {call[r].product}
    \/ CallAt(r, "del") /\ k \in call[r].found \cup {call[r].product}

\* What is cached is what the database says, for every product and every
\* list, once the invalidations are done; the exceptions are a fill that
\* read before a write and stored after it, a lost invalidation, and changes
\* of categories and stock that invalidate nothing.
CacheCurrent ==
  \A k \in Keys \ suspect : Cached(k) /\ ~Pending(k) => entry[k].value = Current(k)

\* Nobody gets, from a list cached for somebody else, stock of a location
\* they may not see.
OwnScopeOnly ==
  \A S \in Scopes : Cached(ListKey(S)) => DOMAIN entry[ListKey(S)].value.stock \subseteq S

\* Whatever went wrong, an outdated entry does not stay: it is replaced, is
\* deleted or expires.
OutdatedEnds ==
  \A k \in Keys :
    (Cached(k) /\ entry[k].value # Current(k)) ~> (~Cached(k) \/ entry[k].value = Current(k))
=============================================================================
