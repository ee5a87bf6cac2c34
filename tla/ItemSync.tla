------------------------------ MODULE ItemSync ------------------------------
(***************************************************************************)
(* StockConsumer on warehouse_item.created and CatalogRepository's           *)
(* createProductVariantFromWms: the shop drafts a variant for an item of the  *)
(* warehouse.  The mark of the job and the variant are one transaction; the    *)
(* product of the variant is found or made outside of it.  Jobs are given at    *)
(* least once and to several workers; managers edit the catalog meanwhile.       *)
(***************************************************************************)
EXTENDS Sequences, SequencesExt

CONSTANTS Workers

VARIABLES marks,            \* processed_events: the skus whose job is marked
          variants,         \* product_variants: sku -> the slug of its product
          products,         \* products: the slugs there are
          told,             \* warehouse_item.synced: the skus managers were told of
          syncing           \* worker -> the job it is at

syncVars == <<marks, variants, products, told, syncing>>

Waits == [at |-> "idle"]

\* san-pham-kho- and the first two parts of the sku
Slug(sku) == SubSeq(sku, 1, 2)

At(w, at) == syncing[w].at = at
Goto(w, at) == syncing' = [syncing EXCEPT ![w].at = at]

\* The variants with one more, unless the sku is taken.
Added(sku, slug) ==
    [x \in DOMAIN variants \cup {sku} |-> IF x \in DOMAIN variants THEN variants[x] ELSE slug]

\* The worker is done with the job; the queue may give it again.
EndJob(w) == syncing' = [syncing EXCEPT ![w] = Waits]

----------------------------------------------------------------------------
\* A worker is given a job.  One that was marked is passed over.
SyncBegin(w, sku) ==
    /\ At(w, "idle")
    /\ sku \notin marks
    /\ syncing' = [syncing EXCEPT ![w] =
          [at |-> IF sku \in DOMAIN variants THEN "commit" ELSE "product", sku |-> sku]]
    /\ UNCHANGED <<marks, variants, products, told>>

\* findOrCreateProductForVariant finds the product, or goes on to make it.
SyncProduct(w) ==
    /\ At(w, "product")
    /\ Goto(w, IF Slug(syncing[w].sku) \in products THEN "commit" ELSE "create")
    /\ UNCHANGED <<marks, variants, products, told>>

\* Mutated: the mark is made on its own, before the product is looked for.
CreateMarked(w) ==
    /\ At(w, "create")
    /\ marks' = marks \cup {syncing[w].sku}
    /\ IF Slug(syncing[w].sku) \in products
       THEN EndJob(w) /\ UNCHANGED products
       ELSE Goto(w, "commit") /\ products' = products \cup {Slug(syncing[w].sku)}
    /\ UNCHANGED <<variants, told>>

\* The draft of a product, which stays whatever becomes of the transaction.  A slug
\* another has taken meanwhile is a duplicate key like that of the mark: the job is taken
\* for one that was processed, and ends.
SyncCreate(w) ==
    /\ At(w, "create")
    /\ IF Slug(syncing[w].sku) \in products
       THEN EndJob(w) /\ UNCHANGED products
       ELSE Goto(w, "commit") /\ products' = products \cup {Slug(syncing[w].sku)}
    /\ UNCHANGED <<marks, variants, told>>

\* The transaction lands: the mark, and the variant unless there was one.  Another that
\* landed first, of the same job or of a manager, makes it a duplicate or a conflict.
SyncCommit(w) ==
    /\ At(w, "commit")
    /\ LET sku == syncing[w].sku IN
       IF sku \in marks THEN EndJob(w) /\ UNCHANGED <<marks, variants>>
       ELSE /\ marks' = marks \cup {sku}
            /\ variants' = Added(sku, Slug(sku))
            /\ Goto(w, "tell")
    /\ UNCHANGED <<products, told>>

\* new_item.synced, once it is committed
SyncTell(w) ==
    /\ At(w, "tell")
    /\ told' = Append(told, syncing[w].sku)
    /\ EndJob(w)
    /\ UNCHANGED <<marks, variants, products>>

\* The worker dies, or a call of it throws: the job is given again.
SyncDies(w) ==
    /\ ~At(w, "idle")
    /\ EndJob(w)
    /\ UNCHANGED <<marks, variants, products, told>>

----------------------------------------------------------------------------
\* A manager: createProduct, createVariant for a product that exists, and updateVariant,
\* which may give it another sku.
CreateProduct(slug) ==
    /\ slug \notin products
    /\ products' = products \cup {slug}
    /\ UNCHANGED <<marks, variants, told, syncing>>

CreateVariant(sku) ==
    /\ sku \notin DOMAIN variants /\ Slug(sku) \in products
    /\ variants' = Added(sku, Slug(sku))
    /\ UNCHANGED <<marks, products, told, syncing>>

RenameVariant(sku, other) ==
    /\ sku \in DOMAIN variants /\ other \notin DOMAIN variants
    /\ variants' = [x \in (DOMAIN variants \ {sku}) \cup {other} |->
                        IF x = other THEN variants[sku] ELSE variants[x]]
    /\ UNCHANGED <<marks, products, told, syncing>>

SyncInit ==
    /\ marks = {} /\ products = {} /\ told = <<>>
    /\ variants = [x \in {} |-> <<>>]
    /\ syncing = [w \in Workers |-> Waits]

SyncStep(jobs) == \E w \in Workers :
    \/ \E sku \in jobs : SyncBegin(w, sku)
    \/ SyncProduct(w) \/ SyncCreate(w) \/ SyncCommit(w) \/ SyncTell(w) \/ SyncDies(w)

CatalogStep(skus) ==
    \/ \E sku \in skus : CreateProduct(Slug(sku)) \/ CreateVariant(sku)
    \/ \E sku, other \in skus : RenameVariant(sku, other)

----------------------------------------------------------------------------
\* However often a job comes, and whatever the managers do: a job is marked only in the
\* step in which the shop has the variant, and managers are told of an item once, after
\* it was marked.
SyncIsOnce ==
    [][/\ \A sku \in marks' \ marks : sku \in DOMAIN variants'
       /\ told' # told => Last(told') \in marks /\ Last(told') \notin Range(told)]_syncVars
=============================================================================
