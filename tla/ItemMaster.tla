----------------------------- MODULE ItemMaster -----------------------------
(***************************************************************************)
(* StockService, BarcodeService, SkuTemplateService and                     *)
(* AttributeOptionService: the items of the warehouse, the options their     *)
(* SKUs are put together from, and the register of barcodes.  An item, its    *)
(* barcode and the next number of the counter are written in one transaction. *)
(* A name, a unit's name or a picture is left out; a code stands for its text. *)
(***************************************************************************)
EXTENDS Transactions, Sequences, SequencesExt, FiniteSetsExt

CONSTANTS Items,            \* bound: the ids of the items that may be made
          OptionForms,      \* option id -> the key and the code it would be made with
          Units, Sizes,     \* what an item is counted in, and how large one is
          Registers,        \* what backfill-barcode-registry may have left: code -> an old item
          Mixes             \* bound: how many requests of each sort may be made

OldItems == UNION {Range(register) : register \in Registers}

NoOwner == "none"                       \* the owner of a code that is free

ASSUME ItemAssumption == IsFiniteSet(Items) /\ Items \cap OldItems = {} /\ NoOwner \notin Items

VARIABLES options,          \* item_attribute_options
          announcing,       \* skus committed, the event not queued yet
          jobs,             \* warehouse_item.created on the stock queue
          left              \* bound: the requests that may still be made

itemVars == <<transactionVars, options, announcing, jobs, left>>

Counter == <<"counter">>                \* barcode_counters, prefix 20
Registered(code) == <<"code", code>>    \* barcode_registry
Item(i) == <<"item", i>>                \* warehouse_items

\* computeEan13CheckDigit
CheckDigit(first12) ==
    LET weighted == [k \in 1..12 |-> first12[k] * (IF k % 2 = 1 THEN 1 ELSE 3)] IN
    (10 - (FoldSeq(+, 0, weighted) % 10)) % 10

\* buildEan13: the prefix of the house, the number in ten digits and the check digit.
Tens == <<1000000000, 100000000, 10000000, 1000000, 100000, 10000, 1000, 100, 10, 1>>

Ean13(sequence) ==
    LET first12 == <<2, 0>> \o [k \in 1..10 |-> (sequence \div Tens[k]) % 10] IN
    Append(first12, CheckDigit(first12))

NoItem == [sku |-> <<>>, barcode |-> <<>>, unit |-> "none", size |-> 0, deleted |-> FALSE]
Codes == {Ean13(n) : n \in 1..(Cardinality(Items) + 1)}

Made(i) == db[Item(i)] # NoItem
Live(i) == Made(i) /\ ~db[Item(i)].deleted

Field(key) == [key |-> key, required |-> TRUE]
MayBeLeft(key) == [key |-> key, required |-> FALSE]

SkuTemplates ==
    [CUP_BLANK |-> [prefix |-> "CUP",
        fields |-> <<Field("CUP_STYLE"), Field("MATERIAL"), Field("CAPACITY"), Field("COLOR")>>],
     MATERIAL |-> [prefix |-> "MAT",
        fields |-> <<Field("MATERIAL_CATEGORY"), Field("MATERIAL_TYPE"), MayBeLeft("FLAVOR"), Field("SPEC")>>],
     PACKAGING |-> [prefix |-> "PKG",
        fields |-> <<Field("PACKAGING_CATEGORY"), MayBeLeft("SIZE"), MayBeLeft("COLOR")>>]]

CategoryCodes ==
    [MATERIAL_CATEGORY |-> {"TEA", "MILK", "SUGAR", "TOPPING", "SYRUP", "POWDER"},
     PACKAGING_CATEGORY |-> {"LID", "STRAW", "BAG", "BOX"}]

\* A request of one of the sorts of Mixes is spent.
Spend(sort) == left[sort] > 0 /\ left' = [left EXCEPT ![sort] = @ - 1]

----------------------------------------------------------------------------
\* Options

\* AttributeOptionService.create: the category is one of the templates', and the code is
\* looked up and then kept apart by the index.
CreateOption(o) ==
    /\ Spend("edits")
    /\ o \notin DOMAIN options
    /\ OptionForms[o].key \in DOMAIN CategoryCodes
          => OptionForms[o].code \in CategoryCodes[OptionForms[o].key]
    /\ \A p \in DOMAIN options : options[p].form # OptionForms[o]
    /\ options' = (o ::= [form |-> OptionForms[o], isActive |-> TRUE]) ++ options
    /\ UNCHANGED <<db, tx, announcing, jobs>>

\* AttributeOptionService.update: the code is refused, the rest may change.
UpdateOption(o) ==
    /\ Spend("edits")
    /\ o \in DOMAIN options
    /\ options' = [options EXCEPT ![o].isActive = ~@]
    /\ UNCHANGED <<db, tx, announcing, jobs>>

\* byKey and its fields: the option chosen for a field.
Chosen(chosen, key) == {o \in chosen : options[o].form.key = key}

Resolvable(type, chosen) ==
    \A n \in DOMAIN SkuTemplates[type].fields :
       LET field == SkuTemplates[type].fields[n] IN
       /\ field.required => Chosen(chosen, field.key) # {}
       /\ \A o \in Chosen(chosen, field.key) : options[o].isActive

\* buildSku: the codes in the order of the template, with no place kept for one left out.
BuildSku(type, chosen) ==
    LET named == SelectSeq(SkuTemplates[type].fields, LAMBDA f : Chosen(chosen, f.key) # {})
        CodeOf(key) == (CHOOSE o \in Chosen(chosen, key) : TRUE) IN
    <<SkuTemplates[type].prefix>>
       \o [n \in DOMAIN named |-> options[CodeOf(named[n].key)].form.code]

----------------------------------------------------------------------------
\* createWarehouseItem

\* CreateWarehouseItemDto: a type and options, one of a key at most.
ItemForms ==
    {form \in [type : DOMAIN SkuTemplates, chosen : (SUBSET DOMAIN options) \ {{}}] :
        \A o, p \in form.chosen : options[o].form.key = options[p].form.key => o = p}

\* resolveAndBuildSku, before the transaction.
CreateRead(s) ==
    \E form \in ItemForms :
       /\ Spend("items")
       /\ Resolvable(form.type, form.chosen)
       /\ ReadOutside(s, [kind |-> "create", sku |-> BuildSku(form.type, form.chosen)])
       /\ UNCHANGED <<options, announcing, jobs>>

\* unique: true on sku, deleted items included
SkuIsFree(sku) == \A i \in Items : db[Item(i)].sku # sku

\* An item that still has to be made.
NewId == CHOOSE i \in Items : ~Made(i)

\* generateAndReservePrimaryBarcode and createItem.
ItemWrites(sku, sequence) ==
    (Counter ::= sequence) ++ (Registered(Ean13(sequence)) ::= NewId)
    ++ (Item(NewId) ::= [NoItem EXCEPT !.sku = sku, !.barcode = Ean13(sequence), !.unit = CHOOSE u \in Units : TRUE,
                                       !.size = CHOOSE n \in Sizes : TRUE])

\* The transaction that would write it.  A code that is taken, or a SKU, ends it: what the
\* three attempts would read after that is refused to them with the transaction.
CreateOpen(s) ==
    /\ IsReady(s) /\ tx[s].job.kind = "create"
    /\ \E i \in Items : ~Made(i)
    /\ LET sequence == db[Counter] + 1 IN
       /\ db[Registered(Ean13(sequence))] = NoOwner
       /\ SkuIsFree(tx[s].job.sku)
       /\ OpenTx(s, tx[s].job, ItemWrites(tx[s].job.sku, sequence))
    /\ UNCHANGED <<options, announcing, jobs, left>>

\* Mutated: the barcode is registered without the session of the transaction.
RefusedRegistered(s) ==
    /\ IsReady(s) /\ tx[s].job.kind = "create"
    /\ ~SkuIsFree(tx[s].job.sku) /\ \E i \in Items : ~Made(i)
    /\ tx' = [tx EXCEPT ![s] = NoTx]
    /\ db' = [db EXCEPT ![Registered(Ean13(db[Counter] + 1))] = NewId]
    /\ UNCHANGED <<options, announcing, jobs, left>>

CreateRefused(s) ==
    /\ IsReady(s) /\ tx[s].job.kind = "create"
    /\ \/ db[Registered(Ean13(db[Counter] + 1))] # NoOwner
       \/ ~SkuIsFree(tx[s].job.sku)
    /\ AbandonTx(s)
    /\ UNCHANGED <<options, announcing, jobs, left>>

CreateCommit(s) ==
    /\ CommitTx(s)
    /\ announcing' = announcing \cup {tx[s].job.sku}
    /\ UNCHANGED <<options, jobs, left>>

\* Run again after a conflict, or the handler dies.
CreateAgain(s) ==
    /\ RetryTx(s) \/ (tx[s].job.kind = "create" /\ AbandonTx(s))
    /\ UNCHANGED <<options, announcing, jobs, left>>

\* After the commit: the event, or an error that is only logged.
Announce(sku) ==
    /\ sku \in announcing
    /\ announcing' = announcing \ {sku}
    /\ jobs' \in {jobs, jobs \cup {sku}}
    /\ UNCHANGED <<transactionVars, options, left>>

----------------------------------------------------------------------------
\* updateWarehouseItem and deleteWarehouseItem

\* A new size is refused for an item that was ordered.
ResizeRead(s, i, ordered) ==
    /\ Spend("edits")
    /\ Made(i) /\ i \notin ordered
    /\ \E size \in Sizes : ReadOutside(s, [kind |-> "resize", item |-> i, size |-> size])
    /\ UNCHANGED <<options, announcing, jobs>>

ResizeWrite(s) ==
    /\ IsReady(s) /\ tx[s].job.kind = "resize"
    /\ LET i == tx[s].job.item IN
       db' = IF Live(i) THEN [db EXCEPT ![Item(i)].size = tx[s].job.size] ELSE db
    /\ tx' = [tx EXCEPT ![s] = NoTx]
    /\ UNCHANGED <<options, announcing, jobs, left>>

\* The unit may change at any time, and an item may go at any time.
ChangeItem(i) ==
    /\ Spend("edits")
    /\ Live(i)
    /\ \/ \E unit \in Units : db' = [db EXCEPT ![Item(i)].unit = unit]
       \/ db' = [db EXCEPT ![Item(i)].deleted = TRUE]
    /\ UNCHANGED <<tx, options, announcing, jobs>>

----------------------------------------------------------------------------
ItemInit ==
    /\ \E register \in Registers :
          db = (Counter ::= 0)
               ++ [x \in {Registered(c) : c \in Codes} |->
                     IF x[2] \in DOMAIN register THEN register[x[2]] ELSE NoOwner]
               ++ [x \in {Item(i) : i \in Items} |-> NoItem]
    /\ tx = [s \in Sessions |-> NoTx]
    /\ options = [o \in {} |-> 0]
    /\ announcing = {} /\ jobs = {}
    /\ left \in Mixes

ItemStep(ordered) ==
    \/ \E o \in DOMAIN OptionForms : CreateOption(o) \/ UpdateOption(o)
    \/ \E s \in Sessions :
          \/ CreateRead(s) \/ CreateOpen(s) \/ CreateRefused(s) \/ CreateCommit(s) \/ CreateAgain(s)
          \/ (\E i \in Items : ResizeRead(s, i, ordered)) \/ ResizeWrite(s)
    \/ \E sku \in announcing : Announce(sku)
    \/ \E i \in Items : ChangeItem(i)
=============================================================================
