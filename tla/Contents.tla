------------------------------ MODULE Contents ------------------------------
(***************************************************************************)
(* The contents of one tenant: its items, listed page by page, and the       *)
(* setting that says in which order.  The setting has a row only while it is *)
(* not left at its default; a request works on what it read when it began,    *)
(* and its writes wait for those of others.                                  *)
(***************************************************************************)
EXTENDS Service

CONSTANTS
    Orders,        \* item_list_order, the values of the enumeration
    DefaultOrder,
    Offers,       \* for each build of the code, the values it offers
    AtDefault,     \* null: back to the default
    MaxItems,      \* bound of the ids of items
    MaxStored,     \* bound of the ids of content_settings
    Labels,        \* names of items, by their place in the alphabet
    ItemsPerPage,  \* limit
    NoRow, NoSave, NoList

StoredSetting == [id: 1..MaxStored, value: Orders]
Save == [value: Orders \cup {AtDefault}, base: StoredSetting \cup {NoRow}]
ItemIds == 1..MaxItems
List == [page: 0..MaxItems, total: 0..MaxItems, order: Orders, began: SUBSET ItemIds, seen: SUBSET ItemIds]

ASSUME ContentsAssumption ==
    /\ Orders \subseteq {"oldest", "newest", "name"}
    /\ Offers \subseteq SUBSET Orders /\ \A C \in Offers : DefaultOrder \in C
    /\ AtDefault \notin Orders /\ Labels \subseteq Nat
    /\ MaxItems \in Nat /\ MaxStored \in Nat /\ ItemsPerPage \in Nat \ {0}
    /\ NoRow \notin [id: Nat, value: Orders] /\ NoSave \notin Save /\ NoList \notin List

VARIABLES
    setting,       \* its row, or NoRow
    lastStored,    \* the last id of content_settings
    choices,       \* what the running build offers
    save,          \* Requests -> the change under way
    items,         \* ids -> names, of the items that are there
    lastItem,      \* the last id of items
    list,          \* the pages somebody has open
    \* history, read by the properties and by no action:
    meanwhile,     \* Requests -> what others have saved while it was under way
    mayBe,         \* what may be saved, of the saves that were answered
    moved,         \* items taken away or moved since the first page
    reordered      \* whether the pages were not all in one order

savingVars == <<setting, lastStored, choices, save, meanwhile, mayBe>>
itemVars == <<items, lastItem>>
listVars == <<list, moved, reordered>>
contentVars == <<now, savingVars, itemVars, listVars>>

There == DOMAIN items

ContentsTypeOK ==
    /\ setting \in StoredSetting \cup {NoRow} /\ lastStored \in 0..MaxStored
    /\ choices \in Offers
    /\ save \in [Requests -> Save \cup {NoSave}]
    /\ lastItem \in ItemIds \cup {0} /\ There \subseteq 1..lastItem /\ items \in [There -> Labels]
    /\ list \in List \cup {NoList}
    /\ meanwhile \in [Requests -> SUBSET (Orders \cup {AtDefault})]
    /\ mayBe \subseteq Orders \cup {AtDefault}
    /\ moved \in Nat /\ reordered \in BOOLEAN
    /\ setting # NoRow => setting.id <= lastStored

ContentsInit ==
    /\ now = 0 /\ setting = NoRow /\ lastStored = 0
    /\ choices \in Offers
    /\ save = [r \in Requests |-> NoSave]
    /\ items = [i \in {} |-> 0] /\ lastItem = 0
    /\ list = NoList
    /\ meanwhile = [r \in Requests |-> {}] /\ mayBe = {AtDefault}
    /\ moved = 0 /\ reordered = FALSE

-----------------------------------------------------------------------------
(* The setting.                                                             *)

\* A stored value the build does not offer counts as none.
IsStored == setting # NoRow /\ setting.value \in choices

OrderInForce == IF IsStored THEN setting.value ELSE DefaultOrder

\* checked: anything else is refused, and nothing is changed.
Accepted == choices \cup {AtDefault}

BeginsSave(r, v) ==
    /\ save[r] = NoSave /\ v \in Accepted
    /\ save' = [save EXCEPT ![r] = [value |-> v, base |-> setting]]
    /\ meanwhile' = [meanwhile EXCEPT ![r] = {}]
    /\ UNCHANGED <<now, setting, lastStored, choices, mayBe, itemVars, listVars>>

\* Variant: what is at its default anyway is not written.
WritesNothingAtDefault(x) == x.value = DefaultOrder

\* The row has this value already, as the request sees it: no UPDATE is sent.
WritesNothing(x) == x.base # NoRow /\ x.base.value = x.value

\* The row must still be absent to be inserted (the key is unique), and the very
\* row that was read must be there to be updated (or the session raises).
MayWrite(x) ==
    \/ x.value = AtDefault \/ WritesNothing(x)
    \/ x.base = NoRow /\ setting = NoRow
    \/ x.base # NoRow /\ setting # NoRow /\ x.base.id = setting.id

Stored(x) ==
    IF x.value = AtDefault THEN NoRow
    ELSE IF WritesNothing(x) THEN setting
    ELSE IF setting = NoRow THEN [id |-> lastStored + 1, value |-> x.value]
    ELSE [setting EXCEPT !.value = x.value]

\* A writer waits until the one before it is through, and then writes on top.
Saves(r) ==
    LET x == save[r]
    IN  /\ x # NoSave /\ MayWrite(x)
        /\ setting' = Stored(x)
        /\ lastStored' = IF setting' # NoRow /\ setting'.id > lastStored THEN setting'.id ELSE lastStored
        /\ lastStored' <= MaxStored
        /\ save' = [save EXCEPT ![r] = NoSave]
        /\ mayBe' = {x.value} \cup meanwhile[r]
        /\ meanwhile' = [q \in Requests |->
                            IF q = r \/ save[q] = NoSave THEN {} ELSE meanwhile[q] \cup {x.value}]
        /\ UNCHANGED <<now, choices, itemVars, listVars>>

\* Everything the request did is undone.
SaveFails(r) ==
    /\ save[r] # NoSave /\ ~MayWrite(save[r])
    /\ save' = [save EXCEPT ![r] = NoSave]
    /\ meanwhile' = [meanwhile EXCEPT ![r] = {}]
    /\ UNCHANGED <<now, setting, lastStored, choices, mayBe, itemVars, listVars>>

\* Another build, of which the requests under way see nothing.
Deploys(C) ==
    /\ choices # C
    /\ choices' = C
    /\ save' = [r \in Requests |-> NoSave] /\ meanwhile' = [r \in Requests |-> {}]
    /\ UNCHANGED <<now, setting, lastStored, mayBe, itemVars, listVars>>

-----------------------------------------------------------------------------
(* The items.                                                               *)

AddsItem(n) ==
    /\ lastItem < MaxItems
    /\ lastItem' = lastItem + 1
    /\ items' = [i \in There \cup {lastItem + 1} |-> IF i = lastItem + 1 THEN n ELSE items[i]]
    /\ UNCHANGED <<now, savingVars, listVars>>

\* Renamed under the eyes of a reader, it may leave its place.
RenamesItem(i, n) ==
    /\ i \in There /\ items[i] # n
    /\ items' = [items EXCEPT ![i] = n]
    /\ moved' = IF list # NoList /\ list.order = "name" THEN moved + 1 ELSE moved
    /\ UNCHANGED <<now, savingVars, lastItem, list, reordered>>

RemovesItem(i) ==
    /\ i \in There
    /\ items' = [j \in There \ {i} |-> items[j]]
    /\ moved' = IF list # NoList THEN moved + 1 ELSE moved
    /\ UNCHANGED <<now, savingVars, lastItem, list, reordered>>

-----------------------------------------------------------------------------
(* The list.                                                                *)

\* i stands before j, or is j.
ComesFirst(order, i, j) ==
    \/ order = "oldest" /\ i <= j
    \/ order = "newest" /\ i >= j
    \/ order = "name" /\ (items[i] < items[j] \/ (items[i] = items[j] /\ i <= j))

Place(order, i) == Cardinality({j \in There : ComesFirst(order, j, i)})

\* Variant: the first page is 1, and the offset is reckoned from it.
OffsetFromOne(page) == (page + 1) * ItemsPerPage

Offset(page) == page * ItemsPerPage

\* find_page: the rows of the page, and the count of all.
Page(order, page) == {i \in There : Place(order, i) \in (Offset(page) + 1)..(Offset(page) + ItemsPerPage)}

OpensList ==
    /\ list = NoList
    /\ list' = [page |-> 0, total |-> Cardinality(There), order |-> OrderInForce,
                began |-> There, seen |-> Page(OrderInForce, 0)]
    /\ moved' = 0 /\ reordered' = FALSE
    /\ UNCHANGED <<now, savingVars, itemVars>>

HasNext(l) == (l.page + 1) * ItemsPerPage < l.total

\* Each page is in the order that is set when it is asked for.
TurnsToNext ==
    /\ list # NoList /\ HasNext(list)
    /\ list' = [list EXCEPT !.page = @ + 1, !.total = Cardinality(There),
                            !.seen = @ \cup Page(OrderInForce, list.page + 1)]
    /\ reordered' = (reordered \/ OrderInForce # list.order)
    /\ UNCHANGED <<now, savingVars, itemVars, moved>>

ClosesList ==
    /\ list # NoList
    /\ list' = NoList /\ moved' = 0 /\ reordered' = FALSE
    /\ UNCHANGED <<now, savingVars, itemVars>>

ContentsNext ==
    \/ OpensList \/ TurnsToNext \/ ClosesList
    \/ \E r \in Requests : Saves(r) \/ SaveFails(r) \/ \E v \in Orders \cup {AtDefault} : BeginsSave(r, v)
    \/ \E C \in Offers : Deploys(C)
    \/ \E n \in Labels : AddsItem(n) \/ \E i \in ItemIds : RenamesItem(i, n)
    \/ \E i \in ItemIds : RemovesItem(i)

ContentsSpec == ContentsInit /\ [][ContentsNext]_contentVars
-----------------------------------------------------------------------------
\* What is stored is what the last answered save asked for, or what another one asked
\* for that was answered while that one was under way: no answered save is undone by
\* one that was over before it began.
SavesTakeHold == (IF setting = NoRow THEN AtDefault ELSE setting.value) \in mayBe

\* Whoever turns the pages to the last, all in one order, misses no more of the items
\* that were and are there than were removed or (by name) moved meanwhile.
ListsMissOnlyWhatMoved ==
    list # NoList /\ ~HasNext(list) /\ ~reordered =>
        Cardinality((list.began \cap There) \ list.seen) <= moved
=============================================================================
