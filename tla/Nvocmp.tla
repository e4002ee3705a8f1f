------------------------------- MODULE Nvocmp -------------------------------
(***************************************************************************)
(* The non-volatile store: a ring of pages, items appended to the active   *)
(* one, newer copies written before older ones are marked inactive, and    *)
(* compaction of one page into the spare page when no page has room.  The  *)
(* pages are in memory; after an operation that succeeds all of them are   *)
(* written over the file that the next start loads.                        *)
(***************************************************************************)
EXTENDS Integers, Sequences, FiniteSets, SequencesExt, FiniteSetsExt, Sums

CONSTANTS
    Ids,       \* items
    Vals,      \* what they hold
    Pages,     \* NVOCMP_NVPAGES
    Layouts,   \* room on a page, lengths of what items hold, items in use, and
               \* how much is kept at once
    Nothing,   \* NVINTF_NOTFOUND
    Lost       \* a file that is shorter than the pages

ASSUME NvocmpAssumption ==
    /\ Pages \in Nat /\ Pages >= 2
    /\ Nothing \notin Vals \cup Ids
    /\ \A l \in Layouts : /\ l.ids \subseteq Ids
                          /\ DOMAIN l.size \subseteq Vals
                          /\ l.cap \in Nat /\ l.live \in Nat
                          /\ \A v \in DOMAIN l.size : l.size[v] \in 1..l.cap

(* A compaction makes room for an item: all have one length, or a page has *)
(* room for all that is kept and one more.                                 *)
ASSUME RoomAssumption ==
    \A l \in Layouts :
        \/ \A v, w \in DOMAIN l.size : l.size[v] = l.size[w]
        \/ \A v \in DOMAIN l.size : l.live + l.size[v] <= l.cap

VARIABLES
    layout,    \* never changes
    nv,        \* the pages, NVOCMP_nvHandle and NVOCMP_failW
    file,      \* the state of the pages as saved, or Lost
    phase      \* of the operation that holds the mutex

vars == <<layout, nv, file, phase>>

PageNumbers == 0..Pages - 1
States == {"nact", "xdst", "rdy", "act", "full"}
Items == [id : Ids, val : Vals, size : Nat]
         \cup [id : {Nothing}, val : {Nothing}, size : Nat]
AllPages == [PageNumbers -> [state : States, items : Seq(Items)]]

(* No pages look like a file that is lost, and nothing that is read.       *)
ASSUME LostAssumption ==
    Lost \notin AllPages /\ Lost \notin [Ids -> Vals \cup {Nothing}]

IncPage(p, n) == (p + n) % Pages
HeadPage(store) == IncPage(store.tail, 1)

(* Of an item that is not active any more only the length is of use.       *)
Inactive(item) == [id |-> Nothing, val |-> Nothing, size |-> item.size]
Item(id, v) == [id |-> id, val |-> v, size |-> layout.size[v]]
Active(item) == item.val # Nothing
Filled(page) == Total([i \in DOMAIN page.items |-> page.items[i].size])
AllActive(page) == \A i \in DOMAIN page.items : Active(page.items[i])
Erased(state) == [state |-> state, items |-> <<>>]
ChangeState(page, state) == [page EXCEPT !.state = state]

-----------------------------------------------------------------------------
(* NVOCMP_initNv: erased pages, or pages that were saved.                  *)
Fresh ==
    [page |-> [p \in PageNumbers |->
                  Erased(CASE p = 0 -> "rdy" [] p = Pages - 1 -> "xdst"
                           [] OTHER -> "nact")],
     act |-> 0, tail |-> Pages - 1, failW |-> FALSE]

InState(page, s) == {p \in PageNumbers : page[p].state = s}

Resume(page) ==
    LET tail == Max(InState(page, "xdst"))
    IN  [page |-> page,
         tail |-> tail,
         act |-> IF InState(page, "act") # {} THEN Max(InState(page, "act"))
                 ELSE IF InState(page, "rdy") # {} THEN Max(InState(page, "rdy"))
                 ELSE IncPage(tail, 1),
         failW |-> FALSE]

(* A page that is being compacted is never saved: pages are all erased, or *)
(* one of them is the spare page.                                          *)
InitNv(page) ==
    IF InState(page, "nact") = PageNumbers THEN Fresh ELSE Resume(page)

-----------------------------------------------------------------------------
(* NVOCMP_findItem: backwards from the active page, the last item first.   *)
Age(store, p) == (store.act - p + Pages) % Pages

Copies(store, id) ==
    UNION {{<<p, i>> : i \in {j \in DOMAIN store.page[p].items :
                                 /\ store.page[p].items[j].id = id
                                 /\ Active(store.page[p].items[j])}}
           : p \in PageNumbers \ {store.tail}}

FindItem(store, id) ==
    LET copies == Copies(store, id)
    IN  CHOOSE c \in copies : \A d \in copies :
            \/ Age(store, c[1]) < Age(store, d[1])
            \/ c[1] = d[1] /\ c[2] >= d[2]

ItemAt(store, c) == store.page[c[1]].items[c[2]]

ReadItem(store, id) ==
    IF Copies(store, id) = {} THEN Nothing
    ELSE ItemAt(store, FindItem(store, id)).val

SetItemInactive(store, c) ==
    [store EXCEPT !.page[c[1]].items[c[2]] = Inactive(@), !.failW = FALSE]

-----------------------------------------------------------------------------
(* NVOCMP_getDstPage: from the active page on, pages without room are      *)
(* closed, until one has it.  A byte that is written clears failW.         *)
GetDstPage(store, n) ==
    LET at(p)  == (p - store.act + Pages) % Pages
        open   == {p \in PageNumbers : p # store.tail
                                       /\ store.page[p].state # "full"}
        roomy  == {p \in open : Filled(store.page[p]) + n <= layout.cap}
        first  == IF roomy = {} THEN Pages ELSE Min({at(p) : p \in roomy})
        tried  == {p \in open : at(p) <= first}
        last   == IF tried = {} THEN store.act
                  ELSE CHOOSE p \in tried : \A q \in tried : at(q) <= at(p)
        states == [p \in PageNumbers |->
                     IF p \notin tried THEN store.page[p].state
                     ELSE IF at(p) = first THEN "act" ELSE "full"]
    IN  [found |-> roomy # {},
         store |-> [store EXCEPT
             !.page = [p \in PageNumbers |->
                          ChangeState(store.page[p], states[p])],
             !.act = last,
             !.failW = @ /\ \A p \in PageNumbers :
                               states[p] = store.page[p].state]]

(* NVOCMP_compact: what is active of the source, in its order, is gathered *)
(* and written to the spare page at once, with the range it came from;     *)
(* NVOCMP_cleanPage: the source is the next spare page.                    *)
Gathered(page) ==
    LET kept[n \in 0..Len(page.items)] ==
            IF n = 0 THEN <<>>
            ELSE IF Active(page.items[n]) THEN Append(kept[n - 1], page.items[n])
            ELSE kept[n - 1]
    IN  kept[Len(page.items)]

Compact(page) == ChangeState([page EXCEPT !.items = Gathered(page)], "act")

CleanPage(page) == ChangeState(Erased(page.state), "xdst")

Move(store, src) ==
    [page |-> [store.page EXCEPT ![store.tail] = Compact(store.page[src]),
                                 ![src] = CleanPage(@)],
     act |-> store.tail, tail |-> src, failW |-> FALSE]

(* NVOCMP_compactPage for an item: pages from the head on are passed over  *)
(* as long as all their items are active, and one is packed into the       *)
(* spare page.  How much room that makes is not looked at.                 *)
CompactPage(store) ==
    LET skips == {k \in 0..Pages - 2 :
                     ~AllActive(store.page[IncPage(HeadPage(store), k)])}
        src   == IncPage(HeadPage(store), Min(skips))
    IN  IF skips = {} THEN [store EXCEPT !.failW = FALSE]
        ELSE Move(store, src)

(* NVOCMP_writeItem, and then the older copy is marked inactive.           *)
WriteItem(store, item, old) ==
    LET page == store.page[store.act]
        ok   == page.state = "act" /\ Filled(page) + item.size <= layout.cap
        new  == [store EXCEPT !.page[store.act].items = Append(@, item),
                              !.failW = FALSE]
    IN  IF ~ok THEN [ok |-> FALSE, store |-> [store EXCEPT !.failW = TRUE]]
        ELSE [ok |-> TRUE,
              store |-> IF old = {} THEN new
                        ELSE SetItemInactive(new, CHOOSE c \in old : TRUE)]

(* The older copy is looked for after the compaction, which may move it;   *)
(* and not at all if the last operation failed and no byte was written     *)
(* since.                                                                  *)
Old(store, id) ==
    IF store.failW \/ Copies(store, id) = {} THEN {}
    ELSE {FindItem(store, id)}

(* Mutant: the older copy is looked for before the compaction.             *)
AddItemEarly(store, item) ==
    LET dst   == GetDstPage(store, item.size)
        room  == IF dst.found THEN dst.store ELSE CompactPage(dst.store)
    IN  IF ~dst.found /\ room.tail = store.tail
        THEN [ok |-> FALSE, store |-> room]
        ELSE WriteItem(room, item,
                       Old(store, item.id) \cap Copies(room, item.id))

AddItem(store, item) ==
    LET dst   == GetDstPage(store, item.size)
        room  == IF dst.found THEN dst.store ELSE CompactPage(dst.store)
    IN  IF ~dst.found /\ room.tail = store.tail
        THEN [ok |-> FALSE, store |-> room]
        ELSE WriteItem(room, item, Old(room, item.id))

-----------------------------------------------------------------------------
Init ==
    /\ layout \in Layouts
    /\ nv = Fresh
    /\ file = Fresh.page
    /\ phase = "idle"

(* The callers keep no more than layout.live.                              *)
Kept(page, but) ==
    Total([i \in DOMAIN page.items |->
              IF Active(page.items[i]) /\ page.items[i].id # but
              THEN page.items[i].size ELSE 0])

KeptIn(page, but) == Total([p \in 1..Pages |-> Kept(page[p - 1], but)])

Affordable(item) == item.size + KeptIn(nv.page, item.id) <= layout.live

Write(item) ==
    /\ phase = "idle"
    /\ Affordable(item)
    /\ nv' = AddItem(nv, item).store
    /\ phase' = IF AddItem(nv, item).ok THEN "done" ELSE "idle"
    /\ UNCHANGED <<layout, file>>

(* Mutant: a deletion is not saved.                                        *)
DeleteUnsaved(id) ==
    /\ phase = "idle"
    /\ Copies(nv, id) # {}
    /\ nv' = SetItemInactive(nv, FindItem(nv, id))
    /\ UNCHANGED <<layout, file, phase>>

(* It succeeds if no copy is left.                                         *)
Delete(id) ==
    /\ phase = "idle"
    /\ Copies(nv, id) # {}
    /\ nv' = SetItemInactive(nv, FindItem(nv, id))
    /\ phase' = IF Copies(nv', id) = {} THEN "done" ELSE "idle"
    /\ UNCHANGED <<layout, file>>

(* NV_LINUX_save truncates the file, and writes it.                        *)
Truncate ==
    /\ phase = "done"
    /\ phase' = "open"
    /\ file' = Lost
    /\ UNCHANGED <<layout, nv>>

Save ==
    /\ phase = "open"
    /\ phase' = "idle"
    /\ file' = nv.page
    /\ UNCHANGED <<layout, nv>>

(* NV_LINUX_load: a file of the wrong length is replaced by erased pages.  *)
Restart ==
    /\ phase' = "idle"
    /\ nv' = InitNv(IF file = Lost THEN [p \in PageNumbers |-> Erased("nact")] ELSE file)
    /\ file' = nv'.page
    /\ UNCHANGED layout

Next ==
    \/ \E id \in layout.ids :
          \/ \E v \in DOMAIN layout.size : Write(Item(id, v))
          \/ Delete(id)
    \/ Truncate \/ Save
    \/ Restart

Spec == Init /\ [][Next]_vars

-----------------------------------------------------------------------------
TypeOK ==
    /\ layout \in Layouts
    /\ nv \in [page : AllPages, act : PageNumbers, tail : PageNumbers, failW : BOOLEAN]
    /\ \A p \in PageNumbers : Filled(nv.page[p]) <= layout.cap
    /\ file \in AllPages \cup {Lost}
    /\ phase \in {"idle", "done", "open"}

(* Each item is unique: compactions move copies, failures leave the marks  *)
(* of the last operation behind, but one active copy at most remains.      *)
OneActiveCopy ==
    \A id \in Ids : Cardinality(Copies(nv, id)) <= 1

(* The pages implement the map, and the file its copy: no compaction, no   *)
(* restart and no refused write changes what is read.                      *)
View(store) == [id \in Ids |-> ReadItem(store, id)]

S == INSTANCE Store WITH
        map   <- View(nv),
        saved <- IF file = Lost THEN Lost ELSE View(Resume(file)),
        busy  <- phase # "idle"

ImplementsStore == S!Spec

=============================================================================
