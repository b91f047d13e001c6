-------------------------------- MODULE Tui --------------------------------
(***************************************************************************)
(* The interactive selection (pkg/tui): the model that Update() changes,   *)
(* one message at a time, and the commands that run beside it and whose    *)
(* results come back as messages in any order: batches of discovered       *)
(* contexts, previews, and expansions of a context into the k0smotron      *)
(* clusters it hosts.                                                      *)
(*                                                                         *)
(* As in the code, positions of the list count from 0 and position 0 is    *)
(* the bottom row.  Of the text typed by the user only two queries are     *)
(* told apart: the empty one and one that some paths match.                *)
(***************************************************************************)
EXTENDS Integers, SequencesExt

CONSTANTS
    Batches,     \* the itemsMsg of the discovery, a sequence of sequences
    Clusters,    \* Clusters[p]: the paths an expansion of path p can find
    Matching,    \* paths that match the non-empty query
    Best,        \* the matching paths fuzzy.Find ranks first
    Heights,     \* list heights the window can have
    MaxAtWork,   \* bound on the expansions of one path at work together
    NoPath       \* parentPath of a top-level item, no preview

Paths == DOMAIN Clusters
StoreIDs == {it.storeID : it \in UNION {Range(b) : b \in Range(Batches)}}

\* The in-memory store of the clusters found in p has an id of its own.
DynamicID(p) == <<"k0smotron", p>>

TopLevel(path, storeID) ==
    [path |-> path, storeID |-> storeID, parentPath |-> NoPath,
     isLoading |-> FALSE, expanded |-> FALSE, expandedEmpty |-> FALSE]

ASSUME TuiAssumption ==
    /\ Batches \in Seq(Seq({TopLevel(p, s) : p \in Paths, s \in StoreIDs}))
    /\ Clusters \in [Paths -> Seq(Paths)]
    /\ Best \subseteq Matching /\ Matching \subseteq Paths
    /\ Heights \subseteq Nat \ {0}
    /\ MaxAtWork \in Nat
    /\ NoPath \notin Paths

VARIABLES
    m,         \* the model
    batches,   \* batches still to be sent by the discovery goroutine
    previews,  \* fetchPreview commands at work: <<storeID, path>>
    expansions \* expandK0smotronCmd commands at work, by path

vars == <<m, batches, previews, expansions>>

Queries == {"", "query"}

AnyID == StoreIDs \cup {DynamicID(p) : p \in Paths}

Item == [path : Paths, storeID : AnyID, parentPath : Paths \cup {NoPath},
         isLoading : BOOLEAN, expanded : BOOLEAN, expandedEmpty : BOOLEAN]

Model ==
    [allItems : Seq(Item), filtered : Seq(Item), query : Queries,
     cursor : Nat, viewOffset : Nat, listHeight : Heights,
     previewForPath : Paths \cup {NoPath},
     previewContent : (StoreIDs \X Paths) \cup {NoPath},
     loading : BOOLEAN,
     end : {"no", "aborted", "selected", "hangs", "panics"}]

TypeOK ==
    /\ m \in Model
    /\ previews \subseteq AnyID \X Paths
    /\ expansions \in [Paths -> 0..MaxAtWork]

Init ==
    /\ \E h \in Heights :
          m = [allItems |-> <<>>, filtered |-> <<>>, query |-> "",
               cursor |-> 0, viewOffset |-> 0, listHeight |-> h,
               previewForPath |-> NoPath, previewContent |-> NoPath,
               loading |-> TRUE, end |-> "no"]
    /\ batches = Batches
    /\ previews = {}
    /\ expansions = [p \in Paths |-> 0]

-----------------------------------------------------------------------------
(* Helpers of Update: from a model to a model.                             *)

\* The items at some of their positions, in order.
ItemsAt(items, S) ==
    [k \in 1..Cardinality(S) |->
        items[CHOOSE i \in S : Cardinality({j \in S : j <= i}) = k]]

ItemsOf(items, paths) ==
    ItemsAt(items, {i \in DOMAIN items : items[i].path \in paths})

\* filterItems: the empty query keeps all items in order; fuzzy.Find sorts.
FilterItems(query, items) ==
    IF query = "" THEN items
    ELSE ItemsOf(items, Best) \o ItemsOf(items, Matching \ Best)

Filter(mod) == [mod EXCEPT !.filtered = FilterItems(mod.query, mod.allItems)]

Lesser(a, b)  == IF a < b THEN a ELSE b
Greater(a, b) == IF a > b THEN a ELSE b

\* Variant: the cursor may stand just behind the last item.
ClampCursorLate(mod) ==
    LET len == Len(mod.filtered)
    IN  IF len = 0 THEN [mod EXCEPT !.cursor = 0, !.viewOffset = 0]
        ELSE [mod EXCEPT
                !.cursor = Lesser(Greater(@, 0), len),
                !.viewOffset = Lesser(@, Greater(len - mod.listHeight, 0))]

ClampCursor(mod) ==
    LET len == Len(mod.filtered)
    IN  IF len = 0 THEN [mod EXCEPT !.cursor = 0, !.viewOffset = 0]
        ELSE [mod EXCEPT
                !.cursor = Lesser(Greater(@, 0), len - 1),
                !.viewOffset = Lesser(@, Greater(len - mod.listHeight, 0))]

ScrollIntoView(mod) ==
    LET up == Lesser(mod.viewOffset, mod.cursor)
    IN  [mod EXCEPT
            !.viewOffset = Greater(up, mod.cursor - mod.listHeight + 1)]

Refilter(mod) == Filter([mod EXCEPT !.cursor = 0, !.viewOffset = 0])

Selection(mod) == mod.filtered[mod.cursor + 1]

\* The position of the first item with a path; 0 if there is none.
FirstAt(items, path) == SelectInSeq(items, LAMBDA it : it.path = path)

\* Set fields of the items with a path.
Mark(mod, path, F(_)) ==
    [mod EXCEPT !.allItems =
        [i \in DOMAIN @ |-> IF @[i].path = path THEN F(@[i]) ELSE @[i]]]

MarkLoading(mod, path) ==
    Filter(Mark(mod, path, LAMBDA it : [it EXCEPT !.isLoading = TRUE]))

\* Where the loop of isDescendant ends up from an item when "path" is to be
\* collapsed: at path, at NoPath, or (for ever) at a path that no item has.
Walk(items, path, it) ==
    LET Up(p) == LET above == FirstAt(items, p)
                 IN  IF p \in {path, NoPath} \/ above = 0 THEN p
                     ELSE items[above].parentPath
        at[n \in 0..Len(items)] == IF n = 0 THEN it.parentPath
                                   ELSE Up(at[n - 1])
    IN  at[Len(items)]

\* The positions of all items but the descendants of a path.
Kept(items, path) ==
    {i \in DOMAIN items :
        items[i].path = path \/ Walk(items, path, items[i]) # path}

\* Variant: the item stays marked as expanded.
CollapseStillExpanded(mod, path) ==
    LET kept == ItemsAt(mod.allItems, Kept(mod.allItems, path))
    IN  ClampCursor(Filter([mod EXCEPT !.allItems = kept]))

\* Variant: the filtered list keeps the descendants.
CollapseUnfiltered(mod, path) ==
    LET kept == ItemsAt(mod.allItems, Kept(mod.allItems, path))
    IN  ClampCursor(Mark([mod EXCEPT !.allItems = kept], path,
            LAMBDA it : [it EXCEPT !.expanded = FALSE, !.isLoading = FALSE]))

\* Remove the descendants of a path, unless one item sends isDescendant into
\* an endless loop.
CollapseItem(mod, path) ==
    LET Ends(it) == it.path = path
                    \/ Walk(mod.allItems, path, it) \in {path, NoPath}
        kept == ItemsAt(mod.allItems, Kept(mod.allItems, path))
    IN  IF \A i \in DOMAIN mod.allItems : Ends(mod.allItems[i])
        THEN ClampCursor(Filter(Mark([mod EXCEPT !.allItems = kept], path,
                LAMBDA it : [it EXCEPT !.expanded = FALSE,
                                       !.isLoading = FALSE])))
        ELSE [mod EXCEPT !.end = "hangs"]

Children(path) ==
    [i \in DOMAIN Clusters[path] |->
        [TopLevel(Clusters[path][i], DynamicID(path))
            EXCEPT !.parentPath = path]]

\* The items with the children inserted before their parent; a parent that is
\* gone gets them appended.
Insert(items, path) ==
    LET parent == FirstAt(items, path)
    IN  IF parent = 0 THEN items \o Children(path)
        ELSE SubSeq(items, 1, parent - 1) \o Children(path)
             \o SubSeq(items, parent, Len(items))

\* applyExpandResult for clusters that were found.
ApplyChildren(mod, path) ==
    LET parent == FirstAt(mod.allItems, path)
        marked == Mark(mod, path, LAMBDA it :
                      [it EXCEPT !.isLoading = FALSE, !.expanded = TRUE])
        grown  == Filter([marked EXCEPT !.allItems = Insert(@, path)])
    IN  IF parent = 0 THEN ClampCursor(grown)
        ELSE ScrollIntoView(ClampCursor(
                [grown EXCEPT !.cursor = parent - 2 + Len(Clusters[path])]))

\* Variant: an error leaves the spinner on.
ApplyNoneWhenFine(mod, path, err) ==
    Filter(Mark(mod, path, LAMBDA it :
        [it EXCEPT !.isLoading = @ /\ err, !.expandedEmpty = @ \/ ~err]))

\* applyExpandResult when there is none, or an error.
ApplyNone(mod, path, err) ==
    Filter(Mark(mod, path, LAMBDA it :
        [it EXCEPT !.isLoading = FALSE,
                   !.expandedEmpty = @ \/ ~err]))

-----------------------------------------------------------------------------
(* Update: one action per message.                                         *)

Running == m.end = "no"

\* fetchPreviewCmd: start to fetch the preview of the selection unless it is
\* the one shown or awaited.
ShowPreview(mod) ==
    IF mod.filtered = <<>>
    THEN m' = mod /\ UNCHANGED previews
    ELSE IF mod.cursor >= Len(mod.filtered)
    THEN m' = [mod EXCEPT !.end = "panics"] /\ UNCHANGED previews
    ELSE IF Selection(mod).path = mod.previewForPath
    THEN m' = mod /\ UNCHANGED previews
    ELSE /\ m' = [mod EXCEPT !.previewForPath = Selection(mod).path,
                             !.previewContent = NoPath]
         /\ previews' = previews \cup
                {<<Selection(mod).storeID, Selection(mod).path>>}

WindowSize ==
    /\ Running
    /\ \E h \in Heights \ {m.listHeight} : m' = [m EXCEPT !.listHeight = h]
    /\ UNCHANGED <<batches, previews, expansions>>

ItemsArrive ==
    /\ Running
    /\ batches # <<>>
    /\ ShowPreview(ClampCursor(Filter(
            [m EXCEPT !.allItems = @ \o Head(batches)])))
    /\ batches' = Tail(batches)
    /\ UNCHANGED expansions

DiscoveryDone ==
    /\ Running
    /\ batches = <<>>
    /\ m.loading
    /\ m' = [m EXCEPT !.loading = FALSE]
    /\ UNCHANGED <<batches, previews, expansions>>

\* Only m.stores has previews to offer, not the in-memory stores.
PreviewOf(fetch) == IF fetch[1] \in StoreIDs THEN fetch ELSE NoPath

\* Variant: the answer is shown without asking what it is for.
PreviewArrivesLate ==
    /\ Running
    /\ \E fetch \in previews :
          /\ previews' = previews \ {fetch}
          /\ m' = [m EXCEPT !.previewContent = PreviewOf(fetch)]
    /\ UNCHANGED <<batches, expansions>>

PreviewArrives ==
    /\ Running
    /\ \E fetch \in previews :
          /\ previews' = previews \ {fetch}
          /\ m' = IF fetch[2] = m.previewForPath
                  THEN [m EXCEPT !.previewContent = PreviewOf(fetch)]
                  ELSE m
    /\ UNCHANGED <<batches, expansions>>

ExpansionArrives ==
    /\ Running
    /\ \E p \in Paths :
          /\ expansions[p] > 0
          /\ expansions' = [expansions EXCEPT ![p] = @ - 1]
          /\ \/ Clusters[p] # <<>> /\ ShowPreview(ApplyChildren(m, p))
             \/ \E err \in BOOLEAN : ShowPreview(ApplyNone(m, p, err))
    /\ UNCHANGED batches

\* Typing, pasting or deleting words: to a text of either kind.
QueryChanges ==
    /\ Running
    /\ \E q \in Queries :
          ShowPreview(Refilter([m EXCEPT !.query = q]))
    /\ UNCHANGED <<batches, expansions>>

\* ctrl+u: viewOffset is not touched.
ClearQuery ==
    /\ Running
    /\ ShowPreview(Filter([m EXCEPT !.query = "", !.cursor = 0]))
    /\ UNCHANGED <<batches, expansions>>

\* Variant: the cursor is not clamped.
MoveUnclamped ==
    /\ Running
    /\ m.filtered # <<>>
    /\ \E delta \in {1, -1} : m' = [m EXCEPT !.cursor = @ + delta]
    /\ UNCHANGED <<batches, previews, expansions>>

\* Arrow keys by one row, page keys by a window.
Move ==
    /\ Running
    /\ m.filtered # <<>>
    /\ \E delta \in {1, -1, m.listHeight, -m.listHeight} :
          ShowPreview(ScrollIntoView(ClampCursor(
              [m EXCEPT !.cursor = @ + delta])))
    /\ UNCHANGED <<batches, expansions>>

StartExpansion(path) ==
    /\ m' = MarkLoading(m, path)
    /\ expansions' = [expansions EXCEPT ![path] = @ + 1]
    /\ UNCHANGED <<batches, previews>>

\* right
Expand ==
    /\ Running
    /\ m.filtered # <<>>
    /\ ~Selection(m).expanded
    /\ ~Selection(m).isLoading
    /\ expansions[Selection(m).path] < MaxAtWork
    /\ StartExpansion(Selection(m).path)

\* The cursor moves to the first item of the filtered list with a path.
MoveTo(mod, path) ==
    LET at == FirstAt(mod.filtered, path)
    IN  IF at = 0 THEN mod ELSE ScrollIntoView([mod EXCEPT !.cursor = at - 1])

\* left: collapse the selection, or else its parent.
Collapse ==
    /\ Running
    /\ m.filtered # <<>>
    /\ \/ /\ Selection(m).expanded
          /\ ShowPreview(CollapseItem(m, Selection(m).path))
       \/ /\ ~Selection(m).expanded
          /\ Selection(m).parentPath # NoPath
          /\ ShowPreview(MoveTo(CollapseItem(m, Selection(m).parentPath),
                                Selection(m).parentPath))
    /\ UNCHANGED <<batches, expansions>>

\* enter, or esc; the program ends.
Quit ==
    /\ Running
    /\ \E end \in {"selected", "aborted"} : m' = [m EXCEPT !.end = end]
    /\ UNCHANGED <<batches, previews, expansions>>

Ended == ~Running /\ UNCHANGED vars

Next ==
    \/ WindowSize \/ ItemsArrive \/ DiscoveryDone \/ PreviewArrives
    \/ ExpansionArrives \/ QueryChanges \/ ClearQuery \/ Move \/ Expand
    \/ Collapse \/ Quit \/ Ended

Spec == Init /\ [][Next]_vars

-----------------------------------------------------------------------------
(* Properties.                                                             *)

\* filtered[cursor], which enter and the arrow keys look at without asking,
\* is there whenever the list is not empty, although the list grows, shrinks
\* and is reordered under the cursor.
CursorInRange ==
    /\ m.end # "panics"
    /\ m.filtered # <<>> => m.cursor < Len(m.filtered)

\* What the user sees and selects is what the query finds now: no change of
\* the items leaves an old copy of them in the filtered list.
FilteredIsCurrent == m.filtered = FilterItems(m.query, m.allItems)

\* The list that the keys act on is the one on the screen.
ListIsCoherent == CursorInRange /\ FilteredIsCurrent

\* Where a path leads does not depend on how it came into the list: previews
\* are matched by the path alone.
PathsTellStores(discovered, found) ==
    LET listed == {<<it.storeID, it.path>> :
                      it \in UNION {Range(b) : b \in Range(discovered)}}
        hosted == UNION {{<<DynamicID(p), q>> : q \in Range(found[p])} :
                            p \in DOMAIN found}
    IN  \A x, y \in listed \cup hosted : x[2] = y[2] => x = y

\* A preview is shown beside the context it belongs to, however late it comes.
PreviewBelongsToSelection ==
    m.filtered # <<>> /\ m.previewContent # NoPath =>
        m.previewContent = <<Selection(m).storeID, Selection(m).path>>

\* The paths of the items that a path has as its children.
ChildPaths(items, path) ==
    {items[i].path : i \in {j \in DOMAIN items :
                              items[j].parentPath = path}}

\* However often and how fast a context is expanded and collapsed, and
\* although other contexts of its kubeconfig have the same path: its clusters
\* are listed if one of them is expanded, all of them, and none otherwise.
ChildrenIfExpanded ==
    \A p \in Paths :
        ChildPaths(m.allItems, p) =
            IF \E i \in DOMAIN m.allItems :
                   m.allItems[i].path = p /\ m.allItems[i].expanded
            THEN Range(Clusters[p]) ELSE {}

\* A spinner is shown only while the answer it waits for is on its way.
LoadingIsPending ==
    \A i \in DOMAIN m.allItems :
        m.allItems[i].isLoading => expansions[m.allItems[i].path] > 0

\* Whatever answers and keys overlap, the tree fits its marks.
ExpansionsSettle == ChildrenIfExpanded /\ LoadingIsPending

\* Clusters host no clusters, and are not discovered as contexts too.
IsFlat(discovered, found) ==
    LET listed == {it.path : it \in UNION {Range(b) : b \in Range(discovered)}}
    IN  \A p \in DOMAIN found : \A q \in Range(found[p]) :
            found[q] = <<>> /\ q \notin listed

\* NOT a property of the code: a cluster is listed once.  Of two contexts of
\* one kubeconfig each can be expanded (model.go:196), and both answers insert
\* the clusters (model.go:564).
ChildrenOnce ==
    \A i, j \in DOMAIN m.allItems :
        LET x == m.allItems[i]
            y == m.allItems[j]
        IN  x.parentPath # NoPath /\ x.parentPath = y.parentPath
                /\ x.path = y.path => i = j

\* Collapsing a context ends: "collect all descendant paths (items whose
\* parentPath chain leads to path)".
NeverHangs == m.end # "hangs"

\* "scrollIntoView adjusts viewOffset so the cursor is visible".
CursorVisible ==
    m.filtered # <<>> =>
        m.viewOffset <= m.cursor /\ m.cursor < m.viewOffset + m.listHeight
=============================================================================
