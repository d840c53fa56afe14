------------------------------- MODULE Browse -------------------------------
(***************************************************************************)
(* Browsing the catalogue: the key handler of RootLayout                   *)
(* (src/ui/Layout.cpp) with the tree, detail, search, filter and           *)
(* notification modes, rebuild_visible_nodes (src/ui/TreePane.cpp), the    *)
(* Escape handler of App::run and App::load_data (src/app/App.cpp), while  *)
(* a background sync adds rows to the database under the view.             *)
(*                                                                         *)
(* Indices are those of the code, from 0.  Not modelled here: the command  *)
(* line (module CommandLine; here its commands only open a CWE or quit),   *)
(* popups, the scroll offset of the detail pane, the status line, which no *)
(* key looks at.  Nothing in the program inserts a notification, so that   *)
(* list is empty.  int arithmetic wraps at IntMax.                         *)
(***************************************************************************)
EXTENDS Catalog, Pattern, Subsequence

CONSTANTS
  CatOrder,     \* the categories in the order of ORDER BY name
  CweOrder,     \* the weaknesses in the order of ORDER BY id
  Rel,          \* Rel[c]: the weaknesses a sync links to category c
  Query,        \* non-empty search and filter queries
  Label,        \* Label[n]: the name of a category, the id and the name of a
                \* weakness; the number of weaknesses in a category's label
                \* is left out
  IdText,       \* IdText[c]: the id of a category
  IntMax,       \* the largest int, 2^31 - 1 in the code
  Digits        \* the digits typed: 0 .. 9

NoQuery == << >>

ASSUME BrowseAssumption ==
  /\ CatOrder \in Seq(Cat) /\ ToSet(CatOrder) = Cat
  /\ CweOrder \in Seq(Cwe) /\ ToSet(CweOrder) = Cwe
  /\ Rel \in [Cat -> SUBSET Cwe]
  /\ Label \in [Cat \cup Cwe -> Seq(Char)]
  /\ IdText \in [Cat -> Seq(Char)]
  /\ Query \subseteq Seq(Char \cup {CaseMark}) \ {NoQuery}
  /\ IntMax \in Nat \ {0}
  /\ Digits \subseteq 0 .. 9
  /\ "none" \notin Cat \cup Cwe

VARIABLES
  db,                        \* cwe.db, see Catalog
  categories,                \* AppState::categories
  visible_nodes,             \* the rows of the tree pane
  cursor_index,
  expanded_categories,
  active_cwe,                \* a weakness, or "none"
  mode,
  tree_visible,
  notification_pane_visible,
  search_query,
  search_matches,
  search_match_idx,
  filter_query,
  filter_matches,
  filter_active,
  filter_navigation_active,
  count_pending,
  count_value

treeVars == <<categories, visible_nodes, expanded_categories>>
searchVars == <<search_query, search_matches, search_match_idx>>
filterVars == <<filter_query, filter_matches, filter_active,
                filter_navigation_active>>
paneVars == <<tree_visible, notification_pane_visible>>
countVars == <<count_pending, count_value>>

vars == <<db, treeVars, cursor_index, active_cwe, mode, paneVars, searchVars,
          filterVars, countVars>>

Mode == {"Tree", "Detail", "Notification", "Command", "Search", "Filter"}

Node == [kind : {"Category"}, id : Cat, category_id : Cat, expanded : BOOLEAN]
          \cup
        [kind : {"Weakness"}, id : Cwe, category_id : Cat,
         expanded : {FALSE}]

\* What memory that holds no row may read as.
Junk == [kind : {"Category", "Weakness"}, id : {"none"}, category_id : {"none"},
         expanded : {FALSE}]

Ints == -IntMax - 1 .. IntMax

\* What an int holds after an operation with result n: two's complement.
AsInt(n) == ((n + IntMax + 1) % (2 * (IntMax + 1))) - IntMax - 1

Smaller(m, n) == IF m <= n THEN m ELSE n
Larger(m, n) == IF m >= n THEN m ELSE n

-----------------------------------------------------------------------------
(* The tree.                                                               *)

\* Repository::get_categories().
GetCategories(d) == Keep(CatOrder, StoredCats(d))

\* Repository::get_cwes_for_category(c).
GetCwes(d, c) == Keep(CweOrder, {w \in Cwe : <<w, c>> \in d.links})

\* Mutant of RowsOf: a weakness takes the flag of its category.
RowsOfExpanded(d, c, expanded) ==
  LET row(kind, id) == [kind |-> kind, id |-> id, category_id |-> c,
                        expanded |-> expanded]
      cwes == IF expanded THEN GetCwes(d, c) ELSE << >>
  IN <<row("Category", c)>>
     \o [i \in DOMAIN cwes |-> row("Weakness", cwes[i])]

\* The rows rebuild_visible_nodes() makes of one category of the database d.
RowsOf(d, c, expanded) ==
  LET cwes == GetCwes(d, c)
  IN <<[kind |-> "Category", id |-> c, category_id |-> c,
        expanded |-> expanded]>>
     \o IF expanded
          THEN [i \in DOMAIN cwes |-> [kind |-> "Weakness", id |-> cwes[i],
                                       category_id |-> c, expanded |-> FALSE]]
          ELSE << >>

Rows(d, cats, expanded) ==
  FlattenSeq([i \in DOMAIN cats |-> RowsOf(d, cats[i], cats[i] \in expanded)])

\* The database when all is stored.
FullCatalog ==
  [cats |-> [c \in Cat |-> 1], cwes |-> [w \in Cwe |-> 1],
   links |-> {l \in Cwe \X Cat : l[1] \in Rel[l[2]]}]

\* The number of rows is an int.
ASSUME RowsFit ==
  Len(Rows(FullCatalog, GetCategories(FullCatalog), Cat)) <= IntMax

\* Mutant of Clamp: no upper bound.
ClampBelow(i, rows) == Larger(0, i)

\* std::clamp(cursor, 0, size - 1), or 0 over an empty tree.
Clamp(i, rows) == Larger(0, Smaller(i, Len(rows) - 1))

\* rebuild_visible_nodes() over new values of its two inputs.
Rebuild(cats, expanded) ==
  LET rows == Rows(db, cats, expanded)
  IN /\ visible_nodes' = rows
     /\ cursor_index' = Clamp(cursor_index, rows)

\* A handler changes the set of expanded categories and rebuilds.  An id that
\* is no category is a number no row has.
Expand(expanded) ==
  /\ expanded_categories' = expanded \cap Cat
  /\ Rebuild(categories, expanded \cap Cat)
  /\ UNCHANGED categories

Indices == 0 .. Len(visible_nodes) - 1

\* The indices in order.
Positions == [i \in 1 .. Len(visible_nodes) |-> i - 1]

\* What an expression visible_nodes[i] may read.  Before the first row and
\* beyond the last one it is undefined: rebuild clears and refills the vector in
\* place, so what is found there is a row of an earlier tree or anything else.
Read(i) ==
  IF i \in Indices THEN {visible_nodes[i + 1]} ELSE Node \cup Junk

HeaderOf(rows, c) ==
  SelectInSeq(rows, LAMBDA n : n.kind = "Category" /\ n.id = c)

\* repo.get_cwe(w) and, if it finds the row, the switch to the detail pane.
OpenCwe(w) ==
  IF w \in Cwe /\ db.cwes[w] > 0 THEN active_cwe' = w /\ mode' = "Detail"
                                 ELSE UNCHANGED <<active_cwe, mode>>

ClearCount == count_pending' = FALSE /\ count_value' = 0

\* consume_count(): a count that has wrapped to zero or less counts as one.
Times == IF count_pending /\ count_value > 0 THEN count_value ELSE 1

\* list_like_context.
ListLike ==
  \/ mode \in {"Tree", "Detail", "Notification"}
  \/ mode = "Filter" /\ filter_navigation_active

\* A digit in a list-like context: count_digit_event().  A 0 does not start a
\* count.
Digit ==
  /\ ListLike
  /\ \E d \in Digits :
       /\ count_pending \/ d # 0
       /\ count_pending' = TRUE
       /\ count_value' = AsInt(AsInt(count_value * 10) + d)
  /\ UNCHANGED <<db, treeVars, cursor_index, active_cwe, mode, paneVars,
                 searchVars, filterVars>>

\* A key that moves the cursor and ends the count.
MoveTo(i) ==
  /\ cursor_index' = i
  /\ ClearCount
  /\ UNCHANGED <<db, treeVars, active_cwe, mode, paneVars, searchVars,
                 filterVars>>

\* Mutant of Enter: the count survives.
EnterCounting(m) ==
  /\ mode' = m
  /\ UNCHANGED <<db, treeVars, cursor_index, searchVars, filterVars, countVars>>

\* A key that changes the mode and ends the count.
Enter(m) ==
  /\ mode' = m
  /\ ClearCount
  /\ UNCHANGED <<db, treeVars, cursor_index, searchVars, filterVars>>

-----------------------------------------------------------------------------
(* Tree mode.                                                              *)

\* The keys below are looked at only over a non-empty tree.
InTree == mode = "Tree" /\ visible_nodes # << >>

\* j and k.  A sum that overflows is negative, and smaller than the last row.
TreeDown ==
  /\ InTree
  /\ MoveTo(Smaller(AsInt(cursor_index + Times), Len(visible_nodes) - 1))
TreeUp == InTree /\ MoveTo(Larger(AsInt(cursor_index - Times), 0))

\* g and G.
TreeTop == InTree /\ MoveTo(0)
TreeBottom == InTree /\ MoveTo(Len(visible_nodes) - 1)

\* The rows that hold a category.
Headers == {i \in Indices : visible_nodes[i + 1].kind = "Category"}

\* The { key: the loop reads the rows above the cursor, and beyond the end of
\* the tree any of them may read as a category.
PreviousCategory ==
  /\ InTree
  /\ LET from == AsInt(cursor_index - 1)
         above == {i \in Headers : i <= from}
     IN \E i \in (Len(visible_nodes) .. from)
                   \cup {IF above = {} THEN cursor_index ELSE Max(above)} :
          MoveTo(i)

\* The } key, likewise from before the first row.
FollowingCategory ==
  /\ InTree
  /\ LET from == AsInt(cursor_index + 1)
         below == {i \in Headers : i >= from}
     IN \E i \in (from .. -1)
                   \cup {IF below = {} THEN cursor_index ELSE Min(below)} :
          MoveTo(i)

\* o and Enter: toggle the category or open the CWE under the cursor.
Open ==
  /\ InTree
  /\ \E node \in Read(cursor_index) :
       \/ /\ node.kind = "Category"
          /\ Expand(IF node.id \in expanded_categories
                      THEN expanded_categories \ {node.id}
                      ELSE expanded_categories \cup {node.id})
          /\ UNCHANGED <<active_cwe, mode>>
       \/ /\ node.kind = "Weakness"
          /\ OpenCwe(node.id)
          /\ UNCHANGED <<treeVars, cursor_index>>
  /\ ClearCount
  /\ UNCHANGED <<db, paneVars, searchVars, filterVars>>

\* x: collapse the category of the row and put the cursor on its header.
Collapse ==
  /\ InTree
  /\ \E node \in Read(cursor_index) :
       LET c == node.category_id
           expanded == expanded_categories \ {c}
           rows == Rows(db, categories, expanded)
           header == HeaderOf(rows, c)
       IN /\ expanded_categories' = expanded
          /\ visible_nodes' = rows
          /\ cursor_index' = IF header = 0 THEN Clamp(cursor_index, rows)
                                           ELSE header - 1
  /\ ClearCount
  /\ UNCHANGED <<db, categories, active_cwe, mode, paneVars, searchVars,
                 filterVars>>

\* h: collapse an expanded category, or go from a CWE to its category.
Left ==
  /\ InTree
  /\ \E node \in Read(cursor_index) :
       \/ /\ node.kind = "Category" /\ node.id \in expanded_categories
          /\ Expand(expanded_categories \ {node.id})
       \/ /\ node.kind = "Weakness"
          /\ LET header == HeaderOf(visible_nodes, node.category_id)
             IN cursor_index' = IF header = 0 THEN cursor_index ELSE header - 1
          /\ UNCHANGED treeVars
       \/ /\ node.kind = "Category" /\ node.id \notin expanded_categories
          /\ UNCHANGED <<treeVars, cursor_index>>
  /\ ClearCount
  /\ UNCHANGED <<db, active_cwe, mode, paneVars, searchVars, filterVars>>

\* l with a CWE still open in the detail pane: the focus returns to it.
ReturnToDetail ==
  InTree /\ active_cwe # "none" /\ Enter("Detail")
    /\ UNCHANGED <<active_cwe, paneVars>>

\* l with none: expand the category or open the CWE under the cursor.
Right ==
  /\ InTree
  /\ active_cwe = "none"
  /\ \E node \in Read(cursor_index) :
       \/ /\ node.kind = "Category" /\ node.id \notin expanded_categories
          /\ Expand(expanded_categories \cup {node.id})
          /\ UNCHANGED <<active_cwe, mode>>
       \/ /\ node.kind = "Weakness"
          /\ OpenCwe(node.id)
          /\ UNCHANGED <<treeVars, cursor_index>>
       \/ /\ node.kind = "Category" /\ node.id \in expanded_categories
          /\ UNCHANGED <<treeVars, cursor_index, active_cwe, mode>>
  /\ ClearCount
  /\ UNCHANGED <<db, paneVars, searchVars, filterVars>>

\* Mutant of CollapseAll: no rebuild_visible_nodes().
CollapseAllLater ==
  /\ InTree
  /\ expanded_categories' = {}
  /\ ClearCount
  /\ UNCHANGED <<db, categories, visible_nodes, cursor_index, active_cwe, mode,
                 paneVars, searchVars, filterVars>>

\* c and e.
CollapseAll ==
  /\ InTree
  /\ Expand({})
  /\ ClearCount
  /\ UNCHANGED <<db, active_cwe, mode, paneVars, searchVars, filterVars>>

ExpandAll ==
  /\ InTree
  /\ Expand(expanded_categories \cup ToSet(categories))
  /\ ClearCount
  /\ UNCHANGED <<db, active_cwe, mode, paneVars, searchVars, filterVars>>

-----------------------------------------------------------------------------
(* Search.                                                                 *)

\* The / key: everything is expanded, so that everything can be found.
StartSearch ==
  /\ mode = "Tree"
  /\ mode' = "Search"
  /\ ClearCount
  /\ search_query' = NoQuery
  /\ search_matches' = << >>
  /\ search_match_idx' = -1
  /\ Expand(expanded_categories \cup ToSet(categories))
  /\ UNCHANGED <<db, active_cwe, paneVars, filterVars>>

\* Mutant of Hit: the id of a category is not looked at.
HitByLabel(query, node) == Found(query, Label[node.id])

\* A weakness is found by its label, a category also by its id.
Hit(query, node) ==
  \/ Found(query, Label[node.id])
  \/ node.kind = "Category" /\ Found(query, IdText[node.id])

\* The rows that a query matches, in order.
Matching(kinds, q) ==
  Keep(Positions, {i \in Indices : /\ visible_nodes[i + 1].kind \in kinds
                                   /\ Hit(q, visible_nodes[i + 1])})

\* Where in a list of matches the first one from row i on is; 0 if there is none.
FirstFrom(matches, i) == SelectInSeq(matches, LAMBDA m : m >= i)

\* Mutant of UpdateSearch: the index is not reset when nothing matches.
UpdateSearchKeepsIndex(q) ==
  LET found == IF q = NoQuery THEN << >> ELSE Matching({"Category", "Weakness"}, q)
      ahead == FirstFrom(found, cursor_index)
  IN /\ search_query' = q
     /\ search_matches' = found
     /\ search_match_idx' = IF found = << >> THEN search_match_idx
                                             ELSE Larger(0, ahead - 1)
     /\ cursor_index' = IF found = << >> THEN cursor_index
                                         ELSE found[Larger(1, ahead)]

\* update_search_matches(): the cursor goes to the first match at or after
\* it, or to the first one.
UpdateSearch(q) ==
  LET found == IF q = NoQuery THEN << >> ELSE Matching({"Category", "Weakness"}, q)
      ahead == FirstFrom(found, cursor_index)
  IN /\ search_query' = q
     /\ search_matches' = found
     /\ search_match_idx' = IF found = << >> THEN -1 ELSE Larger(0, ahead - 1)
     /\ cursor_index' = IF found = << >> THEN cursor_index
                                         ELSE found[Larger(1, ahead)]

\* A character makes the query another one, a backspace may empty it.
SearchType ==
  /\ mode = "Search"
  /\ \/ \E q \in Query : UpdateSearch(q)
     \/ search_query # NoQuery /\ UpdateSearch(NoQuery)
  /\ ClearCount
  /\ UNCHANGED <<db, treeVars, active_cwe, mode, paneVars, filterVars>>

\* Enter.
SearchAccept == mode = "Search" /\ Enter("Tree") /\ UNCHANGED <<active_cwe, paneVars>>

\* n and N: the nearest match after or before the cursor, or around the end.
JumpToMatch ==
  /\ mode = "Tree"
  /\ search_matches # << >>
  /\ LET next == FirstFrom(search_matches, cursor_index + 1)
         prev == FirstFrom(search_matches, cursor_index) - 1
     IN \E m \in {IF next = 0 THEN 1 ELSE next,
                  IF prev \in {-1, 0} THEN Len(search_matches) ELSE prev} :
          /\ search_match_idx' = m - 1
          /\ cursor_index' = search_matches[m]
  /\ ClearCount
  /\ UNCHANGED <<db, treeVars, active_cwe, mode, paneVars, search_query,
                 search_matches, filterVars>>

-----------------------------------------------------------------------------
(* Filter.                                                                 *)

\* update_filter_matches(): only weaknesses, all of them for an empty query.
UpdateFilter(q) ==
  /\ filter_query' = q
  /\ filter_matches' =
       IF q = NoQuery THEN Keep(Positions, Indices \ Headers)
                      ELSE Matching({"Weakness"}, q)

\* The second / of //, over an empty search query.
StartFilter ==
  /\ mode = "Search"
  /\ search_query = NoQuery
  /\ mode' = "Filter"
  /\ ClearCount
  /\ filter_active' = TRUE
  /\ filter_navigation_active' = FALSE
  /\ UpdateFilter(NoQuery)
  /\ UNCHANGED <<db, treeVars, cursor_index, active_cwe, paneVars, searchVars>>

\* A character, or a backspace.
FilterType ==
  /\ mode = "Filter"
  /\ ~filter_navigation_active
  /\ \/ \E q \in Query : UpdateFilter(q)
     \/ filter_query # NoQuery /\ UpdateFilter(NoQuery)
  /\ UNCHANGED <<db, treeVars, cursor_index, active_cwe, mode, paneVars,
                 searchVars, filter_active, filter_navigation_active,
                 countVars>>

\* Mutant of DropFilter: the navigation flag is left set.
DropFilterNavigating ==
  /\ filter_query' = NoQuery
  /\ filter_matches' = << >>
  /\ filter_active' = FALSE
  /\ mode' = "Tree"
  /\ UNCHANGED <<cursor_index, filter_navigation_active>>

\* The filter is dropped and the tree comes back.
DropFilter ==
  /\ filter_query' = NoQuery
  /\ filter_matches' = << >>
  /\ filter_active' = FALSE
  /\ filter_navigation_active' = FALSE
  /\ mode' = "Tree"
  /\ UNCHANGED cursor_index

\* Enter: on to the matches, or back to the tree from an empty query.
FilterAccept ==
  /\ mode = "Filter"
  /\ \/ filter_query = NoQuery /\ DropFilter
     \/ /\ filter_query # NoQuery
        /\ filter_navigation_active' = TRUE
        /\ cursor_index' = IF filter_matches = << >> THEN cursor_index
                                                     ELSE filter_matches[1]
        /\ UNCHANGED <<filter_query, filter_matches, filter_active, mode>>
  /\ ClearCount
  /\ UNCHANGED <<db, treeVars, active_cwe, paneVars, searchVars>>

\* The q key, and the / key while the query is being typed.
FilterQuit ==
  /\ mode = "Filter"
  /\ DropFilter
  /\ ClearCount
  /\ UNCHANGED <<db, treeVars, active_cwe, paneVars, searchVars>>

\* The / key over the matches: back to typing.
FilterEdit ==
  /\ mode = "Filter"
  /\ filter_navigation_active
  /\ filter_navigation_active' = FALSE
  /\ ClearCount
  /\ UNCHANGED <<db, treeVars, cursor_index, active_cwe, mode, paneVars,
                 searchVars, filter_query, filter_matches, filter_active>>

InMatches ==
  mode = "Filter" /\ filter_navigation_active /\ filter_matches # << >>

\* The match under the cursor, the first one if the cursor is on none.
CurrentMatch ==
  Larger(1, SelectInSeq(filter_matches, LAMBDA i : i = cursor_index))

\* What filter_matches[m] reads: before the first match, any number.
MatchAt(m) == IF m < 0 THEN Ints ELSE {filter_matches[m + 1]}

\* j, k, g and G.
FilterMove ==
  /\ InMatches
  /\ LET last == Len(filter_matches) - 1
     IN \E m \in {Smaller(AsInt(CurrentMatch - 1 + Times), last),
                  Larger(AsInt(CurrentMatch - 1 - Times), 0), 0, last} :
          \E i \in MatchAt(m) : MoveTo(i)

\* o and l.
FilterOpen ==
  /\ InMatches
  /\ \E node \in Read(cursor_index) :
       IF node.kind = "Weakness" THEN OpenCwe(node.id)
                                 ELSE UNCHANGED <<active_cwe, mode>>
  /\ ClearCount
  /\ UNCHANGED <<db, treeVars, cursor_index, paneVars, searchVars, filterVars>>

-----------------------------------------------------------------------------
(* The detail and notification panes, the command line, Escape.            *)

\* h leaves the detail pane and keeps the CWE open, q closes it.
LeaveDetail ==
  /\ mode = "Detail"
  /\ Enter(IF filter_active THEN "Filter" ELSE "Tree")
  /\ active_cwe' \in {active_cwe, "none"}
  /\ UNCHANGED paneVars

\* q in the notification pane: the pane stays visible.
LeaveNotifications ==
  mode = "Notification" /\ Enter("Tree") /\ UNCHANGED <<active_cwe, paneVars>>

\* Keys that end a count and change nothing else of this state: j, k, g, G,
\* ^D, ^U in the detail pane; j, k, d, Enter over an empty notification list;
\* a backspace, or a character that is no command, over the filter's matches;
\* n and N in the tree without a match.
Other ==
  /\ ListLike
  /\ mode = "Tree" => search_matches = << >>
  /\ count_pending
  /\ MoveTo(cursor_index)

\* The : key.
StartCommand ==
  /\ mode \in {"Tree", "Detail", "Notification"}
  /\ Enter("Command")
  /\ UNCHANGED <<active_cwe, paneVars>>

\* Enter: a command; :cwe opens a CWE, others come back to the tree.
RunCommand ==
  /\ mode = "Command"
  /\ \/ Enter("Tree") /\ UNCHANGED active_cwe
     \/ \E w \in Cwe : db.cwes[w] > 0 /\ Enter("Detail") /\ active_cwe' = w
  /\ UNCHANGED paneVars

\* Ctrl+T.
ToggleTree ==
  /\ mode \in {"Tree", "Detail", "Notification"}
  /\ tree_visible' = ~tree_visible
  /\ Enter(IF tree_visible THEN mode ELSE "Tree")
  /\ UNCHANGED <<active_cwe, notification_pane_visible>>

\* Ctrl+N.
ToggleNotifications ==
  /\ mode \in {"Tree", "Detail", "Notification"}
  /\ notification_pane_visible' = ~notification_pane_visible
  /\ Enter(IF notification_pane_visible THEN "Tree" ELSE "Notification")
  /\ UNCHANGED <<active_cwe, tree_visible>>

\* Mutant of Escape: it closes the CWE and stays in the detail pane.
EscapeStays ==
  /\ mode' = IF mode = "Command" THEN "Tree" ELSE mode
  /\ active_cwe' = IF mode = "Detail" THEN "none" ELSE active_cwe
  /\ UNCHANGED <<db, treeVars, cursor_index, paneVars, searchVars, filterVars,
                 countVars>>

\* Escape: the outer handler of App::run() takes every one, so that none of
\* RootLayout's own Escape branches runs.
Escape ==
  /\ mode' = IF mode \in {"Command", "Detail"} THEN "Tree" ELSE mode
  /\ active_cwe' = IF mode = "Detail" THEN "none" ELSE active_cwe
  /\ UNCHANGED <<db, treeVars, cursor_index, paneVars, searchVars, filterVars,
                 countVars>>

-----------------------------------------------------------------------------
(* The sync and the process.                                               *)

\* The worker stores a category, one of its weaknesses, or the link of the two.
SyncStores ==
  /\ \E c \in Cat :
       \/ db.cats[c] = 0 /\ db' = UpsertCategory(db, c, 1)
       \/ /\ db.cats[c] > 0
          /\ \E w \in Rel[c] :
               \/ db.cwes[w] = 0 /\ db' = UpsertCwe(db, w, 1)
               \/ /\ db.cwes[w] > 0 /\ <<w, c>> \notin db.links
                  /\ db' = LinkCweCategory(db, w, c)
  /\ UNCHANGED <<treeVars, cursor_index, active_cwe, mode, paneVars,
                 searchVars, filterVars, countVars>>

\* The completion callback of a successful sync: App::load_data().
SyncSucceeds ==
  /\ HasData(db)
  /\ categories' = GetCategories(db)
  /\ Rebuild(GetCategories(db), expanded_categories)
  /\ UNCHANGED <<db, expanded_categories, active_cwe, mode, paneVars,
                 searchVars, filterVars, countVars>>

\* App::App() over the database d: the defaults of AppState, load_data().
StartUp(d) ==
  /\ db' = d
  /\ categories' = GetCategories(d)
  /\ visible_nodes' = [i \in DOMAIN GetCategories(d) |->
                         [kind |-> "Category", id |-> GetCategories(d)[i],
                          category_id |-> GetCategories(d)[i],
                          expanded |-> FALSE]]
  /\ cursor_index' = 0
  /\ expanded_categories' = {}
  /\ active_cwe' = "none"
  /\ mode' = "Tree"
  /\ tree_visible' = TRUE
  /\ notification_pane_visible' = FALSE
  /\ search_query' = NoQuery
  /\ search_matches' = << >>
  /\ search_match_idx' = -1
  /\ filter_query' = NoQuery
  /\ filter_matches' = << >>
  /\ filter_active' = FALSE
  /\ filter_navigation_active' = FALSE
  /\ ClearCount

\* q in the tree, :q, and the next start of the program.
Quit == mode \in {"Tree", "Command"} /\ StartUp(db)

\* The rows that rendering or the next key may read: RenderTreePane() those
\* of the filter's matches, the keys o, x, h, l the one under the cursor.
RowsRead ==
  (IF filter_active THEN ToSet(filter_matches) ELSE {})
    \cup (IF InTree \/ InMatches THEN {cursor_index} ELSE {})

\* j in the tree, or over the matches of a filter, goes before the first entry.
CursorOverflows == InTree /\ cursor_index + Times > IntMax
MatchOverflows == InMatches /\ CurrentMatch - 1 + Times > IntMax

\* A read outside a vector may also end the process; then the next start of the
\* program.
Dies ==
  /\ ~(RowsRead \subseteq Indices) \/ MatchOverflows
  /\ StartUp(db)

Init ==
  /\ db = EmptyCatalog
  /\ categories = << >>
  /\ visible_nodes = << >>
  /\ cursor_index = 0
  /\ expanded_categories = {}
  /\ active_cwe = "none"
  /\ mode = "Tree"
  /\ tree_visible = TRUE
  /\ notification_pane_visible = FALSE
  /\ search_query = NoQuery
  /\ search_matches = << >>
  /\ search_match_idx = -1
  /\ filter_query = NoQuery
  /\ filter_matches = << >>
  /\ filter_active = FALSE
  /\ filter_navigation_active = FALSE
  /\ count_pending = FALSE
  /\ count_value = 0

TreeKey ==
  \/ TreeDown \/ TreeUp \/ TreeTop \/ TreeBottom
  \/ PreviousCategory \/ FollowingCategory
  \/ Open \/ Collapse \/ Left \/ ReturnToDetail \/ Right
  \/ CollapseAll \/ ExpandAll
  \/ StartSearch \/ JumpToMatch

SearchKey == SearchType \/ SearchAccept \/ StartFilter

FilterKey ==
  \/ FilterType \/ FilterAccept \/ FilterQuit \/ FilterEdit
  \/ FilterMove \/ FilterOpen

Next ==
  \/ TreeKey \/ SearchKey \/ FilterKey
  \/ Digit \/ Other
  \/ LeaveDetail \/ LeaveNotifications
  \/ StartCommand \/ RunCommand
  \/ ToggleTree \/ ToggleNotifications \/ Escape
  \/ SyncStores \/ SyncSucceeds
  \/ Quit \/ Dies

Spec == Init /\ [][Next]_vars

-----------------------------------------------------------------------------
(* Properties.                                                             *)

TypeOK ==
  /\ db \in CatalogType
  /\ categories \in Seq(Cat)
  /\ visible_nodes \in Seq(Node)
  /\ cursor_index \in Ints
  /\ expanded_categories \in SUBSET Cat
  /\ active_cwe \in Cwe \cup {"none"}
  /\ mode \in Mode
  /\ tree_visible \in BOOLEAN
  /\ notification_pane_visible \in BOOLEAN
  /\ search_query \in Query \cup {NoQuery}
  /\ search_matches \in Seq(0 .. IntMax)
  /\ search_match_idx \in -1 .. IntMax
  /\ filter_query \in Query \cup {NoQuery}
  /\ filter_matches \in Seq(0 .. IntMax)
  /\ filter_active \in BOOLEAN
  /\ filter_navigation_active \in BOOLEAN
  /\ count_pending \in BOOLEAN
  /\ count_value \in Ints

\* Whatever way led to the detail pane, it shows a CWE of the database.
DetailHasCwe ==
  mode = "Detail" => active_cwe # "none" /\ db.cwes[active_cwe] > 0

\* The rows are the tree of the state: the categories in order, each header's
\* triangle as expanded_categories has it, and weaknesses only under their
\* expanded category, each one that Enter can open.
RowsShowTree ==
  /\ [i \in DOMAIN categories |-> categories[i]] =
       LET headers == Keep(visible_nodes, {n \in Node : n.kind = "Category"})
       IN [i \in DOMAIN headers |-> headers[i].id]
  /\ \A i \in DOMAIN visible_nodes :
       LET n == visible_nodes[i]
       IN IF n.kind = "Category"
            THEN n.expanded = (n.id \in expanded_categories)
            ELSE /\ n.category_id \in expanded_categories
                 /\ db.cwes[n.id] > 0
                 /\ <<n.id, n.category_id>> \in db.links
                 /\ visible_nodes[i - 1].category_id = n.category_id

\* The current match is one of the matches, and there is one exactly when
\* something matches; while the query is typed the cursor is on it.
CurrentMatchIsAMatch ==
  /\ search_match_idx \in -1 .. Len(search_matches) - 1
  /\ search_match_idx = -1 <=> search_matches = << >>
  /\ mode = "Search" /\ search_matches # << >>
       => cursor_index = search_matches[search_match_idx + 1]

\* The rows of some kinds that a query means.
MeantRows(kinds, q) ==
  {i \in Indices :
     LET n == visible_nodes[i + 1]
     IN /\ n.kind \in kinds
        /\ \/ Meant(q, Label[n.id])
           \/ n.kind = "Category" /\ Meant(q, IdText[n.id])}

\* Rows of the tree are found for a query: all of them mean it, and they are all
\* that do if it has no question mark and no bar.
Finds(found, kinds, q) ==
  /\ ToSet(found) \subseteq MeantRows(kinds, q)
  /\ Simple(q) => MeantRows(kinds, q) \subseteq ToSet(found)

FindsWhatIsMeant ==
  /\ search_matches # search_matches' /\ search_query' # NoQuery
       => Finds(search_matches, {"Category", "Weakness"}, search_query)'
  /\ filter_matches # filter_matches' /\ filter_query' # NoQuery
       => Finds(filter_matches, {"Weakness"}, filter_query)'

\* Layout.cpp:20.  Whenever what is found changes, whichever rows a sync, an
\* expansion or another query have left, no row is found that the query, as the
\* comment has it, does not mean; and no row that it means by its label or its
\* id is missed, unless the query has a ? or a |: of these the code finds less
\* than the comment promises.
FoundIsMeant == [][FindsWhatIsMeant]_vars

\* Filter mode and the filtered view go together, and the matches are
\* navigated only for a query.
FilterIsShown ==
  /\ mode = "Filter" => filter_active
  /\ filter_navigation_active => filter_active /\ filter_query # NoQuery
  /\ ~filter_active => filter_query = NoQuery /\ filter_matches = << >>

\* A prefix count is pending only where j and k move through a list: no count
\* is carried through a text field into a later movement.
CountOnlyInLists == count_pending => ListLike

\* State.hpp:27: cursor_index is an "index into visible_nodes".
CursorOnARow == visible_nodes # << >> => cursor_index \in Indices

\* State.hpp:43: search_matches are "indices into visible_nodes".  So are, to
\* RenderTreePane() and the keys, filter_matches.
MatchesOnRows == ToSet(search_matches) \cup ToSet(filter_matches) \subseteq Indices

\* Some category is collapsed, and none expanded.
Collapses ==
  /\ expanded_categories' \subseteq expanded_categories
  /\ expanded_categories' # expanded_categories

RowsLeft ==
  MatchesOnRows =>
    /\ CursorOnARow => \/ CursorOnARow'
                       \/ TreeDown /\ CursorOverflows
                       \/ FilterMove /\ MatchOverflows
    /\ MatchesOnRows' \/ Collapses

\* There are two ways in which CursorOnARow is lost, and no other.  One begins
\* when a category is collapsed while matches of a search or a filter are kept:
\* a key may go to one of these.  The other is a count so large that j overflows.
\* No other key and no reload at the end of a sync takes the cursor or a match
\* off the rows.
RowsAreKept == [][RowsLeft]_vars

\* State.hpp:50: filter_matches are the indices of the "CWEs that match".
FilterMatchesMatch ==
  filter_active /\ filter_query # NoQuery
    => \A i \in ToSet(filter_matches) :
         /\ i \in Indices \ Headers
         /\ Hit(filter_query, visible_nodes[i + 1])
=============================================================================
