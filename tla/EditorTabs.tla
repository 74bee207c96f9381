------------------------------ MODULE EditorTabs ------------------------------
(***************************************************************************)
(* src/src/cmp_tab_navigation.c: the open tabs of an editor, in order.     *)
(* Which of them is active is kept twice: in its is_active and as          *)
(* nav->active_index.  Indices count from 1 here; 0 stands for -1.         *)
(***************************************************************************)
EXTENDS Integers, Sequences

CONSTANTS
  Tabs,      \* the tabs that may be opened; a tab that was closed may be again
  MaxTabs    \* a bound of the model

ASSUME MaxTabsAssumption == MaxTabs \in Nat

VARIABLES
  tabs,         \* nav->tabs: records of a tab and its is_active
  activeIndex   \* nav->active_index

tabVars == <<tabs, activeIndex>>

TabsInit == tabs = << >> /\ activeIndex = 0

Open == {tabs[i].tab : i \in DOMAIN tabs}

\* cmp_tab_nav_add_tab; one that cannot be allocated changes none of these.
AddTab(t) ==
  /\ t \notin Open /\ Len(tabs) < MaxTabs
  /\ tabs' = Append([i \in DOMAIN tabs |-> [tabs[i] EXCEPT !.active = FALSE]],
                    [tab |-> t, active |-> TRUE])
  /\ activeIndex' = Len(tabs) + 1

\* A plausible bug: the index of a tab to the right of the closed one stays.
IndexAfterCloseStale(i) ==
  IF Len(tabs) = 1 THEN 0
  ELSE IF activeIndex = i THEN (IF i > 1 THEN i - 1 ELSE 1)
  ELSE activeIndex

IndexAfterClose(i) ==
  IF Len(tabs) = 1 THEN 0
  ELSE IF activeIndex = i THEN (IF i > 1 THEN i - 1 ELSE 1)
  ELSE IF activeIndex > i THEN activeIndex - 1
  ELSE activeIndex

Without(i) ==
  [j \in 1 .. Len(tabs) - 1 |-> IF j < i THEN tabs[j] ELSE tabs[j + 1]]

\* cmp_tab_nav_close_tab: the tab to the left of an active one becomes active.
CloseTab(i) ==
  /\ i \in DOMAIN tabs
  /\ activeIndex' = IndexAfterClose(i)
  /\ tabs' = IF activeIndex = i /\ Len(tabs) > 1
             THEN [Without(i) EXCEPT ![activeIndex'].active = TRUE]
             ELSE Without(i)

\* The tabs between the two places are shifted by one.
Shifted(from, to) ==
  [j \in DOMAIN tabs |->
     IF j = to THEN tabs[from]
     ELSE IF from <= j /\ j < to THEN tabs[j + 1]
     ELSE IF to < j /\ j <= from THEN tabs[j - 1]
     ELSE tabs[j]]

\* cmp_tab_nav_move_tab: the active tab is looked for where it is now.
MoveTab(from, to) ==
  /\ from \in DOMAIN tabs /\ to \in DOMAIN tabs /\ from # to
  /\ tabs' = Shifted(from, to)
  /\ LET marked == {j \in DOMAIN tabs : Shifted(from, to)[j].active}
     IN  activeIndex' = IF marked = {} THEN activeIndex
                        ELSE CHOOSE j \in marked : \A k \in marked : j <= k

TabsNext ==
  \/ \E t \in Tabs : AddTab(t)
  \/ \E i \in DOMAIN tabs : CloseTab(i)
  \/ \E from, to \in DOMAIN tabs : MoveTab(from, to)

TabsSpec == TabsInit /\ [][TabsNext]_tabVars

-----------------------------------------------------------------------------
(* Exactly one open tab is marked active, the one at active_index: no order  *)
(* of opening, closing and moving makes the two ways of keeping it disagree. *)
ActiveTabIsMarked ==
  /\ activeIndex \in 0 .. Len(tabs)
  /\ activeIndex = 0 <=> tabs = << >>
  /\ \A i \in DOMAIN tabs : tabs[i].active <=> i = activeIndex

(* Moving tabs, and closing other tabs, leaves the tab that is active active.*)
ActiveTabStays ==
  [][LET active == tabs[activeIndex].tab
     IN  activeIndex # 0 /\ Open' \subseteq Open /\ active \in Open'
           => activeIndex' \in DOMAIN tabs' /\ tabs'[activeIndex'].tab = active]_tabVars
=============================================================================
