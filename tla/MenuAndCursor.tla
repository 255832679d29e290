---------------------------- MODULE MenuAndCursor ----------------------------
(* The context menu and the mouse cursor.  The plugin's thread posts what it   *)
(* wants to the browser's thread; the menu's answer comes from GTK signals and *)
(* goes through one set of static variables for all menus.                     *)
EXTENDS Naturals, Sequences, FiniteSets

CONSTANTS
  Menus,        \* menu resources the plugin creates
  ShowCalls,    \* calls of Show, each with a callback of its own
  ItemIds,      \* ids of menu items
  CursorIds,    \* X cursor ids
  MaxUITasks,   \* bound on the tasks on their way to the browser's thread
  OneMenu       \* the plugin shows one menu at a time and keeps it until it is answered

ASSUME UIAssumption ==
  /\ MaxUITasks \in Nat /\ OneMenu \in BOOLEAN
  /\ IsFiniteSet(ShowCalls) /\ IsFiniteSet(CursorIds)

None == "none"
Transparent == "transparent"   \* display.transparent_cursor, shared by all instances

VARIABLES
  menu,       \* [menu -> "none", "creating", "live", "released" or "freed"]
  popup,      \* popup_menu_*: [sentinel, canceled, ccb, result]
  shownMenu,  \* the menu GTK shows
  uiTasks,    \* tasks posted to the browser's thread, in order
  chosen,     \* [call -> the item written for it, None while there is none]
  answers,    \* [call -> the codes its callback was posted with]
  asked,      \* calls of Show so far
  cursors,    \* X cursors in existence
  prevCursor, \* [have, cursor]: pp_i->have_prev_cursor and prev_cursor
  uiInstance, \* the instance is in the table
  badFree     \* a cursor was freed that was not one of ours

uiVars == <<menu, popup, shownMenu, uiTasks, chosen, answers, asked, cursors, prevCursor,
            uiInstance, badFree>>
cursorVars == <<cursors, prevCursor, uiInstance, badFree>>
menuVars == <<menu, popup, shownMenu, chosen, answers, asked>>

UIInit ==
  /\ menu = [m \in Menus |-> "none"]
  /\ popup = [sentinel |-> FALSE, canceled |-> FALSE, ccb |-> None, result |-> None]
  /\ shownMenu = None /\ uiTasks = <<>>
  /\ chosen = [k \in ShowCalls |-> None]
  /\ answers = [k \in ShowCalls |-> <<>>]
  /\ asked = {}
  /\ cursors = {} /\ prevCursor = [have |-> FALSE, cursor |-> None]
  /\ uiInstance = TRUE /\ badFree = FALSE

\* ppb_core_call_on_browser_thread.
Post(task) ==
  /\ Len(uiTasks) < MaxUITasks
  /\ uiTasks' = Append(uiTasks, task)

-----------------------------------------------------------------------------
\* ppb_flash_menu_create waits for the browser's thread to build the widget; the caller has
\* the resource only then.
MenuCreate(m) ==
  /\ menu[m] = "none"
  /\ menu' = [menu EXCEPT ![m] = "creating"]
  /\ Post([do |-> "create", menu |-> m, cursor |-> None])
  /\ UNCHANGED <<popup, shownMenu, chosen, answers, asked, cursorVars>>

\* Mutant: the outcome of the menu before is left in place.
ShowKeepsOutcome(m, k) ==
  /\ menu[m] = "live" /\ k \notin asked
  /\ OneMenu => ~popup.sentinel
  /\ asked' = asked \cup {k}
  /\ popup' = [popup EXCEPT !.sentinel = TRUE, !.ccb = k, !.result = k]
  /\ Post([do |-> "popup", menu |-> m, cursor |-> None])
  /\ UNCHANGED <<menu, shownMenu, chosen, answers, cursorVars>>

\* ppb_flash_menu_show: the answer is wanted, so far nothing is chosen; a second menu at a
\* time is only logged.
MenuShow(m, k) ==
  /\ menu[m] = "live" /\ k \notin asked
  /\ OneMenu => ~popup.sentinel
  /\ asked' = asked \cup {k}
  /\ popup' = [sentinel |-> TRUE, canceled |-> TRUE, ccb |-> k, result |-> k]
  /\ Post([do |-> "popup", menu |-> m, cursor |-> None])
  /\ UNCHANGED <<menu, shownMenu, chosen, answers, cursorVars>>

\* menu_item_activated and menu_item_button_press: an item of the shown menu is taken.
menu_item_activated(id) ==
  /\ shownMenu # None
  /\ chosen' = IF popup.result = None THEN chosen ELSE [chosen EXCEPT ![popup.result] = id]
  /\ popup' = [popup EXCEPT !.canceled = FALSE]
  /\ UNCHANGED <<menu, shownMenu, uiTasks, answers, asked, cursorVars>>

\* menu_selection_done: the menu is closed, the callback is posted with the outcome.
menu_selection_done ==
  /\ shownMenu # None
  /\ shownMenu' = None
  /\ answers' = [answers EXCEPT ![popup.ccb] =
       Append(@, IF popup.canceled THEN "usercancel" ELSE "ok")]
  /\ popup' = [popup EXCEPT !.sentinel = FALSE, !.result = None]
  /\ UNCHANGED <<menu, uiTasks, chosen, asked, cursorVars>>

\* The last reference goes; ppb_flash_menu_destroy leaves the widget to the browser's thread.
MenuRelease(m) ==
  /\ menu[m] = "live"
  /\ OneMenu => ~popup.sentinel
  /\ menu' = [menu EXCEPT ![m] = "released"]
  /\ Post([do |-> "destroy", menu |-> m, cursor |-> None])
  /\ UNCHANGED <<popup, shownMenu, chosen, answers, asked, cursorVars>>

\* ppb_cursor_control_set_cursor: one of X's font cursors, an image of the plugin, or none.
SetCursor(kind) ==
  /\ uiInstance
  /\ Post([do |-> "cursor", menu |-> None, cursor |-> kind])
  /\ UNCHANGED <<menuVars, cursorVars>>

-----------------------------------------------------------------------------
\* flash_menu_create_ptac.
flash_menu_create_ptac(m) ==
  /\ menu' = [menu EXCEPT ![m] = "live"]
  /\ UNCHANGED <<popup, shownMenu, chosen, answers, asked, cursorVars>>

\* menu_popup_ptac: GTK shows the menu, or cannot grab the pointer and does not.
menu_popup_ptac(m) ==
  /\ shownMenu' \in {shownMenu, m}
  /\ UNCHANGED <<menu, popup, chosen, answers, asked, cursorVars>>

\* destroy_flash_menu_ptac: a menu that is shown goes without a word.
destroy_flash_menu_ptac(m) ==
  /\ menu' = [menu EXCEPT ![m] = "freed"]
  /\ shownMenu' = IF shownMenu = m THEN None ELSE shownMenu
  /\ UNCHANGED <<popup, chosen, answers, asked, cursorVars>>

\* set_cursor_ptac: nothing for an instance that is gone.  A font cursor is new; an image may
\* be gone by now and give none; the hidden cursor is the shared one and is not to be freed.
\* The cursor is remembered if there is a window to set it on.
set_cursor_ptac(kind) ==
  /\ IF ~uiInstance
       THEN UNCHANGED <<cursors, prevCursor>>
       ELSE \E c \in (CursorIds \ cursors) \cup {None, Transparent}, window \in BOOLEAN :
              /\ kind = "hidden" <=> c = Transparent
              /\ kind = "font" => c # None
              /\ cursors' = cursors \cup ({c} \cap CursorIds)
              /\ prevCursor' = IF window /\ c # None
                                 THEN [have |-> kind # "hidden", cursor |-> c]
                                 ELSE prevCursor
  /\ UNCHANGED <<menuVars, uiInstance, badFree>>

\* The browser's thread takes its next task.
BrowserRunsTask ==
  LET task == Head(uiTasks) IN
  /\ uiTasks # <<>> /\ uiTasks' = Tail(uiTasks)
  /\ \/ task.do = "create" /\ flash_menu_create_ptac(task.menu)
     \/ task.do = "popup" /\ menu_popup_ptac(task.menu)
     \/ task.do = "destroy" /\ destroy_flash_menu_ptac(task.menu)
     \/ task.do = "cursor" /\ set_cursor_ptac(task.cursor)

\* NPP_Destroy frees the remembered cursor.
InstanceGoes ==
  /\ uiInstance /\ uiInstance' = FALSE
  /\ badFree' = (prevCursor.have /\ prevCursor.cursor \notin cursors)
  /\ cursors' = IF prevCursor.have THEN cursors \ {prevCursor.cursor} ELSE cursors
  /\ UNCHANGED <<menuVars, uiTasks, prevCursor>>

UINext ==
  \/ \E m \in Menus : MenuCreate(m) \/ MenuRelease(m) \/ \E k \in ShowCalls : MenuShow(m, k)
  \/ \E id \in ItemIds : menu_item_activated(id)
  \/ menu_selection_done
  \/ \E kind \in {"font", "custom", "hidden"} : SetCursor(kind)
  \/ BrowserRunsTask \/ InstanceGoes

-----------------------------------------------------------------------------
\* The callback of Show is called at most once and only when it was asked for, with PP_OK
\* exactly when an item was written for that call (menu_selection_done).
MenuAnswersItsCall ==
  \A k \in ShowCalls :
    /\ Len(answers[k]) <= 1
    /\ answers[k] # <<>> => k \in asked /\ (answers[k] = <<"ok">> <=> chosen[k] # None)

\* The widget that is shown, or about to be, is a menu that exists (menu_popup_ptac gets a
\* bare pointer).
ShownMenusExist ==
  /\ shownMenu # None => menu[shownMenu] \in {"live", "released"}
  /\ \A i \in 1..Len(uiTasks) : uiTasks[i].do = "popup" =>
       menu[uiTasks[i].menu] \in {"live", "released"}

\* NPP_Destroy frees a cursor of its own: not the transparent one every instance shares, and
\* none twice.
CursorsAreOurs == ~badFree

MenuAndCursorAreSound == MenuAnswersItsCall /\ ShownMenusExist /\ CursorsAreOurs
=============================================================================
