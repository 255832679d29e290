------------------------------ MODULE Instances ------------------------------
(***************************************************************************)
(* The life of an instance and how its events reach the plugin:            *)
(* src/np_functions.c (NPP_New, NPP_SetWindow, NPP_HandleEvent,            *)
(* NPP_Destroy), src/tables.c, src/x11_event_thread.c and the event        *)
(* requests of src/ppb_input_event.c.                                      *)
(*                                                                         *)
(* Three threads.  The browser's thread makes, feeds and destroys          *)
(* instances, and waits for the plugin's thread at both ends of their life.*)
(* The plugin's thread takes its tasks in order.  With windows of their    *)
(* own, a third thread reads X events: it finds the instance in the table, *)
(* and the browser's thread may free it meanwhile.  An instance may get one*)
(* window after another; the browser makes each for one instance, and X    *)
(* uses no number again.  Full screen (Fullscreen) is a flag here.         *)
(*                                                                         *)
(* The two directions of a call between threads are one step each here;    *)
(* BrowserCalls has their queues.                                          *)
(***************************************************************************)
EXTENDS InputEvents, Integers, FiniteSets

CONSTANTS
  Insts,       \* PP_Instance ids; not reused
  Wins,        \* the windows of an instance, numbered in the order it gets them
  MaxPending,  \* bound: X events, calls and tasks on the way
  XEvents,     \* the X events that happen
  TypesLate    \* the browser destroys an instance while a SetTextInputType is on the way

NoInst == "no_instance"
NoWin == 0
Windows == [inst : Insts, no : Wins]

ASSUME InstanceBoundsAssumption ==
  /\ MaxPending \in Nat \ {0} /\ TypesLate \in BOOLEAN
  /\ NoInst \notin Insts /\ Wins \subseteq Nat \ {NoWin}
  /\ XEvents # {} /\ \A e \in XEvents, xembed \in BOOLEAN : Translated(e, xembed) \in XEvents

NoEvent == [class |-> "none", type |-> "none", button |-> NoButton]

VARIABLES
  inst,      \* struct pp_instance_s
  told,      \* what the plugin knows of each: DidCreate, DidDestroy
  strayCall, \* the plugin was called for an instance it did not have
  browserAt, \* where the browser's thread is, and for which instance
  mainQ,     \* tasks of the plugin's thread
  ht,        \* x11_event_thread: registered windows
  socket_ht, \* the windows whose events are looked up
  pipe,      \* the command in task_pipe
  x11At,     \* where the event thread is, and the event it has looked up
  xq,        \* X events on the connection of the event thread
  asyncCalls,\* call_handle_event_ptac calls the browser has not made yet
  typeCall,  \* the set_text_input_type_ptac call on the way: for whom, and whether for text
  live,      \* how many input event resources the wrapper holds
  full,      \* instances whose is_fullscreen is set
  xButtons,  \* buttons that are down in the instance's windows or its place in the page
  pressed,   \* buttons the plugin knows to be down
  steady     \* instances that have wanted mouse events all along, in the page

instVars == <<inst, told, strayCall, browserAt, mainQ, ht, socket_ht, pipe, x11At, xq, asyncCalls,
              typeCall, live, full, xButtons, pressed, steady>>
x11Vars == <<ht, socket_ht, pipe, x11At, xq, asyncCalls>>
inputVars == <<typeCall, live, full, xButtons, pressed, steady>>

InstType ==
  [mem : {"none", "alive", "freed"}, in_table : BOOLEAN, npp : BOOLEAN, interfaces : BOOLEAN,
   instance_loaded : BOOLEAN, windowed_mode : BOOLEAN, use_xembed : BOOLEAN, im_context : BOOLEAN,
   wnd : Wins \cup {NoWin}, mask : SUBSET Classes]
XEventOf == [wnd : Windows, ev : XEvents]
TaskType ==
  [kind : {"create", "destroy", "input", "focus", "view"}, inst : Insts,
   event : InputEvent \cup {NoEvent}]

\* x11At.x outside x11et_handle_xevent.
NoXEvent == [wnd |-> NoWin]

InstancesTypeOK ==
  /\ inst \in [Insts -> InstType]
  /\ told \in [Insts -> {"no", "created", "destroyed"}]
  /\ strayCall \in BOOLEAN
  /\ browserAt \in [at : {"idle", "new", "created", "register", "unregister", "destroy", "destroyed"},
                    inst : Insts \cup {NoInst}]
  /\ \A k \in 1 .. Len(mainQ) : mainQ[k] \in TaskType
  /\ ht \subseteq Windows /\ socket_ht \subseteq Windows
  /\ pipe \in {"empty", "register", "unregister"}
  /\ x11At \in [at : {"poll", "barrier", "use"}, x : XEventOf \cup {NoXEvent}]
  /\ \A k \in 1 .. Len(xq) : xq[k] \in XEventOf
  /\ \A k \in 1 .. Len(asyncCalls) : asyncCalls[k] \in XEventOf
  /\ typeCall \in [inst : Insts \cup {NoInst}, text : BOOLEAN] /\ live \in Int
  /\ xButtons \in [Insts -> SUBSET (1 .. 3)] /\ pressed \in [Insts -> SUBSET (0 .. 3)]
  /\ full \subseteq Insts /\ steady \subseteq Insts

NoTypeCall == [inst |-> NoInst, text |-> FALSE]

InstancesInit ==
  /\ inst = [i \in Insts |->
       [mem |-> "none", in_table |-> FALSE, npp |-> FALSE, interfaces |-> FALSE,
        instance_loaded |-> FALSE, windowed_mode |-> FALSE, use_xembed |-> FALSE,
        im_context |-> FALSE, wnd |-> NoWin, mask |-> {}]]
  /\ told = [i \in Insts |-> "no"] /\ strayCall = FALSE
  /\ browserAt = [at |-> "idle", inst |-> NoInst]
  /\ mainQ = <<>>
  /\ ht = {} /\ socket_ht = {} /\ pipe = "empty"
  /\ x11At = [at |-> "poll", x |-> NoXEvent]
  /\ xq = <<>> /\ asyncCalls = <<>>
  /\ typeCall = NoTypeCall /\ live = 0 /\ full = {} /\ steady = {}
  /\ xButtons = [i \in Insts |-> {}] /\ pressed = [i \in Insts |-> {}]

Browser(step) == browserAt.at = step
BrowserGoes(step, i) == browserAt' = [at |-> step, inst |-> i]
\* The browser has a plugin instance: NPP_New succeeded and NPP_Destroy was not called.
Loaded(i) == inst[i].mem = "alive" /\ inst[i].instance_loaded
tables_get_pp_instance(i) == inst[i].in_table
Task(kind, i, ie) == [kind |-> kind, inst |-> i, event |-> ie]
Post(kind, i) == mainQ' = Append(mainQ, Task(kind, i, NoEvent))

\* What has not reached the plugin yet.
InFlight == Len(xq) + Len(asyncCalls) + Len(mainQ) + (IF x11At.at = "use" THEN 1 ELSE 0)

-----------------------------------------------------------------------------
(* The browser's thread *)

\* Everything up to the nested loop: the instance is in the table before the plugin knows it.
NPP_New(i) ==
  /\ Browser("idle") /\ inst[i].mem = "none"
  /\ \E windowed, xembed \in BOOLEAN :
       inst' = [inst EXCEPT ![i] =
         [@ EXCEPT !.mem = "alive", !.npp = TRUE, !.in_table = TRUE,
                   !.windowed_mode = windowed, !.use_xembed = windowed /\ xembed]]
  /\ Post("create", i)
  /\ BrowserGoes("new", i)
  /\ UNCHANGED <<told, strayCall, x11Vars, inputVars>>

\* After the nested loop.  Without the interfaces the instance is left as it is.
NPP_NewReturns ==
  /\ Browser("created")
  /\ LET i == browserAt.inst IN
       inst' = [inst EXCEPT ![i].instance_loaded = inst[i].interfaces]
  /\ BrowserGoes("idle", NoInst)
  /\ UNCHANGED <<told, strayCall, mainQ, x11Vars, inputVars>>

\* pp_i->wnd as the event thread knows it.
WindowOf(i) == [inst |-> i, no |-> inst[i].wnd]

\* The plugin is told of the page's view, but not in full screen.
PostView(i) == IF i \in full THEN UNCHANGED mainQ ELSE Post("view", i)

\* In windowed mode, whichever window the browser passes is the instance's now; it is
\* registered with the event thread if it has not been.
NPP_SetWindow(i, n) ==
  /\ Browser("idle") /\ Loaded(i) /\ InFlight < MaxPending
  /\ \A m \in Wins : m < n => inst[i].windowed_mode /\ [inst |-> i, no |-> m] \in ht
  /\ inst' = IF inst[i].windowed_mode THEN [inst EXCEPT ![i].wnd = n] ELSE inst
  /\ LET w == [inst |-> i, no |-> n] IN
       IF inst[i].windowed_mode /\ w \notin ht
       THEN /\ ht' = ht \cup {w} /\ pipe' = "register"
            /\ BrowserGoes("register", i)
            /\ UNCHANGED mainQ
       ELSE PostView(i) /\ UNCHANGED <<ht, pipe, browserAt>>
  /\ UNCHANGED <<told, strayCall, socket_ht, x11At, xq, asyncCalls, inputVars>>

\* The events an X event makes are posted one after the other.
Converted(i, e, filter) ==
  LET made == InputOf(e, inst[i].mask, inst[i].im_context, filter)
  IN  /\ live' = live + Len(made)
      /\ mainQ' = mainQ \o (IF e.type \in FocusTypes
                            THEN << Task("focus", i, NoEvent) >>
                            ELSE [k \in 1 .. Len(made) |-> Task("input", i, made[k])])

\* An event of the page's window: one in full screen gets only those of that window.
\* Expose events are in Graphics.
NPP_HandleEvent(i, e) ==
  IF i \in full THEN UNCHANGED <<live, mainQ>>
  ELSE \E filter \in FilterResults : Converted(i, e, filter)

\* handle_event_ptac: an event of the full screen window, passed on by its thread to the
\* browser's, in its event loop or in the nested one of NPP_New or NPP_Destroy.
FullscreenEvent(i, e) ==
  /\ browserAt.at \in {"idle", "new", "destroy"} /\ i \in full /\ InFlight < MaxPending
  /\ e.type \notin XEmbedTypes
  /\ \E filter \in FilterResults : Converted(i, e, filter)
  /\ UNCHANGED <<inst, told, strayCall, browserAt, x11Vars, typeCall, full, xButtons, pressed, steady>>

\* Without a window of its own, an instance gets its events from the browser.
BrowserEvent(i, e) ==
  /\ Browser("idle") /\ Loaded(i) /\ ~inst[i].windowed_mode /\ InFlight < MaxPending
  /\ e.type \notin XEmbedTypes
  /\ e.type = "ButtonRelease" /\ e.button \in 1 .. 3 => e.button \in xButtons[i]
  /\ e.type = "ButtonPress" => e.button \notin xButtons[i]
  /\ NPP_HandleEvent(i, e)
  /\ xButtons' = [xButtons EXCEPT ![i] =
       CASE e.type = "ButtonPress" /\ e.button \in 1 .. 3 -> @ \cup {e.button}
         [] e.type = "ButtonRelease" -> @ \ {e.button}
         [] OTHER -> @]
  /\ UNCHANGED <<inst, told, strayCall, browserAt, x11Vars, typeCall, full, pressed, steady>>

\* The browser makes the call of the event thread.
call_handle_event_ptac ==
  /\ Browser("idle") /\ asyncCalls # <<>> /\ Len(mainQ) < MaxPending
  /\ asyncCalls' = Tail(asyncCalls)
  /\ LET c == Head(asyncCalls) IN
       IF /\ c.wnd \in socket_ht /\ c.wnd \in ht
          /\ tables_get_pp_instance(c.wnd.inst) /\ inst[c.wnd.inst].npp
       THEN NPP_HandleEvent(c.wnd.inst, c.ev)
       ELSE UNCHANGED <<live, mainQ>>
  /\ UNCHANGED <<inst, told, strayCall, browserAt, ht, socket_ht, pipe, x11At, xq,
                 typeCall, full, xButtons, pressed, steady>>

\* Mutant: the window is left to the event thread.
DestroyKeepsWindow(i) ==
  /\ Browser("idle") /\ Loaded(i) /\ (TypesLate \/ typeCall = NoTypeCall)
  /\ inst' = [inst EXCEPT ![i].im_context = FALSE]
  /\ Post("destroy", i) /\ BrowserGoes("destroy", i) /\ UNCHANGED pipe
  /\ UNCHANGED <<told, strayCall, ht, socket_ht, x11At, xq, asyncCalls, inputVars>>

\* Its last window is unregistered first, if it is found: a plug, which wnd is for an
\* embedded one, is not.  Windows it had earlier stay registered.
NPP_Destroy(i) ==
  /\ Browser("idle") /\ Loaded(i) /\ (TypesLate \/ typeCall = NoTypeCall)
  /\ inst' = [inst EXCEPT ![i].im_context = FALSE]
  /\ IF inst[i].windowed_mode /\ ~inst[i].use_xembed /\ WindowOf(i) \in ht
     THEN pipe' = "unregister" /\ BrowserGoes("unregister", i) /\ UNCHANGED mainQ
     ELSE Post("destroy", i) /\ BrowserGoes("destroy", i) /\ UNCHANGED pipe
  /\ UNCHANGED <<told, strayCall, ht, socket_ht, x11At, xq, asyncCalls, inputVars>>

\* After the nested loop the instance is freed.
NPP_DestroyReturns ==
  /\ Browser("destroyed")
  /\ inst' = [inst EXCEPT ![browserAt.inst].mem = "freed"]
  /\ BrowserGoes("idle", NoInst)
  /\ UNCHANGED <<told, strayCall, mainQ, x11Vars, inputVars>>

-----------------------------------------------------------------------------
(* The event thread *)

\* A window's events are looked up from registration on, and no more before the browser's
\* thread goes on to free the entry.
x11et_handle_task ==
  /\ x11At.at = "poll" /\ pipe # "empty"
  /\ socket_ht' = IF pipe = "register" THEN socket_ht \cup {WindowOf(browserAt.inst)}
                  ELSE socket_ht \ {WindowOf(browserAt.inst)}
  /\ x11At' = [x11At EXCEPT !.at = "barrier"]
  /\ UNCHANGED <<inst, told, strayCall, browserAt, mainQ, ht, pipe, xq, asyncCalls, inputVars>>

\* Both threads are at task_pass_barrier.
task_pass_barrier ==
  /\ x11At.at = "barrier"
  /\ x11At' = [x11At EXCEPT !.at = "poll"]
  /\ pipe' = "empty"
  /\ LET i == browserAt.inst IN
       \/ /\ Browser("register")
          /\ PostView(i) /\ BrowserGoes("idle", NoInst)
          /\ UNCHANGED ht
       \/ /\ Browser("unregister")
          /\ ht' = ht \ {WindowOf(i)}
          /\ Post("destroy", i) /\ BrowserGoes("destroy", i)
  /\ UNCHANGED <<inst, told, strayCall, socket_ht, xq, asyncCalls, inputVars>>

\* The user does something in a window of an instance.
UserEvent(w, e) ==
  /\ w \in socket_ht /\ InFlight < MaxPending
  /\ e.type \in XEmbedTypes => inst[w.inst].use_xembed
  /\ xq' = Append(xq, [wnd |-> w, ev |-> e])
  /\ e.type = "ButtonRelease" /\ e.button \in 1 .. 3 => e.button \in xButtons[w.inst]
  /\ e.type = "ButtonPress" => e.button \notin xButtons[w.inst]
  /\ xButtons' = [xButtons EXCEPT ![w.inst] =
       CASE e.type = "ButtonPress" /\ e.button \in 1 .. 3 -> @ \cup {e.button}
         [] e.type = "ButtonRelease" -> @ \ {e.button}
         [] OTHER -> @]
  /\ UNCHANGED <<inst, told, strayCall, browserAt, mainQ, ht, socket_ht, pipe, x11At, asyncCalls,
                 typeCall, live, full, pressed, steady>>

\* The first half: the window is looked up, then the instance.
x11et_handle_xevent ==
  /\ x11At.at = "poll" /\ pipe = "empty" /\ xq # <<>>
  /\ xq' = Tail(xq)
  /\ LET x == Head(xq)
         i == x.wnd.inst
     IN  IF /\ x.wnd \in socket_ht /\ x.wnd \in ht
            /\ ~Skips(x.ev, inst[i].use_xembed) /\ tables_get_pp_instance(i)
         THEN x11At' = [at |-> "use", x |-> x]
         ELSE UNCHANGED x11At
  /\ UNCHANGED <<inst, told, strayCall, browserAt, mainQ, ht, socket_ht, pipe, asyncCalls, inputVars>>

\* The second half: pp_i->npp is read, and used.  If the instance was freed it is anything.
PostXEvent ==
  /\ x11At.at = "use"
  /\ x11At' = [at |-> "poll", x |-> NoXEvent]
  /\ LET i == x11At.x.wnd.inst
         e == Translated(x11At.x.ev, inst[i].use_xembed)
     IN  \E npp \in IF inst[i].mem = "freed" THEN BOOLEAN ELSE {inst[i].npp} :
           asyncCalls' = IF npp THEN Append(asyncCalls, [wnd |-> x11At.x.wnd, ev |-> e])
                         ELSE asyncCalls
  /\ UNCHANGED <<inst, told, strayCall, browserAt, mainQ, ht, socket_ht, pipe, xq, inputVars>>

-----------------------------------------------------------------------------
(* The plugin's thread *)

\* A function of the plugin is called for i.
CallPlugin(i) == strayCall' = (strayCall \/ told[i] # "created")

NextTask(kind) == mainQ # <<>> /\ Head(mainQ).kind = kind /\ mainQ' = Tail(mainQ)

\* The plugin may lack an interface; then DidCreate is not called.
call_plugin_did_create_comt ==
  /\ NextTask("create")
  /\ LET i == Head(mainQ).inst IN
     /\ \/ /\ told' = [told EXCEPT ![i] = "created"]
           /\ inst' = [inst EXCEPT ![i].interfaces = TRUE]
        \/ UNCHANGED <<inst, told>>
     /\ BrowserGoes("created", i)
  /\ UNCHANGED <<strayCall, x11Vars, inputVars>>

\* Mutant: the instance stays in the table.
DestroyKeepsInstance ==
  /\ NextTask("destroy")
  /\ LET i == Head(mainQ).inst IN
     /\ told' = [told EXCEPT ![i] = "destroyed"]
     /\ inst' = [inst EXCEPT ![i].npp = FALSE]
     /\ full' = full \ {i}
     /\ BrowserGoes("destroyed", i)
  /\ UNCHANGED <<strayCall, x11Vars, typeCall, live, xButtons, pressed, steady>>

\* Full screen is left, DidDestroy; then the instance is found no more.
destroy_instance_comt ==
  /\ NextTask("destroy")
  /\ LET i == Head(mainQ).inst IN
     /\ full' = full \ {i}
     /\ told' = [told EXCEPT ![i] = "destroyed"]
     /\ inst' = [inst EXCEPT ![i] = [@ EXCEPT !.in_table = FALSE, !.npp = FALSE]]
     /\ BrowserGoes("destroyed", i)
  /\ UNCHANGED <<strayCall, x11Vars, typeCall, live, xButtons, pressed, steady>>

\* DidChangeView and DidChangeFocus.
Notify(kind) ==
  /\ NextTask(kind)
  /\ IF tables_get_pp_instance(Head(mainQ).inst) THEN CallPlugin(Head(mainQ).inst) ELSE UNCHANGED strayCall
  /\ UNCHANGED <<inst, told, browserAt, x11Vars, inputVars>>

set_window_comt == Notify("view")
\* A menu muffles the focus events it causes.
call_ppp_did_change_focus_comt ==
  \/ Notify("focus")
  \/ NextTask("focus") /\ UNCHANGED <<inst, told, strayCall, browserAt, x11Vars, inputVars>>

\* Mutant: the event of an instance that is gone is not released.
HandleInputLeaks ==
  /\ NextTask("input")
  /\ LET i == Head(mainQ).inst
     IN  IF tables_get_pp_instance(i)
         THEN CallPlugin(i) /\ live' = live - 1
         ELSE UNCHANGED <<strayCall, live>>
  /\ UNCHANGED <<inst, told, browserAt, x11Vars, typeCall, full, xButtons, pressed, steady>>

\* HandleInputEvent; then the wrapper lets go of the event.
call_ppp_handle_input_event_comt ==
  /\ NextTask("input")
  /\ LET i == Head(mainQ).inst
         ie == Head(mainQ).event
         b == ppb_mouse_input_event_get_button(ie)
     IN  /\ live' = live - 1
         /\ IF tables_get_pp_instance(i)
            THEN /\ CallPlugin(i)
                 /\ pressed' = [pressed EXCEPT ![i] =
                      CASE ppb_input_event_get_type(ie) = "MOUSEDOWN" -> @ \cup {b}
                        [] ppb_input_event_get_type(ie) = "MOUSEUP" -> @ \ {b}
                        [] OTHER -> @]
            ELSE UNCHANGED <<strayCall, pressed>>
  /\ UNCHANGED <<inst, told, browserAt, x11Vars, typeCall, full, xButtons, steady>>

\* Something of i is on the way to the plugin.
Pending(i) ==
  \/ \E k \in 1 .. Len(mainQ) : mainQ[k].inst = i
  \/ \E k \in 1 .. Len(xq) : xq[k].wnd.inst = i
  \/ \E k \in 1 .. Len(asyncCalls) : asyncCalls[k].wnd.inst = i
  \/ x11At.at = "use" /\ x11At.x.wnd.inst = i

\* RequestInputEvents and RequestFilteringInputEvents, ClearInputEventRequest.
ppb_input_event_request_input_events(i, classes) ==
  /\ told[i] = "created" /\ inst[i].mask = {}
  /\ inst' = [inst EXCEPT ![i].mask = @ \cup classes]
  /\ steady' = IF i \notin full /\ xButtons[i] \cup pressed[i] = {} /\ ~Pending(i)
               THEN steady \cup {i} ELSE steady
  /\ UNCHANGED <<told, strayCall, browserAt, mainQ, x11Vars, typeCall, live, full, xButtons, pressed>>

ppb_input_event_clear_input_event_request(i, classes) ==
  /\ told[i] = "created" /\ inst[i].mask # {}
  /\ inst' = [inst EXCEPT ![i].mask = @ \ classes]
  /\ steady' = steady \ {i}
  /\ UNCHANGED <<told, strayCall, browserAt, mainQ, x11Vars, typeCall, live, full, xButtons, pressed>>

\* The thread of the full screen window sets and resets is_fullscreen.
IsFullscreenChanges(i) ==
  /\ full' = IF i \in full THEN full \ {i} ELSE full \cup {i}
  /\ i \notin full => told[i] = "created"
  /\ steady' = steady \ {i}
  /\ UNCHANGED <<inst, told, strayCall, browserAt, mainQ, x11Vars, typeCall, live, xButtons, pressed>>

\* The plugin changes the input method; for a password there is none.
ppb_text_input_interface_set_text_input_type(i, text) ==
  /\ told[i] = "created" /\ typeCall = NoTypeCall /\ inst[i].im_context # text
  /\ TypesLate \/ Browser("idle")
  /\ typeCall' = [inst |-> i, text |-> text]
  /\ UNCHANGED <<inst, told, strayCall, browserAt, mainQ, x11Vars, live, full, xButtons, pressed, steady>>

\* On the browser's thread, in its event loop or in the nested one of NPP_New or NPP_Destroy.
set_text_input_type_ptac ==
  /\ typeCall # NoTypeCall /\ browserAt.at \in {"idle", "new", "destroy"}
  /\ typeCall' = NoTypeCall
  /\ inst' = IF tables_get_pp_instance(typeCall.inst)
             THEN [inst EXCEPT ![typeCall.inst].im_context = typeCall.text] ELSE inst
  /\ UNCHANGED <<told, strayCall, browserAt, mainQ, x11Vars, live, full, xButtons, pressed, steady>>

-----------------------------------------------------------------------------
main_thread ==
  \/ call_plugin_did_create_comt \/ destroy_instance_comt
  \/ set_window_comt \/ call_ppp_did_change_focus_comt \/ call_ppp_handle_input_event_comt

x11_event_thread_func == x11et_handle_task \/ x11et_handle_xevent \/ PostXEvent

BrowserWaits == task_pass_barrier \/ NPP_NewReturns \/ NPP_DestroyReturns

PPB_InputEvent ==
  \E i \in Insts :
    \/ ppb_input_event_request_input_events(i, Classes)
    \/ ppb_input_event_clear_input_event_request(i, Classes)

PPB_TextInput_Dev ==
  \E i \in Insts, text \in BOOLEAN : ppb_text_input_interface_set_text_input_type(i, text)

InstancesNext ==
  \/ main_thread \/ x11_event_thread_func \/ BrowserWaits \/ PPB_InputEvent
  \/ PPB_TextInput_Dev \/ set_text_input_type_ptac \/ call_handle_event_ptac
  \/ \E i \in Insts :
       \/ NPP_New(i) \/ NPP_Destroy(i) \/ IsFullscreenChanges(i)
       \/ \E n \in Wins : NPP_SetWindow(i, n)
       \/ \E e \in XEvents : BrowserEvent(i, e) \/ FullscreenEvent(i, e)
  \/ \E w \in Windows, e \in XEvents : UserEvent(w, e)

\* Threads that can go on do.
InstancesFairness ==
  /\ WF_instVars(main_thread) /\ WF_instVars(x11et_handle_task)
  /\ WF_instVars(BrowserWaits) /\ WF_instVars(PostXEvent)

InstancesSpec == InstancesInit /\ [][InstancesNext]_instVars /\ InstancesFairness

-----------------------------------------------------------------------------
\* The plugin is called for an instance only between its DidCreate and its DidDestroy,
\* whatever is still in the queues when NPP_Destroy comes and however NPP_New went.
CallsAreBetweenCreateAndDestroy ==
  /\ InstancesTypeOK
  /\ ~strayCall
  /\ \A i \in Insts : told[i] = "created" <=> inst[i].in_table /\ inst[i].interfaces

\* The event thread goes on with the instance of the last window the browser gave it only
\* while that is there: NPP_Destroy frees none under it, whatever windows it had before.  (An
\* embedded window is never unregistered, nor one it had earlier.)  Nor is an input method
\* chosen that NPP_Destroy has let go.
EventThreadHasItsInstance ==
  /\ x11At.at = "use" =>
       LET w == x11At.x.wnd
       IN  inst[w.inst].mem = "alive" \/ inst[w.inst].use_xembed \/ inst[w.inst].wnd # w.no
  /\ \A i \in Insts :
       inst[i].im_context => inst[i].mem = "alive" /\ (browserAt.inst = i => Browser("register"))

\* Every event resource is released by the wrapper, also when its instance has gone before
\* it was given; and once everything is delivered a plugin that wanted mouse events all along,
\* and stayed in the page, knows which buttons are down.
InputIsDelivered ==
  /\ live = Cardinality({k \in 1 .. Len(mainQ) : mainQ[k].kind = "input"})
  /\ \A i \in steady : told[i] = "created" /\ ~Pending(i) => pressed[i] = xButtons[i]

\* NPP_New, NPP_SetWindow and NPP_Destroy return.
InstanceCallsReturn == ~Browser("idle") ~> Browser("idle")
=============================================================================
