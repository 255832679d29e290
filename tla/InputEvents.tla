----------------------------- MODULE InputEvents -----------------------------
(***************************************************************************)
(* What an X event becomes for the plugin: the handle_*_event functions of *)
(* src/np_functions.c, the XEmbed part of src/x11_event_thread.c, and the  *)
(* input event resource of src/ppb_input_event.c.                          *)
(*                                                                         *)
(* An X event is [type, button]; button also tells a printable key (1) from*)
(* another (0) and a normal crossing (0) from one of a grab (1).  An input *)
(* event is [class, type, button].  Positions, modifiers, click counts and *)
(* time stamps are left out.                                               *)
(***************************************************************************)
EXTENDS Naturals, Sequences

Classes == {"MOUSE", "WHEEL", "KEYBOARD", "IME"}
ButtonTypes == {"ButtonPress", "ButtonRelease"}
KeyTypes == {"KeyPress", "KeyRelease"}
FocusTypes == {"FocusIn", "FocusOut"}
CrossingTypes == {"EnterNotify", "LeaveNotify"}
ExposeTypes == {"Expose", "GraphicsExpose"}
InputEventTypes ==
  {"MOUSEENTER", "MOUSELEAVE", "MOUSEMOVE", "MOUSEDOWN", "MOUSEUP", "CONTEXTMENU", "WHEEL",
   "KEYDOWN", "KEYUP", "CHAR", "IME_COMPOSITION_START", "IME_COMPOSITION_UPDATE",
   "IME_COMPOSITION_END", "IME_TEXT"}

NoButton == 0
InputEvent == [class : Classes, type : InputEventTypes, button : 0 .. 3]

-----------------------------------------------------------------------------
(* struct pp_input_event_s, made by the wrapper *)

ppb_mouse_input_event_create(type, button) == [class |-> "MOUSE", type |-> type, button |-> button]
ppb_wheel_input_event_create == [class |-> "WHEEL", type |-> "WHEEL", button |-> NoButton]
ppb_keyboard_input_event_create(type) ==
  [class |-> "KEYBOARD", type |-> type, button |-> NoButton]
ppb_ime_input_event_create(type) == [class |-> "IME", type |-> type, button |-> NoButton]

\* What the plugin reads of an event: of another class, the default.
ppb_input_event_get_type(ie) == ie.type
ppb_mouse_input_event_get_button(ie) == IF ie.class = "MOUSE" THEN ie.button ELSE NoButton

-----------------------------------------------------------------------------
(* The handlers.  mask is event_mask | filtered_event_mask. *)

handle_enter_leave_event(e, mask) ==
  IF e.button = 0 /\ "MOUSE" \in mask
  THEN << ppb_mouse_input_event_create(
            IF e.type = "EnterNotify" THEN "MOUSEENTER" ELSE "MOUSELEAVE", NoButton) >>
  ELSE <<>>

handle_motion_event(mask) ==
  IF "MOUSE" \in mask THEN << ppb_mouse_input_event_create("MOUSEMOVE", NoButton) >> ELSE <<>>

\* Buttons 1 to 3 are buttons, 4 to 7 turn the wheel; there may be others.
ButtonClass(b) ==
  CASE b \in 1 .. 3 -> "MOUSE"
    [] b \in 4 .. 7 -> "WHEEL"
    [] OTHER -> "none"

\* Mutant: the wheel turns on release as well, and a right click is only a click.
ButtonsOnPress(e, mask) ==
  IF ButtonClass(e.button) \notin mask THEN <<>>
  ELSE IF ButtonClass(e.button) = "WHEEL" THEN << ppb_wheel_input_event_create >>
  ELSE << ppb_mouse_input_event_create("MOUSEDOWN", e.button) >>

handle_button_press_release_event(e, mask) ==
  IF ButtonClass(e.button) \notin mask THEN <<>>
  ELSE IF ButtonClass(e.button) = "WHEEL"
       THEN IF e.type = "ButtonPress" THEN << ppb_wheel_input_event_create >> ELSE <<>>
  ELSE IF e.type = "ButtonPress" THEN << ppb_mouse_input_event_create("MOUSEDOWN", e.button) >>
  ELSE << ppb_mouse_input_event_create("MOUSEUP", e.button) >>
       \o (IF e.button = 3 THEN << ppb_mouse_input_event_create("CONTEXTMENU", 3) >> ELSE <<>>)

\* The signals an input method raises while it filters a key press.
im_preedit_start == << ppb_ime_input_event_create("IME_COMPOSITION_START") >>
im_preedit_changed == << ppb_ime_input_event_create("IME_COMPOSITION_UPDATE") >>
im_commit ==
  << ppb_ime_input_event_create("IME_COMPOSITION_END"), ppb_ime_input_event_create("IME_TEXT") >>
\* Whether it takes the key, and what it says.
FilterResults ==
  {[stop |-> FALSE, said |-> <<>>]}
    \cup {[stop |-> TRUE, said |-> s] :
            s \in {im_preedit_start \o im_preedit_changed, im_preedit_changed, im_commit}}

is_printable_sequence(e) == e.button = 1

\* filter is the answer of the input method, if the instance has one.
handle_key_press_release_event(e, mask, im_context, filter) ==
  IF "KEYBOARD" \notin mask THEN <<>>
  ELSE IF im_context /\ e.type = "KeyPress" /\ filter.stop THEN filter.said
  ELSE << ppb_keyboard_input_event_create(IF e.type = "KeyPress" THEN "KEYDOWN" ELSE "KEYUP") >>
       \o (IF e.type = "KeyPress" /\ is_printable_sequence(e)
           THEN << ppb_keyboard_input_event_create("CHAR") >> ELSE <<>>)

\* NPP_HandleEvent, as far as input events go.
InputOf(e, mask, im_context, filter) ==
  CASE e.type \in CrossingTypes -> handle_enter_leave_event(e, mask)
    [] e.type = "MotionNotify" -> handle_motion_event(mask)
    [] e.type \in ButtonTypes -> handle_button_press_release_event(e, mask)
    [] e.type \in KeyTypes -> handle_key_press_release_event(e, mask, im_context, filter)
    [] OTHER -> <<>>

-----------------------------------------------------------------------------
(* x11et_handle_xevent: an embedded window gets its focus by XEmbed messages. *)

XEmbedTypes ==
  {"XEMBED_FOCUS_IN", "XEMBED_FOCUS_OUT", "XEMBED_EMBEDDED_NOTIFY", "XEMBED_WINDOW_ACTIVATE"}

Skips(e, is_xembed) ==
  is_xembed /\ e.type \in FocusTypes \cup {"XEMBED_EMBEDDED_NOTIFY", "XEMBED_WINDOW_ACTIVATE"}

Translated(e, is_xembed) ==
  [e EXCEPT !.type = CASE is_xembed /\ @ = "XEMBED_FOCUS_IN" -> "FocusIn"
                       [] is_xembed /\ @ = "XEMBED_FOCUS_OUT" -> "FocusOut"
                       [] OTHER -> @]
=============================================================================
