------------------------------ MODULE Clipboard ------------------------------
(* PPB_Flash_Clipboard.  The plugin's thread checks the formats and waits in   *)
(* a nested loop while the browser's thread talks to GTK.  What is written     *)
(* stays with GTK, by reference to the plugin's variables, until another owner *)
(* takes the clipboard.                                                        *)
EXTENDS Integers, FiniteSets, Sequences, SequencesExt, FiniteSetsExt

CONSTANTS
  Texts, Buffers,  \* string and array buffer variables of the plugin
  Names,           \* names of custom formats
  Registrars,      \* threads that register formats
  HtmlFirst,       \* a write with both lists its HTML text before its plain text
  MaxItems         \* bound on the items of all writes, one without items counting as one

ASSUME ClipboardAssumption ==
  /\ MaxItems \in Nat /\ HtmlFirst \in BOOLEAN
  /\ IsFiniteSet(Names) /\ IsFiniteSet(Registrars)

Boards == {"standard", "selection"}
NoName == "no_name"
\* PP_FLASH_CLIPBOARD_FORMAT_*, and the ids from next_format_id on.
PLAINTEXT == 1
HTML == 2
RTF == 3
FirstFormat == 1000
FormatIds == FirstFormat .. FirstFormat + Cardinality(Registrars)
Formats == {PLAINTEXT, HTML, RTF} \cup FormatIds
ClipVars == Texts \cup Buffers

VARIABLES
  formatIds,    \* format_id_ht: [name -> id], 0 if unregistered
  formatNames,  \* format_name_ht: [id -> name]
  nextFormat,   \* next_format_id
  registering,  \* [thread -> the name it registers, once it has found no id]
  handedOut,    \* pairs of a name and the id a registration answered
  board,        \* [board -> entries GTK has from us, <<>> when it is not ours]
  written,      \* [board -> the items of the write the entries come from]
  varRefs,      \* references to each variable
  pluginHas,    \* variables the plugin holds a reference to
  leakedRefs,   \* references nobody will drop
  clipCall,     \* the call the plugin's thread is in: "idle" or the write it waits for
  clipItems     \* items written so far

clipVars == <<formatIds, formatNames, nextFormat, registering, handedOut, board, written,
              varRefs, pluginHas, leakedRefs, clipCall, clipItems>>
formatVars == <<formatIds, formatNames, nextFormat, registering, handedOut>>

Item == [format : Formats, var : ClipVars]
NoWrite == [board |-> "none", items |-> <<>>]

ClipInit ==
  /\ formatIds = [n \in Names |-> 0]
  /\ formatNames = [f \in FormatIds |-> NoName]
  /\ nextFormat = FirstFormat
  /\ registering = [r \in Registrars |-> NoName]
  /\ handedOut = {}
  /\ board = [b \in Boards |-> <<>>] /\ written = [b \in Boards |-> <<>>]
  /\ varRefs = [v \in ClipVars |-> 1] /\ pluginHas = ClipVars
  /\ leakedRefs = [v \in ClipVars |-> 0]
  /\ clipCall = NoWrite /\ clipItems = 0

-----------------------------------------------------------------------------
\* register_custom_format looks the name up under the lock, and lets go of it.
RegisterLookup(r, n) ==
  /\ registering[r] = NoName
  /\ nextFormat \in FormatIds
  /\ IF formatIds[n] # 0
       THEN handedOut' = handedOut \cup {<<n, formatIds[n]>>} /\ UNCHANGED registering
       ELSE registering' = [registering EXCEPT ![r] = n] /\ UNCHANGED handedOut
  /\ UNCHANGED <<formatIds, formatNames, nextFormat, board, written, varRefs, pluginHas,
                 leakedRefs, clipCall, clipItems>>

\* It takes the lock again and gives the name a new id, whether or not another thread has
\* given it one in between.
RegisterInsert(r) ==
  LET n == registering[r] IN
  /\ n # NoName /\ nextFormat \in FormatIds
  /\ formatIds' = [formatIds EXCEPT ![n] = nextFormat]
  /\ formatNames' = [formatNames EXCEPT ![nextFormat] = n]
  /\ handedOut' = handedOut \cup {<<n, nextFormat>>}
  /\ nextFormat' = nextFormat + 1
  /\ registering' = [registering EXCEPT ![r] = NoName]
  /\ UNCHANGED <<board, written, varRefs, pluginHas, leakedRefs, clipCall, clipItems>>

\* clipboard_type_and_format_are_supported, for one of the two boards.
Supported(f) == f \in FormatIds => formatNames[f] # NoName

\* get_clipboard_target_atom.
TargetOf(f) ==
  CASE f = PLAINTEXT -> "UTF8_STRING" [] f = HTML -> "text/html" [] f = RTF -> "text/rtf"
    [] f \in FormatIds -> formatNames[f]

\* What clipboard_write_data_ptac offers for one item; a variable of the wrong type is left
\* out.  Plain text is offered as five targets, HTML among them.
TextTargets == <<"text/html", "TEXT", "STRING", "UTF8_STRING", "COMPOUND_TEXT">>
EntriesOf(item) ==
  CASE item.format = PLAINTEXT /\ item.var \in Texts ->
         [k \in 1..Len(TextTargets) |-> [target |-> TextTargets[k], var |-> item.var]]
    [] item.format = HTML /\ item.var \in Texts ->
         <<[target |-> "text/html", var |-> item.var]>>
    [] item.format \notin {PLAINTEXT, HTML} /\ item.var \in Buffers ->
         <<[target |-> TargetOf(item.format), var |-> item.var]>>
    [] OTHER -> <<>>
Entries(items) == FoldLeft(LAMBDA es, i : es \o EntriesOf(i), <<>>, items)

\* References of the entries to variable v.
EntryRefs(entries, v) == Cardinality({k \in 1..Len(entries) : entries[k].var = v})

\* Mutant: one reference for each variable goes, however many entries have it.
ClearOnce(b, refs) ==
  [v \in ClipVars |-> refs[v] - (IF EntryRefs(board[b], v) = 0 THEN 0 ELSE 1)]

\* clipboard_clear_func: GTK gives the entries of board b back, and their references go.
clipboard_clear_func(b, refs) == [v \in ClipVars |-> refs[v] - EntryRefs(board[b], v)]

-----------------------------------------------------------------------------
\* Plain text is offered as HTML too, and the first offer is the one that is read.
TextBeforeHtml(items) ==
  \E j, k \in DOMAIN items : j < k /\ items[j].format = PLAINTEXT /\ items[k].format = HTML

\* ppb_flash_clipboard_write_data: refused if a format is unknown, else posted.
WriteData(b, items) ==
  /\ clipCall = NoWrite /\ clipItems + Max({1, Len(items)}) <= MaxItems
  /\ HtmlFirst => ~TextBeforeHtml(items)
  /\ \A k \in 1..Len(items) : Supported(items[k].format) /\ items[k].var \in pluginHas
  /\ clipCall' = [board |-> b, items |-> items]
  /\ clipItems' = clipItems + Max({1, Len(items)})
  /\ UNCHANGED <<formatVars, board, written, varRefs, pluginHas, leakedRefs>>

\* clipboard_write_data_ptac.  No items clear the board.  GTK gives back the former entries
\* when it takes the new ones; if it cannot own the selection nobody releases the new ones.
clipboard_write_data_ptac ==
  LET b == clipCall.board
      entries == Entries(clipCall.items)
      added == [v \in ClipVars |-> varRefs[v] + EntryRefs(entries, v)] IN
  /\ clipCall # NoWrite /\ clipCall' = NoWrite
  /\ \/ /\ varRefs' = clipboard_clear_func(b, added)
        /\ board' = [board EXCEPT ![b] = entries]
        /\ written' = [written EXCEPT ![b] = clipCall.items]
        /\ UNCHANGED leakedRefs
     \/ /\ clipCall.items # <<>>
        /\ varRefs' = added
        /\ leakedRefs' = [v \in ClipVars |-> leakedRefs[v] + EntryRefs(entries, v)]
        /\ UNCHANGED <<board, written>>
  /\ UNCHANGED <<formatVars, pluginHas, clipItems>>

\* Another application, or the user, takes the board.
OtherOwner(b) ==
  /\ board[b] # <<>>
  /\ varRefs' = clipboard_clear_func(b, varRefs)
  /\ board' = [board EXCEPT ![b] = <<>>] /\ written' = [written EXCEPT ![b] = <<>>]
  /\ UNCHANGED <<formatVars, pluginHas, leakedRefs, clipCall, clipItems>>

\* The plugin is done with a variable.
PluginReleasesVar(v) ==
  /\ clipCall = NoWrite /\ v \in pluginHas
  /\ pluginHas' = pluginHas \ {v}
  /\ varRefs' = [varRefs EXCEPT ![v] = @ - 1]
  /\ UNCHANGED <<formatVars, board, written, leakedRefs, clipCall, clipItems>>

\* clipboard_get_func and clipboard_read_data_ptac: the variable a reader of target gets,
\* the first entry that offers it.
Offers(b, target) == {k \in 1..Len(board[b]) : board[b][k].target = target}
ReadData(b, target) ==
  IF Offers(b, target) = {} THEN NoName ELSE board[b][Min(Offers(b, target))].var

\* A clipboard has one datum of each format, so the items of a write differ in theirs.
Writes ==
  {w \in UNION {[1..n -> Item] : n \in 0..MaxItems} :
     \A j, k \in DOMAIN w : j < k => TargetOf(w[j].format) # TargetOf(w[k].format)}

ClipNext ==
  \/ \E r \in Registrars, n \in Names : RegisterLookup(r, n)
  \/ \E r \in Registrars : RegisterInsert(r)
  \/ \E b \in Boards, items \in Writes : WriteData(b, items)
  \/ clipboard_write_data_ptac
  \/ \E b \in Boards : OtherOwner(b)
  \/ \E v \in ClipVars : PluginReleasesVar(v)

-----------------------------------------------------------------------------
\* What is on a clipboard outlives the plugin's interest in it: every reference is accounted
\* for, so a paste finds its variable (clipboard_get_func) and the last owner frees it once.
ClipboardRefsAreExact ==
  \A v \in ClipVars :
    varRefs[v] = (IF v \in pluginHas THEN 1 ELSE 0) + leakedRefs[v]
                 + EntryRefs(board["standard"], v) + EntryRefs(board["selection"], v)

\* A reader who asks for the format an item was written in gets that item, whatever else was
\* written with it (clipboard_get_func looks the offer up by its place in the array).
ReadsWhatWasWritten ==
  \A b \in Boards : \A k \in 1..Len(written[b]) :
    EntriesOf(written[b][k]) # <<>> =>
      ReadData(b, TargetOf(written[b][k].format)) = written[b][k].var

\* An id the plugin was given names the format it asked for ever after, also when two threads
\* registered the name at once (ppb_flash_clipboard.c:66-85).
FormatsKeepTheirNames == \A p \in handedOut : formatNames[p[2]] = p[1]

ClipboardIsSound == ClipboardRefsAreExact /\ ReadsWhatWasWritten /\ FormatsKeepTheirNames
=============================================================================
