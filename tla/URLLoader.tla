----------------------------- MODULE URLLoader ------------------------------
(***************************************************************************)
(* A URL loader of src/ppb_url_loader.c and the streams that feed it,      *)
(* src/np_functions.c.                                                     *)
(*                                                                         *)
(* The plugin thread opens the loader, follows redirects, reads the body   *)
(* and releases the loader; the browser thread gets the request and later  *)
(* calls NPP_NewStream, NPP_Write, NPP_DestroyStream, NPP_URLNotify and    *)
(* NPP_URLRedirectNotify.  The body goes through a temporary file.  A read *)
(* that finds no data waits in read_tasks for NPP_Write or                 *)
(* NPP_DestroyStream.                                                      *)
(*                                                                         *)
(* A handler holds the lock of the loader from pp_resource_acquire to      *)
(* pp_resource_release, and that much of it is one step.  What a handler   *)
(* does before, between and after are steps of their own.                  *)
(***************************************************************************)
EXTENDS Integers, Sequences, FiniteSets

CONSTANTS
  MaxStreams,  \* bound: streams of the browser
  MaxBytes,    \* bound: units of data in a stream
  ReadSize,    \* units of data a read asks for
  MaxOps       \* bound: calls of the plugin with a callback

Streams == 1 .. MaxStreams
Ops == 1 .. MaxOps
NoOp == 0      \* a callback that is NULL or do_nothing
NoStream == 0

ASSUME BoundsAssumption ==
  {MaxStreams, MaxBytes, ReadSize, MaxOps} \subseteq Nat \ {0}

VARIABLES
  ul,       \* struct pp_url_loader_s; file is the size of its file, gen counts files
  content,  \* pp_i->content_url_loader: "off" (no quirk), "free", "set", "used"
  stream,   \* the streams; pdata of NPStream says whether they have a loader
  op,       \* calls with a callback
  loop,     \* the message loop of the plugin thread
  pc,       \* the request the plugin thread waits for
  bh        \* the handler on the browser thread

vars == <<ul, content, stream, op, loop, pc, bh>>

Loader ==
  [alive : BOOLEAN, open : {"no", "yes", "closed"}, file : 0 .. MaxBytes,
   read_pos : Nat, redirect_url : BOOLEAN, finished_loading : BOOLEAN,
   follow_redirects : BOOLEAN, stream_to_file : BOOLEAN, stream_to_file_ccb : Ops \cup {NoOp},
   ccb : Ops \cup {NoOp}, np_stream : Streams \cup {NoStream}, read_tasks : Seq(Ops), gen : Nat]

(* Types; the reading position is inside the file, which read() would not *)
(* notice otherwise.                                                       *)
TypeOK ==
  /\ ul \in Loader
  /\ ul.read_pos <= ul.file
  /\ content \in {"off", "free", "set", "used"}
  /\ stream \in [Streams -> [state : {"unused", "requested", "open", "destroyed", "closed"},
                             notify : BOOLEAN, pdata : BOOLEAN, redirect : BOOLEAN,
                             sent : 0 .. MaxBytes]]
  /\ op \in [Ops -> [kind : {"none", "open", "read", "finish"},
                     state : {"unused", "begun", "pending", "returned"},
                     called : Nat, ok : BOOLEAN, gen : Nat, from : Nat, n : Nat]]
  /\ loop \in Seq([op : Ops, ok : BOOLEAN, wrapped : BOOLEAN])
  /\ pc \in Ops \cup {NoOp}
  /\ bh \in [at : {"idle", "follow", "request", "write", "destroy", "drain"},
             of : Streams \cup {NoStream}, ccb : Ops \cup {NoOp}]

Idle == [at |-> "idle", of |-> NoStream, ccb |-> NoOp]
Unused == [state |-> "unused", notify |-> TRUE, pdata |-> FALSE, redirect |-> FALSE,
           sent |-> 0]

Init ==
  /\ ul = [alive |-> TRUE, open |-> "no", file |-> 0, read_pos |-> 0, redirect_url |-> FALSE,
           finished_loading |-> FALSE, follow_redirects |-> FALSE,
           stream_to_file |-> FALSE, stream_to_file_ccb |-> NoOp, ccb |-> NoOp,
           np_stream |-> NoStream, read_tasks |-> <<>>, gen |-> 0]
  /\ content \in {"off", "free"}
  /\ stream = [k \in Streams |-> Unused]
  /\ op = [i \in Ops |-> [kind |-> "none", state |-> "unused", called |-> 0, ok |-> FALSE,
                          gen |-> 0, from |-> 0, n |-> 0]]
  /\ loop = <<>>
  /\ pc = NoOp
  /\ bh = Idle

-----------------------------------------------------------------------------
(* Callbacks and reads *)

Task(i, ok, wrapped) == [op |-> i, ok |-> ok, wrapped |-> wrapped]
Post(i, ok) == loop' = IF i = NoOp THEN loop ELSE Append(loop, Task(i, ok, FALSE))

NextOp(i) == op[i].state = "unused" /\ \A j \in Ops : j < i => op[j].state # "unused"
Started(i, kind, state) == [op EXCEPT ![i].kind = kind, ![i].state = state]

(* lseek and read: what a read gets, fewer units if the file has fewer. *)
Available(u) ==
  LET left == u.file - u.read_pos IN
  IF u.open # "yes" \/ left < 0 THEN 0 ELSE IF left < ReadSize THEN left ELSE ReadSize

Advanced(u) == [u EXCEPT !.read_pos = @ + Available(u)]
Got(ops, i, u) ==
  [ops EXCEPT ![i].gen = u.gen, ![i].from = u.read_pos, ![i].n = Available(u)]

(* The first waiting read is taken from the list and served from u. *)
ServeFirst(u) ==
  /\ ul' = Advanced([u EXCEPT !.read_tasks = Tail(@)])
  /\ op' = Got(op, Head(u.read_tasks), u)
  /\ loop' = Append(loop, Task(Head(u.read_tasks), u.open = "yes", TRUE))

-----------------------------------------------------------------------------
(* The plugin thread *)

PluginRuns == pc = NoOp

(* Open, once.  The first loader of all takes the stream the browser opens *)
(* by itself, if the quirk for it is on.                                   *)
ppb_url_loader_open_target(i, follow, to_file) ==
  /\ PluginRuns
  /\ ul.alive /\ ul.open = "no"
  /\ NextOp(i)
  /\ ul' = [ul EXCEPT !.open = "yes", !.file = 0, !.read_pos = 0, !.follow_redirects = follow,
                      !.stream_to_file = to_file, !.ccb = i]
  /\ IF content = "free"
     THEN /\ content' = "set"
          /\ op' = Started(i, "open", "pending")
          /\ stream' = [stream EXCEPT ![1].state = "requested", ![1].notify = FALSE]
          /\ UNCHANGED pc
     ELSE /\ op' = Started(i, "open", "begun")
          /\ pc' = i
          /\ UNCHANGED <<content, stream>>
  /\ UNCHANGED <<loop, bh>>

(* Mutant: the reading position is kept. *)
FollowKeepsPosition(i) ==
  [ul EXCEPT !.open = "yes", !.file = 0, !.redirect_url = FALSE,
             !.np_stream = NoStream, !.ccb = i, !.gen = @ + 1]

(* The loader starts again, with a new file. *)
Restarted(i) ==
  [ul EXCEPT !.open = "yes", !.file = 0, !.read_pos = 0, !.redirect_url = FALSE,
             !.np_stream = NoStream, !.ccb = i, !.gen = @ + 1]

(* Further handling of the stream is aborted. *)
Detached == IF ul.np_stream = NoStream THEN stream ELSE [stream EXCEPT ![ul.np_stream].pdata = FALSE]

IsOpen(i) == op[i].kind = "open" /\ op[i].state = "pending"
LastOpenOk == \E i \in Ops :
  IsOpen(i) /\ op[i].called > 0 /\ op[i].ok /\ \A j \in Ops : op[j].kind = "open" => j <= i

(* FollowRedirect is for loaders that do not follow by themselves: "Set    *)
(* this value to PP_FALSE if you want to use                               *)
(* PPB_URLLoader.FollowRedirects() to follow the redirects only after      *)
(* examining redirect headers"                                             *)
(* (3rdparty/ppapi/c/ppb_url_request_info.h:65).  The code does not check  *)
(* it: on a loader that follows by itself the browser thread would put the *)
(* former callback back over that of the call.                             *)
ppb_url_loader_follow_redirect(i) ==
  /\ PluginRuns
  /\ ul.alive /\ ~ul.follow_redirects /\ ul.redirect_url /\ LastOpenOk
  /\ NextOp(i)
  /\ ul' = Restarted(i)
  /\ stream' = Detached
  /\ op' = Started(i, "open", "begun")
  /\ pc' = i
  /\ UNCHANGED <<content, loop, bh>>

(* A read gets what is in the file; it waits if that is nothing or if      *)
(* others wait.  With an optional callback it returns at once.             *)
ppb_url_loader_read_response_body(i, optional) ==
  /\ PluginRuns
  /\ ul.alive /\ ul.open = "yes" /\ LastOpenOk
  /\ NextOp(i)
  /\ IF ul.read_tasks # <<>> \/ (Available(ul) = 0 /\ ~ul.finished_loading)
     THEN /\ ul' = [ul EXCEPT !.read_tasks = Append(@, i)]
          /\ op' = Started(i, "read", "pending")
          /\ UNCHANGED loop
     ELSE /\ ul' = Advanced(ul)
          /\ op' = Got(Started(i, "read", IF optional THEN "returned" ELSE "pending"), i, ul)
          /\ IF optional THEN UNCHANGED loop ELSE Post(i, TRUE)
  /\ UNCHANGED <<content, stream, pc, bh>>

ppb_url_loader_finish_streaming_to_file(i) ==
  /\ PluginRuns
  /\ ul.alive /\ ul.stream_to_file /\ LastOpenOk /\ ~ul.redirect_url
  /\ ul.stream_to_file_ccb = NoOp
  /\ NextOp(i)
  /\ ul' = [ul EXCEPT !.stream_to_file_ccb = i]
  /\ op' = Started(i, "finish", "pending")
  /\ UNCHANGED <<content, stream, loop, pc, bh>>

ppb_url_loader_close ==
  /\ PluginRuns
  /\ ul.alive /\ ul.open = "yes"
  /\ ul' = [ul EXCEPT !.open = "closed"]
  /\ UNCHANGED <<content, stream, op, loop, pc, bh>>

(* The last reference goes: waiting reads are freed.  A request under way  *)
(* holds a reference of its own, "to ensure data in ul remain accessible". *)
ppb_url_loader_destroy ==
  /\ PluginRuns /\ bh.at # "request"
  /\ ul.alive
  /\ ul' = [ul EXCEPT !.alive = FALSE, !.open = "closed", !.read_tasks = <<>>]
  /\ UNCHANGED <<content, stream, op, loop, pc, bh>>

(* The loop: a callback, or url_read_task_wrapper_comt around one. *)
RunTask ==
  /\ PluginRuns
  /\ loop # <<>>
  /\ LET t == Head(loop) IN
     op' = IF t.wrapped /\ ~ul.alive THEN op
           ELSE [op EXCEPT ![t.op].called = @ + 1, ![t.op].ok = t.ok]
  /\ loop' = Tail(loop)
  /\ UNCHANGED <<ul, content, stream, pc, bh>>

-----------------------------------------------------------------------------
(* The browser thread *)

Free(k) == stream[k].state = "unused" /\ \A j \in Streams : j < k => stream[j].state # "unused"
Requested(k) == [stream EXCEPT ![k].state = "requested"]

(* NPN_GetURLNotify or NPN_PostURLNotify for the waiting plugin thread. *)
url_loader_open_ptac ==
  /\ bh.at = "idle"
  /\ pc # NoOp
  /\ \/ \E k \in Streams :
          /\ Free(k)
          /\ stream' = Requested(k)
          /\ op' = [op EXCEPT ![pc].state = "pending"]
     \/ /\ op' = [op EXCEPT ![pc].state = "returned"]
        /\ UNCHANGED stream
  /\ pc' = NoOp
  /\ UNCHANGED <<ul, content, loop, bh>>

NPP_URLRedirectNotify(k) ==
  /\ bh.at = "idle"
  /\ stream[k].state = "requested" /\ stream[k].notify /\ ~stream[k].redirect
  /\ stream' = [stream EXCEPT ![k].redirect = TRUE]
  /\ ul' = IF ul.alive THEN [ul EXCEPT !.redirect_url = TRUE] ELSE ul
  /\ UNCHANGED <<content, op, loop, pc, bh>>

(* Mutant: the callback stays in the loader. *)
NewStreamKeepsCallback(k) ==
  /\ bh.at = "idle"
  /\ stream[k].state = "requested"
  /\ content' = IF stream[k].notify THEN content ELSE "used"
  /\ stream' = [stream EXCEPT ![k].state = "open", ![k].pdata = TRUE]
  /\ ul' = IF ul.alive THEN [ul EXCEPT !.np_stream = k] ELSE ul
  /\ IF ul.alive THEN Post(ul.ccb, TRUE) ELSE UNCHANGED loop
  /\ UNCHANGED <<op, pc, bh>>

(* The answer to a request, or the stream the first loader waits for.  A   *)
(* redirect that the loader follows by itself goes on in AutoFollow.       *)
NPP_NewStream(k) ==
  /\ bh.at = "idle"
  /\ stream[k].state = "requested"
  /\ content' = IF stream[k].notify THEN content ELSE "used"
  /\ stream' = [stream EXCEPT ![k].state = "open", ![k].pdata = TRUE]
  /\ \/ /\ ~ul.alive
        /\ UNCHANGED <<ul, loop, bh>>
     \/ /\ ul.alive /\ stream[k].redirect /\ ul.redirect_url /\ ul.follow_redirects
        /\ ul' = [ul EXCEPT !.ccb = NoOp, !.np_stream = k]
        /\ bh' = [at |-> "follow", of |-> k, ccb |-> ul.ccb]
        /\ UNCHANGED loop
     \/ /\ ul.alive /\ ~(stream[k].redirect /\ ul.redirect_url /\ ul.follow_redirects)
        /\ ul' = [ul EXCEPT !.ccb = NoOp, !.np_stream = k]
        /\ Post(ul.ccb, TRUE)
        /\ UNCHANGED bh
  /\ UNCHANGED <<op, pc>>

(* ppb_url_loader_follow_redirect with do_nothing as callback. *)
AutoFollow ==
  /\ bh.at = "follow"
  /\ IF ul.alive
     THEN /\ ul' = Restarted(NoOp)
          /\ stream' = Detached
          /\ bh' = [bh EXCEPT !.at = "request"]
          /\ UNCHANGED loop
     ELSE /\ Post(bh.ccb, TRUE)
          /\ bh' = Idle
          /\ UNCHANGED <<ul, stream>>
  /\ UNCHANGED <<content, op, pc>>

(* ... whose result is not looked at. *)
AutoRequest ==
  /\ bh.at = "request"
  /\ \/ \E k \in Streams : Free(k) /\ stream' = Requested(k)
     \/ UNCHANGED stream
  /\ Post(bh.ccb, TRUE)
  /\ bh' = Idle
  /\ UNCHANGED <<ul, content, op, pc>>

(* NPP_Write looks at stream->pdata first ... *)
NPP_Write(k) ==
  /\ bh.at = "idle"
  /\ stream[k].state = "open" /\ stream[k].sent < MaxBytes
  /\ IF stream[k].pdata
     THEN bh' = [at |-> "write", of |-> k, ccb |-> NoOp] /\ UNCHANGED stream
     ELSE stream' = [stream EXCEPT ![k].sent = @ + 1] /\ UNCHANGED bh
  /\ UNCHANGED <<ul, content, op, loop, pc>>

(* lseek and write: the file grows if need be. *)
Stored(k) == [ul EXCEPT !.file = IF stream[k].sent < @ THEN @ ELSE stream[k].sent + 1]

(* Mutant: a read that got nothing goes to the end of the list. *)
WriteRequeuesLast ==
  LET u == Stored(bh.of) IN
  /\ bh.at = "write"
  /\ bh' = Idle
  /\ stream' = [stream EXCEPT ![bh.of].sent = @ + 1]
  /\ IF ul.alive /\ ul.open = "yes" /\ ul.read_tasks # <<>>
     THEN IF Len(ul.read_tasks) > 1
          THEN /\ ul' = Advanced([u EXCEPT !.read_tasks = SubSeq(@, 1, Len(@) - 1)])
               /\ op' = Got(op, u.read_tasks[Len(u.read_tasks)], u)
               /\ loop' = Append(loop, Task(u.read_tasks[Len(u.read_tasks)], TRUE, TRUE))
          ELSE ServeFirst(u)
     ELSE /\ ul' = IF ul.alive /\ ul.open = "yes" THEN u ELSE ul
          /\ UNCHANGED <<op, loop>>
  /\ UNCHANGED <<content, pc>>

(* ... and then takes the loader: the first waiting read gets the data.    *)
WriteBody ==
  LET u == Stored(bh.of) IN
  /\ bh.at = "write"
  /\ bh' = Idle
  /\ stream' = [stream EXCEPT ![bh.of].sent = @ + 1]
  /\ IF ul.alive /\ ul.open = "yes" /\ ul.read_tasks # <<>> /\ Available(u) > 0
     THEN ServeFirst(u)
     ELSE /\ ul' = IF ul.alive /\ ul.open = "yes" THEN u ELSE ul
          /\ UNCHANGED <<op, loop>>
  /\ UNCHANGED <<content, pc>>

(* NPP_DestroyStream, too; the reason is not looked at. *)
NPP_DestroyStream(k) ==
  /\ bh.at = "idle"
  /\ stream[k].state = "open"
  /\ stream' = [stream EXCEPT ![k].state = "destroyed"]
  /\ bh' = IF stream[k].pdata THEN [at |-> "destroy", of |-> k, ccb |-> NoOp] ELSE Idle
  /\ UNCHANGED <<ul, content, op, loop, pc>>

(* One round of the loop over waiting reads, between two acquires, or the  *)
(* end of it.                                                              *)
Drain(u) ==
  \/ /\ u.alive /\ u.read_tasks # <<>>
     /\ ServeFirst(u)
     /\ bh' = [bh EXCEPT !.at = "drain"]
  \/ /\ ~(u.alive /\ u.read_tasks # <<>>)
     /\ ul' = u
     /\ IF u.alive /\ u.stream_to_file THEN Post(u.stream_to_file_ccb, TRUE) ELSE UNCHANGED loop
     /\ bh' = Idle
     /\ UNCHANGED op

(* Mutant: the test of redirect_url is the wrong way round. *)
DestroyForRedirects ==
  /\ bh.at = "destroy"
  /\ IF ul.alive /\ ul.redirect_url
     THEN Drain([ul EXCEPT !.np_stream = NoStream, !.finished_loading = TRUE])
     ELSE /\ ul' = IF ul.alive THEN [ul EXCEPT !.np_stream = NoStream] ELSE ul
          /\ bh' = Idle
          /\ UNCHANGED <<op, loop>>
  /\ UNCHANGED <<content, stream, pc>>

(* Mutant: only the first waiting read is served. *)
DestroyServesOne ==
  /\ bh.at = "destroy"
  /\ IF ul.alive /\ ~ul.redirect_url /\ ul.read_tasks # <<>>
     THEN ServeFirst([ul EXCEPT !.np_stream = NoStream, !.finished_loading = TRUE])
     ELSE /\ ul' = [ul EXCEPT !.np_stream = NoStream,
                              !.finished_loading = @ \/ (ul.alive /\ ~ul.redirect_url)]
          /\ UNCHANGED <<op, loop>>
  /\ bh' = Idle
  /\ UNCHANGED <<content, stream, pc>>

DestroyBody ==
  /\ bh.at = "destroy"
  /\ IF ul.alive /\ ~ul.redirect_url
     THEN Drain([ul EXCEPT !.np_stream = NoStream, !.finished_loading = TRUE])
     ELSE /\ ul' = IF ul.alive THEN [ul EXCEPT !.np_stream = NoStream] ELSE ul
          /\ bh' = Idle
          /\ UNCHANGED <<op, loop>>
  /\ UNCHANGED <<content, stream, pc>>

DrainRest ==
  /\ bh.at = "drain"
  /\ Drain(ul)
  /\ UNCHANGED <<content, stream, pc>>

(* After the stream, or instead of it if the request fails.  Whatever is   *)
(* waiting for headers is told of a network error.                         *)
NPP_URLNotify(k, network_err) ==
  /\ bh.at = "idle"
  /\ stream[k].notify
  /\ \/ stream[k].state = "destroyed"
     \/ stream[k].state = "requested" /\ network_err
  /\ stream' = [stream EXCEPT ![k].state = "closed"]
  /\ IF network_err /\ ul.alive
     THEN /\ ul' = [ul EXCEPT !.ccb = NoOp]
          /\ Post(ul.ccb, FALSE)
     ELSE UNCHANGED <<ul, loop>>
  /\ UNCHANGED <<content, op, pc, bh>>

-----------------------------------------------------------------------------
PluginCall(i) ==
  \/ \E follow, to_file \in BOOLEAN : ppb_url_loader_open_target(i, follow, to_file)
  \/ ppb_url_loader_follow_redirect(i)
  \/ \E optional \in BOOLEAN : ppb_url_loader_read_response_body(i, optional)
  \/ ppb_url_loader_finish_streaming_to_file(i)

StreamEvent(k) ==
  \/ NPP_URLRedirectNotify(k)
  \/ NPP_NewStream(k)
  \/ NPP_Write(k)
  \/ NPP_DestroyStream(k)
  \/ \E network_err \in BOOLEAN : NPP_URLNotify(k, network_err)

HandlerStep == AutoFollow \/ AutoRequest \/ WriteBody \/ DestroyBody \/ DrainRest

Next ==
  \/ \E i \in Ops : PluginCall(i)
  \/ ppb_url_loader_close
  \/ ppb_url_loader_destroy
  \/ RunTask
  \/ url_loader_open_ptac
  \/ \E k \in Streams : StreamEvent(k)
  \/ HandlerStep

Spec == Init /\ [][Next]_vars

(* Both threads go on; the browser answers a request and ends a stream. *)
Fairness ==
  /\ WF_vars(RunTask)
  /\ WF_vars(url_loader_open_ptac)
  /\ WF_vars(HandlerStep)
  /\ \A k \in Streams : WF_vars(StreamEvent(k))

FairSpec == Spec /\ Fairness

-----------------------------------------------------------------------------
Served(i) == op[i].kind = "read" /\ op[i].n > 0
Waiting(i) == \E j \in DOMAIN ul.read_tasks : ul.read_tasks[j] = i

(* Reads get the body in the order in which the plugin asked, without gaps *)
(* or repetitions, whether they are served by the call itself, by          *)
(* NPP_Write or by NPP_DestroyStream.                                      *)
ReadsAreInOrder ==
  \A i \in Ops : Served(i) =>
    LET before == {j \in Ops : j < i /\ op[j].kind = "read" /\ op[j].gen = op[i].gen} IN
    /\ \A j \in before : Served(j) => op[j].from + op[j].n <= op[i].from
    /\ op[i].from = 0 \/ \E j \in before : Served(j) /\ op[j].from + op[j].n = op[i].from
    /\ op[i].gen = ul.gen => \A j \in Ops : j < i => ~Waiting(j)

(* No read is left waiting once loading is finished: those that come while *)
(* NPP_DestroyStream lets go of the loader are either in its list or see   *)
(* finished_loading.                                                       *)
NoReadIsStranded ==
  ul.alive /\ ul.finished_loading /\ bh.at = "idle" => ul.read_tasks = <<>>

InLoop(i) == Cardinality({j \in DOMAIN loop : loop[j].op = i})

(* A callback of a live loader is in one place: in the loader, with a      *)
(* handler, posted, or called.  NPP_NewStream and NPP_URLNotify take it    *)
(* out, each to "prevent callback from being called twice".                *)
CallbacksAreNeitherLostNorDoubled ==
  \A i \in Ops :
    LET places == Cardinality({x \in {1} : ul.ccb = i}) + Cardinality({x \in {1} : bh.ccb = i})
                  + Cardinality({j \in DOMAIN ul.read_tasks : ul.read_tasks[j] = i})
                  + InLoop(i) + op[i].called
    IN /\ places <= 1
       /\ ul.alive /\ op[i].state = "pending" /\ op[i].kind # "finish" => places = 1

(* Whoever opens a loader or follows a redirect learns of headers or of an *)
(* error.  A read that waits while a response comes in gets some of it, or *)
(* learns of its end; a redirect not yet followed is not such a response.  *)
EveryCallCompletes ==
  \A i \in Ops :
    IsOpen(i) \/ (Waiting(i) /\ ul.np_stream # NoStream /\ ~ul.redirect_url)
      ~> op[i].called > 0 \/ ~ul.alive

\* The body reaches the plugin in order and every read that can be served is.
BodyIsReadInOrder == TypeOK /\ ReadsAreInOrder /\ NoReadIsStranded

=============================================================================
