-------------------------------- MODULE Files --------------------------------
(* File references and what is done with them: the file chooser and a finished *)
(* download make them, FileIO opens them, and a request's body is read from    *)
(* them when it is posted, by the browser's thread while the plugin waits.     *)
EXTENDS Integers, Sequences, FiniteSets, SequencesExt

CONSTANTS
  Refs,          \* file reference resources
  Fds,           \* bound: the descriptors there are
  FileDialogs,   \* calls of the chooser's Show
  MaxSize,       \* bound on the size of a file
  MaxBodyItems,  \* bound on the parts of a request's body and the loader's, when one is added
  MaxVersion,    \* bound on the changes of the file
  PlainUploads,  \* the plugin posts files by name, from their start and no more of them
                 \* than there is, and nobody changes them meanwhile
  OpensOnce      \* the plugin opens a FileIO once

ASSUME FilesAssumption ==
  /\ MaxSize \in Nat /\ MaxBodyItems \in Nat /\ MaxVersion \in Nat
  /\ PlainUploads \in BOOLEAN /\ OpensOnce \in BOOLEAN
  /\ IsFiniteSet(Refs) /\ Fds \subseteq Nat /\ IsFiniteSet(FileDialogs)

NoFd == -1
NoRef == "no_ref"
Failed == -1           \* (size_t)-1
Huge == MaxSize + 1    \* what (size_t)-1 is to a loop that reads so many bytes

VARIABLES
  files,        \* [refs : [Refs -> type, fd and count], open : descriptors in use]
  heldRefs,     \* references the plugin holds
  loaderFd,     \* ul->fd: the file a download went to
  fio,          \* a FileIO resource: [live, fd]
  onDisk,       \* the file behind the references: [size, version]
  requestBody,  \* ri->post_data
  loaderBody,   \* ul->post_data
  upload,       \* NPN_PostURL in the making, on the browser's thread; cut: history, the parts
                \* whose file could not be opened or read
  chooser,      \* [held, count]: the chooser resource
  dialogs       \* [FileDialogs -> "none", "posted", "up" or "answered"]

fileVars == <<files, heldRefs, loaderFd, fio, onDisk, requestBody, loaderBody, upload,
              chooser, dialogs>>

NoUpload == [step |-> "idle", announced |-> 0, item |-> 0, fd |-> NoFd, pos |-> 0, left |-> 0,
             sent |-> <<>>, cut |-> {}]
NewRef(type, fd) == [type |-> type, fd |-> fd, count |-> 1]

FilesInit ==
  /\ files = [refs |-> [r \in Refs |-> [NewRef("none", NoFd) EXCEPT !.count = 0]], open |-> {}]
  /\ heldRefs = {} /\ loaderFd = NoFd /\ fio = [live |-> TRUE, fd |-> NoFd]
  /\ onDisk \in [size : 0..MaxSize, version : {1}]
  /\ requestBody = <<>> /\ loaderBody = <<>> /\ upload = NoUpload
  /\ chooser = [held |-> TRUE, count |-> 1]
  /\ dialogs = [d \in FileDialogs |-> "none"]

\* What open or dup returns: the lowest descriptor that is free, if there is one.
NewFds == LET free == Fds \ files.open IN {fd \in free : \A other \in free : fd <= other}

-----------------------------------------------------------------------------
\* ppb_file_ref_destroy, when the last reference goes.
Unref(f, r) ==
  LET ref == f.refs[r] IN
  IF ref.count > 1 THEN [f EXCEPT !.refs[r].count = @ - 1]
  ELSE [refs |-> [f.refs EXCEPT ![r] = [NewRef("gone", NoFd) EXCEPT !.count = 0]],
        open |-> IF ref.type = "fd" THEN f.open \ {ref.fd} ELSE f.open]

post_data_free(f, items) ==
  FoldLeft(LAMBDA g, i : IF i.ref = NoRef THEN g ELSE Unref(g, i.ref), f, items)

\* Mutant: the copy is made without references of its own.
DuplicateUncounted(f, items) == f

\* post_data_duplicate: the items' references are counted again.
post_data_duplicate(f, items) ==
  FoldLeft(LAMBDA g, i : IF i.ref = NoRef THEN g ELSE [g EXCEPT !.refs[i.ref].count = @ + 1],
           f, items)

\* ppb_url_response_info_get_body_as_file_ref: a descriptor of its own for the download.
GetBodyAsFileRef(r) ==
  /\ files.refs[r].type = "none" /\ upload.step = "idle"
  /\ \E fd \in IF loaderFd = NoFd \/ NewFds = {} THEN {NoFd} ELSE NewFds :
       files' = [refs |-> [files.refs EXCEPT ![r] = NewRef("fd", fd)],
                 open |-> files.open \cup ({fd} \ {NoFd})]
  /\ heldRefs' = heldRefs \cup {r}
  /\ UNCHANGED <<loaderFd, fio, onDisk, requestBody, loaderBody, upload, chooser, dialogs>>

\* The plugin releases a reference.
ReleaseRef(r) ==
  /\ r \in heldRefs /\ upload.step = "idle"
  /\ files' = Unref(files, r) /\ heldRefs' = heldRefs \ {r}
  /\ UNCHANGED <<loaderFd, fio, onDisk, requestBody, loaderBody, upload, chooser, dialogs>>

-----------------------------------------------------------------------------
\* ppb_file_io_open: a duplicate of the descriptor, at the start of the file; the descriptor
\* of an earlier open is overwritten.  A reference by name is not implemented.
IoOpen(r) ==
  /\ r \in heldRefs /\ upload.step = "idle"
  /\ fio.live /\ files.refs[r].type = "fd"
  /\ OpensOnce => fio.fd = NoFd
  /\ \E fd \in IF files.refs[r].fd = NoFd \/ NewFds = {} THEN {NoFd} ELSE NewFds :
       /\ fio' = [fio EXCEPT !.fd = fd]
       /\ files' = [files EXCEPT !.open = @ \cup ({fd} \ {NoFd})]
  /\ UNCHANGED <<heldRefs, loaderFd, onDisk, requestBody, loaderBody, upload, chooser, dialogs>>

\* ppb_file_io_destroy; ppb_file_io_close does nothing.
IoDestroy ==
  /\ fio.live /\ upload.step = "idle"
  /\ fio' = [live |-> FALSE, fd |-> NoFd]
  /\ files' = [files EXCEPT !.open = @ \ {fio.fd}]
  /\ UNCHANGED <<heldRefs, loaderFd, onDisk, requestBody, loaderBody, upload, chooser, dialogs>>

-----------------------------------------------------------------------------
\* The chooser's Show keeps the chooser until the dialog is answered.
ChooserShow(d) ==
  /\ dialogs[d] = "none" /\ chooser.held /\ upload.step = "idle"
  /\ chooser' = [chooser EXCEPT !.count = @ + 1]
  /\ dialogs' = [dialogs EXCEPT ![d] = "posted"]
  /\ UNCHANGED <<files, heldRefs, loaderFd, fio, onDisk, requestBody, loaderBody, upload>>

\* show_without_user_guesture_ptac.
DialogUp(d) ==
  /\ dialogs[d] = "posted" /\ upload.step = "idle"
  /\ dialogs' = [dialogs EXCEPT ![d] = "up"]
  /\ UNCHANGED <<files, heldRefs, loaderFd, fio, onDisk, requestBody, loaderBody, upload,
                 chooser>>

\* fcd_response_handler: the files chosen become references by name, the callback is posted
\* and the chooser let go.
fcd_response_handler(d) ==
  /\ dialogs[d] = "up" /\ upload.step = "idle"
  /\ dialogs' = [dialogs EXCEPT ![d] = "answered"]
  /\ chooser' = [chooser EXCEPT !.count = @ - 1]
  /\ \E chosen \in SUBSET {r \in Refs : files.refs[r].type = "none"} :
       /\ Cardinality(chosen) <= 1
       /\ files' = [files EXCEPT !.refs =
            [r \in Refs |-> IF r \in chosen THEN NewRef("name", NoFd) ELSE @[r]]]
       /\ heldRefs' = heldRefs \cup chosen
  /\ UNCHANGED <<loaderFd, fio, onDisk, requestBody, loaderBody, upload>>

ChooserRelease ==
  /\ chooser.held /\ upload.step = "idle"
  /\ chooser' = [held |-> FALSE, count |-> chooser.count - 1]
  /\ UNCHANGED <<files, heldRefs, loaderFd, fio, onDisk, requestBody, loaderBody, upload,
                 dialogs>>

-----------------------------------------------------------------------------
HasRoomForPart == Len(requestBody) + Len(loaderBody) < MaxBodyItems

\* ppb_url_request_info_append_file_to_body: a part of the file from an offset on, all the
\* rest of it for a negative count; only while it is the version asked for, if one is.
AppendFile(r, from, count, version) ==
  /\ r \in heldRefs /\ upload.step = "idle" /\ HasRoomForPart
  /\ PlainUploads => (files.refs[r].type = "name" \/ count = 0) /\ from = 0 /\ count <= onDisk.size
  /\ requestBody' = Append(requestBody,
       [ref |-> r, from |-> from, count |-> count, version |-> version])
  /\ files' = [files EXCEPT !.refs[r].count = @ + 1]
  /\ UNCHANGED <<heldRefs, loaderFd, fio, onDisk, loaderBody, upload, chooser, dialogs>>

\* ppb_url_request_info_append_data_to_body; the data counts as one byte.
AppendData ==
  /\ upload.step = "idle" /\ HasRoomForPart
  /\ requestBody' = Append(requestBody, [ref |-> NoRef, from |-> 0, count |-> 1, version |-> 0])
  /\ UNCHANGED <<files, heldRefs, loaderFd, fio, onDisk, loaderBody, upload, chooser, dialogs>>

\* ppb_url_request_info_destroy, and the plugin makes another request.
RequestDestroy ==
  /\ requestBody # <<>> /\ upload.step = "idle"
  /\ files' = post_data_free(files, requestBody) /\ requestBody' = <<>>
  /\ UNCHANGED <<heldRefs, loaderFd, fio, onDisk, loaderBody, upload, chooser, dialogs>>

\* The loader's file is closed and its body freed: FollowRedirect, Close, or the destructor.
LoaderCloses ==
  /\ upload.step = "idle" /\ (loaderFd # NoFd \/ loaderBody # <<>>)
  /\ files' = LET f == post_data_free(files, loaderBody) IN [f EXCEPT !.open = @ \ {loaderFd}]
  /\ loaderFd' = NoFd /\ loaderBody' = <<>>
  /\ UNCHANGED <<heldRefs, fio, onDisk, requestBody, upload, chooser, dialogs>>

\* ppb_url_loader_open: the loader takes a copy of the body, opens a file for the answer, and
\* the browser's thread starts to post it.
LoaderOpen(fd) ==
  /\ upload.step = "idle" /\ loaderFd = NoFd
  /\ loaderFd' = fd
  /\ files' = LET f == post_data_duplicate(post_data_free(files, loaderBody), requestBody) IN
              [f EXCEPT !.open = @ \cup {fd}]
  /\ loaderBody' = requestBody
  /\ upload' = [NoUpload EXCEPT !.step = "length"]
  /\ UNCHANGED <<heldRefs, fio, onDisk, requestBody, chooser, dialogs>>

\* Mutant: the part reaches to the end of the file whatever count is asked for.
ItemLengthToEnd(i) ==
  IF i.ref = NoRef THEN i.count
  ELSE IF onDisk.size <= i.from THEN 0 ELSE onDisk.size - i.from

\* post_data_get_item_length, for a file whose status can be had.
ItemLength(i) ==
  CASE i.ref = NoRef -> i.count
    [] i.ref # NoRef /\ i.version \notin {0, onDisk.version} -> Failed
    [] i.ref # NoRef /\ i.version \in {0, onDisk.version} ->
         IF i.count >= 0 THEN i.count
         ELSE IF onDisk.size <= i.from THEN 0 ELSE onDisk.size - i.from

\* post_data_get_all_item_length, and the Content-Length header; nothing is posted when the
\* length of one part is not known.
UploadLength ==
  LET lengths == [k \in 1..Len(loaderBody) |-> ItemLength(loaderBody[k])] IN
  /\ upload.step = "length"
  /\ \/ /\ Failed \in Range(lengths) \/ \E k \in 1..Len(loaderBody) : loaderBody[k].ref # NoRef
        /\ upload' = NoUpload
     \/ /\ Failed \notin Range(lengths)
        /\ upload' = [upload EXCEPT !.step = "item", !.item = 1,
                                    !.announced = FoldLeft(LAMBDA n, l : n + l, 0, lengths)]
  /\ UNCHANGED <<files, heldRefs, loaderFd, fio, onDisk, requestBody, loaderBody, chooser,
                 dialogs>>

\* post_data_write_to_gstring for the next item.  Data is there; a file is opened by its name,
\* from its start.  One without a name, or that cannot be opened, is skipped.
UploadItem ==
  LET i == loaderBody[upload.item] IN
  /\ upload.step = "item" /\ upload.item <= Len(loaderBody)
  /\ \/ /\ i.ref = NoRef
        /\ upload' = [upload EXCEPT !.item = @ + 1, !.sent = Append(@, <<upload.item, 0>>)]
        /\ UNCHANGED files
     \/ /\ i.ref # NoRef /\ files.refs[i.ref].type # "name"
        /\ upload' = [upload EXCEPT !.item = @ + 1] /\ UNCHANGED files
     \/ /\ i.ref # NoRef /\ files.refs[i.ref].type = "name"
        /\ upload' = [upload EXCEPT !.item = @ + 1, !.cut = @ \cup {upload.item}]
        /\ UNCHANGED files
     \/ /\ i.ref # NoRef /\ files.refs[i.ref].type = "name"
        /\ \E fd \in NewFds, unknown \in {FALSE, ~PlainUploads} :
             /\ files' = [files EXCEPT !.open = @ \cup {fd}]
             /\ upload' = [upload EXCEPT !.step = "read", !.fd = fd, !.pos = 0,
                             !.left = IF unknown \/ ItemLength(i) = Failed THEN Huge
                                      ELSE ItemLength(i)]
  /\ UNCHANGED <<heldRefs, loaderFd, fio, onDisk, requestBody, loaderBody, chooser, dialogs>>

\* Its loop: a read, which at the end of the file gives nothing and is tried again; its end;
\* an error, which ends the item.
UploadRead ==
  LET closed == [upload EXCEPT !.step = "item", !.item = @ + 1, !.fd = NoFd] IN
  /\ upload.step = "read"
  /\ \/ /\ upload.left > 0
        /\ upload' = IF upload.pos >= onDisk.size THEN upload
                     ELSE [upload EXCEPT !.left = @ - 1, !.pos = @ + 1,
                                         !.sent = Append(@, <<upload.item, upload.pos>>)]
        /\ UNCHANGED files
     \/ /\ \/ upload.left = 0 /\ upload' = closed
           \/ upload.left > 0 /\ upload' = [closed EXCEPT !.cut = @ \cup {upload.item}]
        /\ files' = [files EXCEPT !.open = @ \ {upload.fd}]
  /\ UNCHANGED <<heldRefs, loaderFd, fio, onDisk, requestBody, loaderBody, chooser, dialogs>>

\* NPN_PostURL, and the plugin's thread goes on.
UploadPosted ==
  /\ upload.step = "item" /\ upload.item > Len(loaderBody)
  /\ upload' = [upload EXCEPT !.step = "posted"]
  /\ UNCHANGED <<files, heldRefs, loaderFd, fio, onDisk, requestBody, loaderBody, chooser,
                 dialogs>>
UploadReturns ==
  /\ upload.step = "posted" /\ upload' = NoUpload
  /\ UNCHANGED <<files, heldRefs, loaderFd, fio, onDisk, requestBody, loaderBody, chooser,
                 dialogs>>

\* Somebody writes to the file.
FileChanges ==
  /\ onDisk.version < MaxVersion
  /\ PlainUploads => /\ upload.step = "idle"
                     /\ \A k \in 1..Len(requestBody) :
                          requestBody[k].ref # NoRef =>
                            requestBody[k].count < 0 \/ requestBody[k].version # 0
  /\ onDisk' \in [size : 0..MaxSize, version : {onDisk.version + 1}]
  /\ UNCHANGED <<files, heldRefs, loaderFd, fio, requestBody, loaderBody, upload, chooser,
                 dialogs>>

UploadStep == UploadLength \/ UploadItem \/ UploadRead \/ UploadPosted \/ UploadReturns

FilesNext ==
  \/ \E r \in Refs : GetBodyAsFileRef(r) \/ ReleaseRef(r) \/ IoOpen(r)
  \/ \E r \in Refs, from \in 0..MaxSize, count \in -1..MaxSize, version \in {0, onDisk.version} :
       AppendFile(r, from, count, version)
  \/ IoDestroy \/ AppendData \/ RequestDestroy \/ LoaderCloses
  \/ \E fd \in NewFds : LoaderOpen(fd)
  \/ \E d \in FileDialogs : ChooserShow(d) \/ DialogUp(d) \/ fcd_response_handler(d)
  \/ ChooserRelease \/ FileChanges \/ UploadStep

\* The browser's thread goes on.
FilesFairness == WF_fileVars(UploadStep)

-----------------------------------------------------------------------------
\* The bytes of a part that the plugin asked for.
WantedOf(k) ==
  LET i == loaderBody[k]
      count == IF i.count >= 0 THEN i.count
               ELSE IF onDisk.size <= i.from THEN 0 ELSE onDisk.size - i.from
  IN  [j \in 1..count |-> <<k, i.from + j - 1>>]

SentOf(k) == SelectSeq(upload.sent, LAMBDA byte : byte[1] = k)

FdHolders == Refs \cup {"io", "loader", "upload"}
FdOf(h) == CASE h \in Refs -> files.refs[h].fd [] h = "io" -> fio.fd
             [] h = "loader" -> loaderFd [] h = "upload" -> upload.fd

\* Every open descriptor has one owner that will close it and no owner has one that is
\* closed, so none is closed twice, which would close the file of whoever got it next.
DescriptorsAreOwned ==
  /\ {FdOf(h) : h \in FdHolders} \ {NoFd} = files.open
  /\ \A g, h \in FdHolders : g # h /\ FdOf(g) # NoFd => FdOf(g) # FdOf(h)

Uses(items, r) == Cardinality({k \in 1..Len(items) : items[k].ref = r})

\* A reference is there as long as the plugin, a request or a loader has it, and the chooser
\* as long as a dialog will answer it (post_data_duplicate, post_data_free).
FileRefsAreExact ==
  /\ \A r \in Refs :
       files.refs[r].count = (IF r \in heldRefs THEN 1 ELSE 0)
                             + Uses(requestBody, r) + Uses(loaderBody, r)
  /\ chooser.count = (IF chooser.held THEN 1 ELSE 0)
                     + Cardinality({d \in FileDialogs : dialogs[d] \in {"posted", "up"}})

\* What is posted is what the plugin put together, part after part.  A part whose file could
\* not be opened or read is cut short and costs the others nothing (the comment "some error,
\* skipping this one" at ppb_url_request_info.c:376), and unless there is one the body is as
\* long as the header says.
BodyIsComplete ==
  upload.step = "posted" =>
    /\ \A k \in 1..Len(loaderBody) :
         /\ IsPrefix(SentOf(k), WantedOf(k))
         /\ SentOf(k) = WantedOf(k) \/ k \in upload.cut
    /\ \A m, n \in 1..Len(upload.sent) : m < n => upload.sent[m][1] <= upload.sent[n][1]
    /\ Len(upload.sent) = upload.announced \/ upload.cut # {}

FilesAreSound == DescriptorsAreOwned /\ FileRefsAreExact /\ BodyIsComplete

\* Posting a request's body ends.
UploadEnds == upload.step # "idle" ~> upload.step = "idle"
=============================================================================
