------------------------------ MODULE OpenGLES2 ------------------------------
(* The 3D contexts and the OpenGL ES calls on them.  Every entry point of     *)
(* ppb_opengles2.c takes the context's resource, takes display.lock, makes    *)
(* the context current, calls the driver and undoes the three: a few of them  *)
(* also keep the two process-wide tables of the shader translator.  The       *)
(* driver's own rules (GLX, share groups) are external.                       *)
EXTENDS Naturals, FiniteSets, TLC

CONSTANTS
  Ctxs,          \* the contexts that can be created
  GLPlugin,      \* the plugin's main thread, which makes the GL calls
  GLBrowser,     \* the browser's thread, which paints the bound context
  Shaders,       \* the driver's shader ids, the same ones in every share group
  GLSources,     \* shader bodies
  Mems,          \* blocks of memory for texture transfers
  Unshared,      \* whether contexts of two share groups live at a time
  LeavesCurrent  \* whether a resized context may be released before a further call on it

Nobody == "nobody"

ASSUME GLAssumption ==
  /\ GLPlugin # GLBrowser /\ Nobody \notin Ctxs \cup {GLPlugin, GLBrowser}
  /\ Unshared \in BOOLEAN /\ LeavesCurrent \in BOOLEAN
  /\ IsFiniteSet(Ctxs) /\ IsFiniteSet(Shaders)

GLThreads == {GLPlugin, GLBrowser}
ShaderTypes == {"vertex", "fragment"}
NoShader == [type |-> "none", body |-> Nobody, as |-> "none"]

VARIABLES
  g3d,        \* [Ctxs -> state, share group, references, holder of its lock]
  subMaps,    \* [Ctxs -> memory mapped for texture transfers] (g3d->sub_maps)
  current,    \* [thread -> the context current on it] (GLX)
  displayLock,\* the thread in display.lock
  glCall,     \* [thread -> the call it is in]
  driver,     \* [share group -> [shader id -> shader]] (the driver's objects)
  typeTable,  \* shader_type_ht
  sourceTable \* shader_source_ht

glVars == <<g3d, subMaps, current, displayLock, glCall, driver, typeTable, sourceTable>>
glTables == <<driver, typeTable, sourceTable>>

-----------------------------------------------------------------------------
(* The entry points in the order of the file, each of which is PROLOGUE, the driver's   *)
(* function of the same name on the arguments of the call, EPILOGUE.                   *)
BindAndBlendCalls ==
  {"ActiveTexture", "AttachShader", "BindAttribLocation", "BindBuffer",
   "BindFramebuffer", "BindRenderbuffer", "BindTexture", "BlendColor",
   "BlendEquation", "BlendEquationSeparate", "BlendFunc", "BlendFuncSeparate",
   "BufferData", "BufferSubData"}

ClearAndCopyCalls ==
  {"CheckFramebufferStatus", "Clear", "ClearColor", "ClearDepthf", "ClearStencil",
   "ColorMask", "CompileShader", "CompressedTexImage2D", "CompressedTexSubImage2D",
   "CopyTexImage2D", "CopyTexSubImage2D", "CreateProgram", "CreateShader"}

DeleteAndDepthCalls ==
  {"CullFace", "DeleteBuffers", "DeleteFramebuffers", "DeleteProgram",
   "DeleteRenderbuffers", "DeleteShader", "DeleteTextures", "DepthFunc",
   "DepthMask", "DepthRangef", "DetachShader", "Disable"}

DrawAndGenCalls ==
  {"DisableVertexAttribArray", "DrawArrays", "DrawElements", "Enable",
   "EnableVertexAttribArray", "Finish", "Flush", "FramebufferRenderbuffer",
   "FramebufferTexture2D", "FrontFace", "GenBuffers", "GenerateMipmap",
   "GenFramebuffers", "GenRenderbuffers", "GenTextures"}

GetCalls ==
  {"GetActiveAttrib", "GetActiveUniform", "GetAttachedShaders", "GetAttribLocation",
   "GetBooleanv", "GetBufferParameteriv", "GetError", "GetFloatv",
   "GetFramebufferAttachmentParameteriv", "GetIntegerv", "GetProgramiv",
   "GetProgramInfoLog", "GetRenderbufferParameteriv"}

GetShaderCalls ==
  {"GetShaderiv", "GetShaderInfoLog", "GetShaderPrecisionFormat", "GetShaderSource",
   "GetString", "GetTexParameterfv", "GetTexParameteriv", "GetUniformfv",
   "GetUniformiv", "GetUniformLocation", "GetVertexAttribfv", "GetVertexAttribiv",
   "GetVertexAttribPointerv"}

IsAndPixelCalls ==
  {"Hint", "IsBuffer", "IsEnabled", "IsFramebuffer", "IsProgram", "IsRenderbuffer",
   "IsShader", "IsTexture", "LineWidth", "LinkProgram", "PixelStorei",
   "PolygonOffset", "ReadPixels", "ReleaseShaderCompiler", "RenderbufferStorage",
   "SampleCoverage", "Scissor", "ShaderBinary"}

StencilAndTexCalls ==
  {"ShaderSource", "StencilFunc", "StencilFuncSeparate", "StencilMask",
   "StencilMaskSeparate", "StencilOp", "StencilOpSeparate", "TexImage2D",
   "TexParameterf", "TexParameterfv", "TexParameteri", "TexParameteriv",
   "TexSubImage2D"}

UniformCalls ==
  {"Uniform1f", "Uniform1fv", "Uniform1i", "Uniform1iv", "Uniform2f", "Uniform2fv",
   "Uniform2i", "Uniform2iv", "Uniform3f", "Uniform3fv", "Uniform3i", "Uniform3iv",
   "Uniform4f", "Uniform4fv", "Uniform4i", "Uniform4iv", "UniformMatrix2fv",
   "UniformMatrix3fv", "UniformMatrix4fv"}

VertexCalls ==
  {"UseProgram", "ValidateProgram", "VertexAttrib1f", "VertexAttrib1fv",
   "VertexAttrib2f", "VertexAttrib2fv", "VertexAttrib3f", "VertexAttrib3fv",
   "VertexAttrib4f", "VertexAttrib4fv", "VertexAttribPointer", "Viewport"}

\* The interface handed to the plugin: every entry point.
ppb_opengles2_interface ==
  BindAndBlendCalls \cup ClearAndCopyCalls \cup DeleteAndDepthCalls \cup DrawAndGenCalls \cup
  GetCalls \cup GetShaderCalls \cup IsAndPixelCalls \cup StencilAndTexCalls \cup
  UniformCalls \cup VertexCalls

\* Three of them also write the translator's tables; the others behave alike as far as the
\* wrapper goes (GetShaderiv and GetShaderSource read the tables).
TableCalls == {"CreateShader", "DeleteShader", "ShaderSource"}
KindOf(f) == IF f \in TableCalls THEN f ELSE "plain"
DriverCalls == {KindOf(f) : f \in ppb_opengles2_interface} \cup {"UnmapTexSubImage2D"}

-----------------------------------------------------------------------------
NoCall == [fn |-> "none", ctx |-> Nobody, step |-> "idle", share |-> Nobody]

GLInit ==
  /\ g3d = [c \in Ctxs |-> [state |-> "none", group |-> Nobody, held |-> FALSE,
                            user |-> Nobody, bound |-> FALSE]]
  /\ subMaps = [c \in Ctxs |-> {}]
  /\ current = [t \in GLThreads |-> Nobody]
  /\ displayLock = Nobody
  /\ glCall = [t \in GLThreads |-> NoCall]
  /\ driver = [g \in Ctxs |-> [s \in Shaders |-> NoShader]]
  /\ typeTable = [s \in Shaders |-> "none"]
  /\ sourceTable = [s \in Shaders |-> Nobody]

Live(c) == g3d[c].state = "live"
Idle(t) == glCall[t].step = "idle"

\* glXMakeCurrent: refused while the context is current on another thread.
MakeCurrent(t, c) ==
  IF \E u \in GLThreads \ {t} : current[u] = c
    THEN current
    ELSE [current EXCEPT ![t] = c]

\* peek_gl_context: the context to share objects with, none when it is not (or no longer)
\* a context.
peek_gl_context(share) == IF share # Nobody /\ Live(share) THEN share ELSE Nobody

\* ppb_graphics3d_create up to display.lock: look the share context up.
GraphicsCreateBegin(c, share) ==
  /\ Idle(GLPlugin) /\ g3d[c].state = "none"
  /\ Unshared \/ (IF share = Nobody THEN \A d \in Ctxs : ~Live(d) ELSE Live(share))
  /\ glCall' = [glCall EXCEPT ![GLPlugin] =
       [fn |-> "create", ctx |-> c, step |-> "lock", share |-> peek_gl_context(share)]]
  /\ UNCHANGED <<g3d, subMaps, current, displayLock, glTables>>

\* A context that a resize left current on the plugin's thread, and that no call has ended
\* since: LeavesCurrent is about it.
Resized(c) == [fn |-> "resized", ctx |-> c, step |-> "idle", share |-> Nobody]

\* The rest of ppb_graphics3d_create, all of it in display.lock: it makes the context and
\* its pixmaps, clears the surface and leaves nothing current.  Whatever fails, its own
\* glXMakeCurrent included, leaves what was current before; the resource is expunged, and
\* its destructor does not run.
GraphicsCreateEnd ==
  LET c == glCall[GLPlugin].ctx
      share == glCall[GLPlugin].share IN
  /\ glCall[GLPlugin].fn = "create" /\ displayLock = Nobody
  /\ \/ /\ g3d' = [g3d EXCEPT ![c] =
             [state |-> "live", held |-> TRUE, user |-> Nobody, bound |-> FALSE,
              group |-> IF share = Nobody THEN c ELSE g3d[share].group]]
        /\ current' = [current EXCEPT ![GLPlugin] = Nobody]
        /\ glCall' = [glCall EXCEPT ![GLPlugin] = NoCall]
     \/ /\ g3d' = [g3d EXCEPT ![c].state = "gone"]
        /\ glCall' = [glCall EXCEPT ![GLPlugin] =
             IF current[GLPlugin] = Nobody THEN NoCall ELSE Resized(current[GLPlugin])]
        /\ UNCHANGED current
  /\ UNCHANGED <<subMaps, displayLock, glTables>>

\* PROLOGUE up to the lock: acquire the context.  A resource that is no context ends the
\* call here with the entry point's neutral answer, which changes nothing.
Prologue(t, c, fn) ==
  /\ Idle(t) /\ Live(c) /\ g3d[c].user = Nobody
  /\ g3d' = [g3d EXCEPT ![c].user = t]
  /\ glCall' = [glCall EXCEPT ![t] = [NoCall EXCEPT !.fn = fn, !.ctx = c, !.step = "lock"]]
  /\ UNCHANGED <<subMaps, current, displayLock, glTables>>

\* PROLOGUE from the lock on.  Painting copies pixmaps and needs no context.
LockAndMakeCurrent(t) ==
  /\ glCall[t].step = "lock" /\ glCall[t].fn # "create" /\ displayLock = Nobody
  /\ displayLock' = t
  /\ current' = IF glCall[t].fn = "expose" THEN current ELSE MakeCurrent(t, glCall[t].ctx)
  /\ glCall' = [glCall EXCEPT ![t].step = "call"]
  /\ UNCHANGED <<g3d, subMaps, glTables>>

Referenced(c) == g3d[c].held \/ g3d[c].bound

Ended(call) == IF call.fn \in {"resize", "resized"} THEN Resized(call.ctx) ELSE NoCall

\* Dropping the last reference takes the context out of the resource table, and the thread
\* that dropped it runs the destructor.
AfterDrop(t, c, last) ==
  glCall' = [glCall EXCEPT ![t] =
    IF last THEN [NoCall EXCEPT !.fn = "destroy", !.ctx = c, !.step = "destroy"]
            ELSE Ended(@)]

\* Unlock and release: the context goes with the call if nobody refers to it any more.
UnlockAndRelease(t) ==
  LET c == glCall[t].ctx IN
  /\ displayLock' = Nobody
  /\ g3d' = [g3d EXCEPT ![c] =
       [@ EXCEPT !.user = Nobody, !.state = IF Referenced(c) THEN g3d[c].state ELSE "dying"]]
  /\ AfterDrop(t, c, ~Referenced(c))

\* Mutant: the context stays current on the thread.
EpilogueKeepsCurrent(t) == UnlockAndRelease(t) /\ UNCHANGED current

\* EPILOGUE.
Epilogue(t) == current' = [current EXCEPT ![t] = Nobody] /\ UnlockAndRelease(t)

InCall(t, fns) == glCall[t].step = "call" /\ glCall[t].fn \in fns

\* The objects a driver call of thread t works on: those of the context current on t.
GroupOf(t) == g3d[current[t]].group

\* glActiveTexture to glViewport and the queries: the tables stay.
PlainCall(t) ==
  /\ InCall(t, {"plain"})
  /\ Epilogue(t)
  /\ UNCHANGED <<subMaps, glTables>>

\* ppb_graphics3d_resize_buffers: the context is brought to this thread to let go of the old
\* pixmaps, and stays current on it.
ResizeBuffers(t) ==
  /\ InCall(t, {"resize"})
  /\ UnlockAndRelease(t)
  /\ UNCHANGED <<current, subMaps, glTables>>

\* The browser's thread has copied the pixmap to the page.
Expose(t) ==
  /\ InCall(t, {"expose"})
  /\ UnlockAndRelease(t)
  /\ UNCHANGED <<current, subMaps, glTables>>

CreateShader(t) ==
  /\ InCall(t, {"CreateShader"})
  /\ \E s \in Shaders, type \in ShaderTypes :
       /\ driver[GroupOf(t)][s] = NoShader
       /\ driver' = [driver EXCEPT ![GroupOf(t)][s] = [NoShader EXCEPT !.type = type]]
       /\ typeTable' = [typeTable EXCEPT ![s] = type]
  /\ Epilogue(t)
  /\ UNCHANGED <<subMaps, sourceTable>>

\* Both entries go, whatever the driver still does with the shader.
DeleteShader(t) ==
  /\ InCall(t, {"DeleteShader"})
  /\ \E s \in Shaders :
       /\ driver[GroupOf(t)][s] # NoShader
       /\ driver' = [driver EXCEPT ![GroupOf(t)][s] = NoShader]
       /\ sourceTable' = [sourceTable EXCEPT ![s] = Nobody]
       /\ typeTable' = [typeTable EXCEPT ![s] = "none"]
  /\ Epilogue(t)
  /\ UNCHANGED subMaps

\* Mutant: the body is not kept for GetShaderSource.
ShaderSourceForgets(t) ==
  /\ InCall(t, {"ShaderSource"})
  /\ \E s \in Shaders, b \in GLSources :
       /\ driver[GroupOf(t)][s] # NoShader
       /\ driver' = [driver EXCEPT ![GroupOf(t)][s] = [@ EXCEPT !.body = b, !.as = typeTable[s]]]
  /\ Epilogue(t)
  /\ UNCHANGED <<subMaps, typeTable, sourceTable>>

\* The body is kept as the plugin gave it; the driver gets it translated as a shader of
\* the type the table has for the id.
ShaderSource(t) ==
  /\ InCall(t, {"ShaderSource"})
  /\ \E s \in Shaders, b \in GLSources :
       /\ driver[GroupOf(t)][s] # NoShader
       /\ sourceTable' = [sourceTable EXCEPT ![s] = b]
       /\ driver' = [driver EXCEPT ![GroupOf(t)][s] = [@ EXCEPT !.body = b, !.as = typeTable[s]]]
  /\ Epilogue(t)
  /\ UNCHANGED <<subMaps, typeTable>>

\* MapTexSubImage2DCHROMIUM: a block of memory is remembered with the context; no lock.
\* The arguments the code refuses change nothing.
MapTexSubImage2D(c, mem) ==
  /\ Idle(GLPlugin) /\ Live(c) /\ g3d[c].user = Nobody
  /\ \A d \in Ctxs : mem \notin subMaps[d]
  /\ subMaps' = [subMaps EXCEPT ![c] = @ \cup {mem}]
  /\ UNCHANGED <<g3d, current, displayLock, glCall, glTables>>

\* UnmapTexSubImage2DCHROMIUM: the block is uploaded and freed; one that is not mapped in
\* this context is refused.
UnmapTexSubImage2D(t) ==
  /\ InCall(t, {"UnmapTexSubImage2D"})
  /\ \E mem \in Mems :
       subMaps' = [subMaps EXCEPT ![glCall[t].ctx] = @ \ {mem}]
  /\ Epilogue(t)
  /\ UNCHANGED glTables

\* The plugin releases the context, or binds another one, while nobody or the browser's
\* thread uses it.
DropReference(c, part) ==
  /\ Idle(GLPlugin) /\ Live(c) /\ g3d[c][part]
  /\ LeavesCurrent \/ ~(glCall[GLPlugin].fn = "resized" /\ glCall[GLPlugin].ctx = c)
  /\ LET last == ~(IF part = "held" THEN g3d[c].bound ELSE g3d[c].held)
                   /\ g3d[c].user = Nobody IN
     /\ g3d' = [g3d EXCEPT ![c] = [@ EXCEPT ![part] = FALSE, !.state = IF last THEN "dying" ELSE g3d[c].state]]
     /\ AfterDrop(GLPlugin, c, last)
  /\ UNCHANGED <<subMaps, current, displayLock, glTables>>

\* The part of BindGraphics this module needs: the instance refers to the context.
BindContext(c) ==
  /\ Idle(GLPlugin) /\ Live(c) /\ g3d[c].held /\ \A d \in Ctxs : ~g3d[d].bound
  /\ g3d' = [g3d EXCEPT ![c].bound = TRUE]
  /\ UNCHANGED <<subMaps, current, displayLock, glCall, glTables>>

\* ppb_graphics3d_destroy: bring the context to this thread, let go of it and destroy it.
\* The table of mapped blocks goes, the blocks do not.  The driver drops the objects of a
\* share group with its last context.
GraphicsDestroy(t) ==
  LET c == glCall[t].ctx IN
  /\ glCall[t].step = "destroy" /\ displayLock = Nobody
  /\ current' = [current EXCEPT ![t] = Nobody]
  /\ g3d' = [g3d EXCEPT ![c].state = "gone"]
  /\ subMaps' = [subMaps EXCEPT ![c] = {}]
  /\ driver' = IF \E d \in Ctxs \ {c} : Live(d) /\ g3d[d].group = g3d[c].group
                 THEN driver
                 ELSE [driver EXCEPT ![g3d[c].group] = [s \in Shaders |-> NoShader]]
  /\ glCall' = [glCall EXCEPT ![t] = NoCall]
  /\ UNCHANGED <<displayLock, typeTable, sourceTable>>

-----------------------------------------------------------------------------
GLStep(t) ==
  \/ LockAndMakeCurrent(t) \/ PlainCall(t) \/ CreateShader(t) \/ DeleteShader(t)
  \/ ShaderSource(t) \/ UnmapTexSubImage2D(t) \/ GraphicsDestroy(t)
  \/ ResizeBuffers(t) \/ Expose(t) \/ (t = GLPlugin /\ GraphicsCreateEnd)

\* A driver call with nothing to work on (no shader, no free id) is not made.
CanCall(c, fn) ==
  CASE fn = "CreateShader" -> \E s \in Shaders : driver[g3d[c].group][s] = NoShader
    [] fn \in {"DeleteShader", "ShaderSource"} ->
         \E s \in Shaders : driver[g3d[c].group][s] # NoShader
    [] OTHER -> TRUE

GLNext ==
  \/ \E c \in Ctxs, share \in Ctxs \cup {Nobody} : GraphicsCreateBegin(c, share)
  \/ \E c \in Ctxs, fn \in DriverCalls \cup {"resize"} :
       Live(c) /\ CanCall(c, fn) /\ Prologue(GLPlugin, c, fn)
  \/ \E c \in Ctxs : g3d[c].bound /\ Prologue(GLBrowser, c, "expose")
  \/ \E c \in Ctxs, mem \in Mems : MapTexSubImage2D(c, mem)
  \/ \E c \in Ctxs, part \in {"held", "bound"} : DropReference(c, part)
  \/ \E c \in Ctxs : BindContext(c)
  \/ \E t \in GLThreads : GLStep(t)

\* Threads run on, and one that waits for display.lock gets it if it is free again and again.
GLFairness == \A t \in GLThreads : SF_glVars(GLStep(t))

GLSpec == GLInit /\ [][GLNext]_glVars /\ GLFairness

-----------------------------------------------------------------------------
\* A driver call runs with its own context current on its thread and display.lock held, so
\* it changes that context (PROLOGUE, ppb_opengles2.c:47); a destroyed context is current
\* nowhere, whichever thread dropped the last reference.
CallsHaveTheirContext ==
  /\ \A t \in GLThreads : glCall[t].step = "call" =>
       /\ displayLock = t
       /\ glCall[t].fn # "expose" => current[t] = glCall[t].ctx
  /\ \A t \in GLThreads : current[t] # Nobody => Live(current[t])

\* Between calls the translator's tables speak of the shaders of the live contexts: each has its type in
\* shader_type_ht, was translated as a shader of that type, and its body as the plugin gave it
\* is in shader_source_ht (CreateShader, ShaderSource and DeleteShader keep them in step).
ShaderTablesAgree ==
  \A g \in Ctxs, s \in Shaders :
    LET sh == driver[g][s] IN
    sh # NoShader /\ (\E c \in Ctxs : Live(c) /\ g3d[c].group = g) =>
      /\ typeTable[s] = sh.type
      /\ sh.body # Nobody => sh.as = sh.type /\ sourceTable[s] = sh.body

\* Every entry point works on the context it names, and on shaders as the plugin gave them.
GLCallsAreIsolated == CallsHaveTheirContext /\ ShaderTablesAgree

\* A GL call, a creation and a destruction end: nobody waits for display.lock forever.
GLCallsReturn == \A t \in GLThreads : (~Idle(t)) ~> Idle(t)
=============================================================================
