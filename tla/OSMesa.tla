------------------------------- MODULE OSMesa -------------------------------
(***************************************************************************)
(* The OSMesa frontend (osmesa.c): contexts, the list of osmesa_buffers     *)
(* they share, and the copy of the driver's color buffer into the memory of *)
(* the application on every flush, with the part of the state tracker       *)
(* (st_manager.c, _mesa_make_current) that stands between the two.          *)
(*                                                                          *)
(* An osmesa_buffer is found by its formats and size and is created when    *)
(* there is none, so it is named by them: a key.  BufferList has no lock;   *)
(* the model lets the calls of the application follow one another, from     *)
(* any thread.  The front-left color attachment stands for the attachments, *)
(* a picture for what the color buffer holds.  How the rows are laid out in *)
(* memory (OSMesaPixelStore) and postprocessing are left out, and so are    *)
(* allocations that fail: a resource_create that returns NULL and a         *)
(* framebuffer that cannot be created.                                      *)
(***************************************************************************)
EXTENDS Integers, FiniteSets

CONSTANTS
  Threads,
  Contexts,       \* OSMesaContexts, each with its st_context
  NoContext,      \* NULL
  Attribs,        \* attribute lists: [format, depthBits, stencilBits, accumBits]
  Types,          \* GL types of pixel components
  Sizes,          \* sizes of image buffers
  Mems,           \* blocks of memory of the application
  Pictures,       \* what can be drawn
  Blank,          \* a color buffer, or a block of memory, nobody has drawn to
  MaxTextures     \* bound of the model: resources the screen creates

ASSUME NamesAssumption == NoContext \notin Contexts /\ Blank \notin Pictures
ASSUME TexturesAssumption == MaxTextures \in Nat

NoBuffer == <<>>
NoTexture == 0

\* osmesa_choose_format, on a little-endian machine.
ChooseFormat(format, type) ==
  CASE format \in {"RGBA", "BGRA", "ARGB"} /\ type = "UNSIGNED_BYTE" ->
         [RGBA |-> "R8G8B8A8", BGRA |-> "B8G8R8A8", ARGB |-> "A8R8G8B8"][format]
    [] format \in {"RGBA", "BGRA", "ARGB"} /\ type = "UNSIGNED_SHORT" -> "R16G16B16A16"
    [] format \in {"RGBA", "BGRA", "ARGB"} /\ type = "FLOAT" -> "R32G32B32A32"
    [] format = "RGB" /\ type = "UNSIGNED_BYTE" -> "R8G8B8"
    [] format = "RGB" /\ type = "UNSIGNED_SHORT" -> "R16G16B16"
    [] format = "RGB" /\ type = "FLOAT" -> "R32G32B32"
    [] format = "RGB_565" /\ type = "UNSIGNED_SHORT_5_6_5" -> "B5G6R5"
    [] OTHER -> "NONE"

\* The depth/stencil and the accumulation format of a context.
DepthStencilFormat(a) ==
  CASE a.depthBits > 0 /\ a.stencilBits > 0 -> "Z24_S8"
    [] a.depthBits <= 0 /\ a.stencilBits > 0 -> "S8"
    [] a.depthBits >= 24 /\ a.stencilBits <= 0 -> "Z24X8"
    [] a.depthBits \in 16 .. 23 /\ a.stencilBits <= 0 -> "Z16"
    [] OTHER -> "NONE"

AccumFormat(a) == IF a.accumBits > 0 THEN "R16G16B16A16_SNORM" ELSE "NONE"

\* What osmesa_find_buffer compares.
Key(a, type, size) ==
  <<ChooseFormat(a.format, type), DepthStencilFormat(a), AccumFormat(a), size>>

Keys == {Key(a, ty, sz) : a \in Attribs, ty \in Types, sz \in Sizes}

VARIABLES
  status,      \* of a context: "none", "alive" or "freed" (OSMesaDestroyContext)
  attribs,     \* of a context
  current,     \* of a thread: the current context
  BufferList,  \* the keys of the buffers in the list
  map,         \* of a buffer: osbuffer->map
  textures,    \* of a buffer: osbuffer->textures[ST_ATTACHMENT_FRONT_LEFT]
  strb,        \* of a context and a buffer: the texture of the renderbuffer in the
               \* context's st_framebuffer, NoTexture while there is none
  defined,     \* of a context and a buffer: strb->defined
  dirty,       \* of a context: ST_NEW_FB_STATE in st->dirty
  draw,        \* of a context: ctx->DrawBuffer
  made,        \* resources created, they are numbered
  content,     \* of a resource: the picture in it
  mem,         \* of a block of memory: the picture in it
  given,       \* history: the memory in the context's last OSMesaMakeCurrent
  pending,     \* history: <<c, k>> when c has drawn to k since its last flush with k
  risky,       \* history: contexts destroyed with a drawing pending, or drawing when freed
  freed_use    \* history: contexts whose freed OSMesaContext a flush looked into

vars == <<status, attribs, current, BufferList, map, textures, strb, defined,
          dirty, draw, made, content, mem, given, pending, risky, freed_use>>

Init ==
  /\ status = [c \in Contexts |-> "none"]
  /\ attribs \in [Contexts -> Attribs]
  /\ current = [t \in Threads |-> NoContext]
  /\ BufferList = {}
  /\ map = [k \in Keys |-> Blank] /\ textures = [k \in Keys |-> NoTexture]
  /\ strb = [c \in Contexts |-> [k \in Keys |-> NoTexture]]
  /\ defined = [c \in Contexts |-> [k \in Keys |-> FALSE]]
  /\ dirty = [c \in Contexts |-> FALSE]
  /\ draw = [c \in Contexts |-> NoBuffer]
  /\ made = 0 /\ content = [x \in 1 .. MaxTextures |-> Blank]
  /\ mem = [m \in Mems |-> Blank]
  /\ given = [c \in Contexts |-> Blank]
  /\ pending = {} /\ risky = {} /\ freed_use = {}

-----------------------------------------------------------------------------
\* OSMesaCreateContextAttribs, when the arguments are legal and the state tracker
\* can create its context.  Anything else returns NULL and changes nothing.
CreateContext(c) ==
  /\ status[c] = "none"
  /\ status' = [status EXCEPT ![c] = "alive"]
  /\ UNCHANGED <<attribs, current, BufferList, map, textures, strb, defined, dirty,
                 draw, made, content, mem, given, pending, risky, freed_use>>

\* What is left of the state tracker's framebuffers of a destroyed context: they
\* stay, "because [...] the osbuffer is still in the BufferLizt".
SurvivingNone(c) == [strb EXCEPT ![c] = [k \in Keys |-> NoTexture]]
Surviving(c) == strb

\* The contexts at risk when c is destroyed or draws.
AtRisk(c, danger) == IF danger THEN risky \cup {c} ELSE risky

\* OSMesaDestroyContext.  The context may be current, with drawings not flushed: the
\* state tracker's context stays and points to the freed OSMesaContext.
DestroyContext(c) ==
  /\ status[c] = "alive"
  /\ status' = [status EXCEPT ![c] = "freed"]
  /\ strb' = Surviving(c)
  /\ risky' = AtRisk(c, <<c, draw[c]>> \in pending)
  /\ UNCHANGED <<attribs, current, BufferList, map, textures, defined, dirty, draw,
                 made, content, mem, given, pending, freed_use>>

-----------------------------------------------------------------------------
(***************************************************************************)
(* Flushing                                                                 *)
(***************************************************************************)

\* What the copy makes of the resource: its picture, and anything when pp, the row
\* length and y_up are those in a freed OSMesaContext.
Copied(c, tx, ct) ==
  IF status[c] = "freed" THEN Pictures \cup {Blank} ELSE {ct[tx[draw[c]]]}

\* osmesa_st_framebuffer_flush_front: the resource is copied to the user's
\* buffer, as the OSMesaContext of the current context says.
FlushFront(c, mp, tx, ct) ==
  /\ \E x \in Copied(c, tx, ct) : mem' = [mem EXCEPT ![mp[draw[c]]] = x]
  /\ freed_use' = IF status[c] = "freed" THEN freed_use \cup {c} ELSE freed_use

\* st_manager_flush_frontbuffer: is there a front buffer, drawn to since the last
\* flush?
MustFlushAlways(c) == draw[c] # NoBuffer
MustFlush(c) == draw[c] # NoBuffer /\ defined[c][draw[c]]

\* "Trigger an update of strb->defined on next draw".
DirtyAfterFlushSame(c) == dirty
DirtyAfterFlush(c) == [dirty EXCEPT ![c] = @ \/ MustFlush(c)]

\* _mesa_flush of context c, with the osbuffers as mp, tx and ct say.
FlushContext(c, mp, tx, ct) ==
  /\ IF MustFlush(c)
     THEN /\ FlushFront(c, mp, tx, ct)
          /\ defined' = [defined EXCEPT ![c][draw[c]] = FALSE]
     ELSE UNCHANGED <<mem, defined, freed_use>>
  /\ pending' = pending \ {<<c, draw[c]>>}

\* glFlush and glFinish.
Flush(t) ==
  LET c == current[t] IN
  /\ c # NoContext
  /\ FlushContext(c, map, textures, content)
  /\ dirty' = DirtyAfterFlush(c)
  /\ UNCHANGED <<status, attribs, current, BufferList, map, textures, strb, draw,
                 made, content, given, risky>>

\* A draw call: st_validate_state looks at the framebuffer again when it is dirty
\* (update_framebuffer_state), then the driver draws, whether or not the OSMesaContext
\* is still there.
Draw(t, p) ==
  LET c == current[t] IN
  /\ c # NoContext
  /\ defined' = [defined EXCEPT ![c][draw[c]] = @ \/ dirty[c]]
  /\ dirty' = [dirty EXCEPT ![c] = FALSE]
  /\ content' = [content EXCEPT ![strb[c][draw[c]]] = p]
  /\ pending' = pending \cup {<<c, draw[c]>>}
  /\ risky' = AtRisk(c, status[c] = "freed")
  /\ UNCHANGED <<status, attribs, current, BufferList, map, textures, strb, draw,
                 made, mem, given, freed_use>>

-----------------------------------------------------------------------------
(***************************************************************************)
(* OSMesaMakeCurrent                                                        *)
(***************************************************************************)

\* st_framebuffer_reuse_or_create and st_framebuffer_validate: has the context a
\* framebuffer for this buffer, with the iface_stamp it had at its validation?
\* The stamp of an osmesa_buffer never changes.
NeedsValidation(c, k) == strb[c][k] = NoTexture

\* osmesa_st_framebuffer_validate, for a framebuffer that needs it: the textures, with
\* a new resource in the buffer.
Validated(c, k) ==
  IF NeedsValidation(c, k) THEN [textures EXCEPT ![k] = made + 1] ELSE textures

\* Is there a pipe format for what the context and the caller ask for?
Supported(c, type) == ChooseFormat(attribs[c].format, type) # "NONE"

\* `osbuffer->map = buffer', for a buffer found as for a new one.
BoundOnce(k, m) == IF k \in BufferList THEN map ELSE [map EXCEPT ![k] = m]
Bound(k, m) == [map EXCEPT ![k] = m]

\* OSMesaMakeCurrent(c, m, type, size); it is refused, and changes nothing, when
\* the format is not supported.  The map of the buffer is set and its texture created
\* before the state tracker flushes the context that has been current.
MakeCurrent(t, c, m, type, size) ==
  LET k == Key(attribs[c], type, size)
      d == current[t]
      new == made + 1
      mp == Bound(k, m)
      tx == Validated(c, k)
  IN
  /\ status[c] = "alive" /\ \A u \in Threads \ {t} : current[u] # c
  /\ Supported(c, type)
  /\ BufferList' = BufferList \cup {k}
  /\ map' = mp /\ textures' = tx
  /\ IF NeedsValidation(c, k)
     THEN /\ made < MaxTextures
          /\ made' = new /\ strb' = [strb EXCEPT ![c][k] = new]
     ELSE UNCHANGED <<made, strb>>
  /\ IF d \notin {NoContext, c}
     THEN /\ FlushContext(d, mp, tx, content)
          /\ dirty' = [DirtyAfterFlush(d) EXCEPT ![c] = TRUE]
     ELSE /\ UNCHANGED <<mem, defined, freed_use, pending>>
          /\ dirty' = [dirty EXCEPT ![c] = TRUE]
  /\ current' = [current EXCEPT ![t] = c]
  /\ draw' = [draw EXCEPT ![c] = k]
  /\ given' = [given EXCEPT ![c] = m]
  /\ UNCHANGED <<status, attribs, content, risky>>

\* OSMesaMakeCurrent(NULL, NULL, ...) flushes and releases the current context.
ReleaseCurrent(t) ==
  LET c == current[t] IN
  /\ c # NoContext
  /\ FlushContext(c, map, textures, content)
  /\ dirty' = DirtyAfterFlush(c)
  /\ current' = [current EXCEPT ![t] = NoContext]
  /\ UNCHANGED <<status, attribs, BufferList, map, textures, strb, draw, made,
                 content, given, risky>>

-----------------------------------------------------------------------------
Next ==
  \/ \E c \in Contexts : CreateContext(c) \/ DestroyContext(c)
  \/ \E t \in Threads : Flush(t) \/ ReleaseCurrent(t)
  \/ \E t \in Threads, p \in Pictures : Draw(t, p)
  \/ \E t \in Threads, c \in Contexts, m \in Mems, ty \in Types, sz \in Sizes :
       MakeCurrent(t, c, m, ty, sz)

Spec == Init /\ [][Next]_vars
-----------------------------------------------------------------------------
(***************************************************************************)
(* Properties                                                               *)
(***************************************************************************)

\* Every variable has its type; only buffers with a pipe format are in the list.
TypeOK ==
  /\ status \in [Contexts -> {"none", "alive", "freed"}]
  /\ attribs \in [Contexts -> Attribs]
  /\ current \in [Threads -> Contexts \cup {NoContext}]
  /\ BufferList \subseteq {k \in Keys : k[1] # "NONE"}
  /\ map \in [Keys -> Mems \cup {Blank}] /\ textures \in [Keys -> 0 .. MaxTextures]
  /\ strb \in [Contexts -> [Keys -> 0 .. MaxTextures]]
  /\ defined \in [Contexts -> [Keys -> BOOLEAN]] /\ dirty \in [Contexts -> BOOLEAN]
  /\ draw \in [Contexts -> Keys \cup {NoBuffer}]
  /\ made \in 0 .. MaxTextures
  /\ content \in [1 .. MaxTextures -> Pictures \cup {Blank}]
  /\ mem \in [Mems -> Pictures \cup {Blank}]
  /\ given \in [Contexts -> Mems \cup {Blank}]
  /\ pending \subseteq Contexts \X Keys
  /\ risky \subseteq Contexts /\ freed_use \subseteq Contexts

\* osbuffer->textures holds no reference: the resource is there for flush_front as
\* long as the framebuffer of some context refers to it.  A buffer stays in the
\* list for ever, so one must, also after contexts were destroyed.
TexturesAlive ==
  \A k \in BufferList : \E c \in Contexts : strb[c][k] = textures[k] /\ textures[k] # NoTexture

\* The memory a context was given shows what the context has drawn, when this step
\* flushes the context, unless it has been destroyed.
Delivered(c) ==
  (status[c] = "alive" /\ MustFlush(c) /\ ~defined'[c][draw[c]]) =>
    mem'[given[c]] = content[strb[c][draw[c]]]

\* The buffer that context c draws to has been bound by no other context.
SoleUser(c) ==
  \A d \in Contexts \ {c} : draw[c] # NoBuffer => strb'[d][draw[c]] = NoTexture

\* A context with a buffer of its own gets what it has drawn into the memory it was
\* given last, whatever the other contexts do and however often it is bound, as long
\* as it is not destroyed.
SoleUserDelivers == [][\A c \in Contexts : SoleUser(c) => Delivered(c)]_vars

\* Nothing drawn is forgotten: while the current context has drawn something that
\* its memory does not show, the next flush will copy the color buffer.
DrawnIsFlushed ==
  \A t \in Threads :
    LET c == current[t] IN
    (c # NoContext /\ ~defined[c][draw[c]]) => dirty[c]

\* OSMesaDestroyContext leaves the state tracker's context, which may be current, with
\* a pointer to the freed OSMesaContext, and flush_front follows it without looking
\* (osmesa.c:328).  An application that has flushed what it has drawn before it destroys
\* the current context, as the tests of the repository do, and draws no more never gets
\* there, with whatever buffers the context was bound to and whichever call releases or
\* replaces it later: the flags that the flush looks at say no more than what is pending.
FreedContextUnused == freed_use \subseteq risky

\* "This is where we copy the contents of the driver's color buffer into the
\* user-specified buffer" (osmesa_st_framebuffer_flush_front), for all contexts.
FlushDelivers == [][\A c \in Contexts : Delivered(c)]_vars
=============================================================================
