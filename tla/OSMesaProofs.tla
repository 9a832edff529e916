---------------------------- MODULE OSMesaProofs ----------------------------
(***************************************************************************)
(* Proofs about the OSMesa frontend, for any number of threads, contexts,   *)
(* buffers and blocks of memory.                                            *)
(***************************************************************************)
EXTENDS OSMesa, TLAPS

\* A framebuffer of the state tracker belongs to an osmesa_buffer in the list.
FramebuffersListed ==
  \A c \in Contexts, k \in Keys : strb[c][k] # NoTexture => k \in BufferList

\* The buffer a context draws to has its framebuffer there, and the application has
\* given memory for it.
DrawBufferThere ==
  \A c \in Contexts : draw[c] # NoBuffer =>
    /\ draw[c] \in Keys /\ draw[c] \in BufferList
    /\ strb[c][draw[c]] # NoTexture
    /\ given[c] \in Mems

\* A current context has a buffer to draw to.
CurrentDraws ==
  \A t \in Threads : current[t] # NoContext => draw[current[t]] # NoBuffer

\* What a flush would copy has been drawn since the last one.
DefinedPending ==
  \A c \in Contexts, k \in Keys : defined[c][k] => <<c, k>> \in pending

\* A freed context that is still current has nothing left to flush, or is at risk.
FreedFlushed ==
  \A t \in Threads :
    (current[t] # NoContext /\ status[current[t]] = "freed") =>
       current[t] \in risky \/ ~defined[current[t]][draw[current[t]]]

\* No other context has bound buffer k.
Alone(c, k) == \A d \in Contexts \ {c} : strb[d][k] = NoTexture

\* A buffer of one context only points to the memory this context was given last.
MapIsGiven ==
  \A c \in Contexts :
    (draw[c] # NoBuffer /\ Alone(c, draw[c])) => map[draw[c]] = given[c]

IInv ==
  /\ TypeOK /\ TexturesAlive /\ FramebuffersListed /\ DrawBufferThere /\ CurrentDraws
  /\ DefinedPending /\ FreedFlushed /\ FreedContextUnused /\ DrawnIsFlushed /\ MapIsGiven

-----------------------------------------------------------------------------
\* A key is not the NULL buffer.
LEMMA NoBufferIsNoKey == NoBuffer \notin Keys
BY DEF NoBuffer, Keys, Key

\* What OSMesaMakeCurrent looks for is a key, with the format it has chosen.
LEMMA KeyIsKey ==
  ASSUME TypeOK, NEW c \in Contexts, NEW ty \in Types, NEW sz \in Sizes
  PROVE  /\ Key(attribs[c], ty, sz) \in Keys
         /\ Supported(c, ty) => Key(attribs[c], ty, sz)[1] # "NONE"
<1>1. attribs[c] \in Attribs
  BY DEF TypeOK
<1>2. Key(attribs[c], ty, sz) \in Keys
  BY <1>1 DEF Keys
<1>3. Key(attribs[c], ty, sz)[1] = ChooseFormat(attribs[c].format, ty)
  BY DEF Key
<1> QED
  BY <1>2, <1>3 DEF Supported

\* The current context of a thread, its buffer and the texture in it are there.
LEMMA CurrentFacts ==
  ASSUME IInv, NEW t \in Threads, current[t] # NoContext
  PROVE  /\ current[t] \in Contexts
         /\ draw[current[t]] \in Keys /\ draw[current[t]] \in BufferList
         /\ draw[current[t]] # NoBuffer
         /\ strb[current[t]][draw[current[t]]] \in 1 .. MaxTextures
         /\ textures[draw[current[t]]] \in 1 .. MaxTextures
<1>1. current[t] \in Contexts /\ draw[current[t]] # NoBuffer
  BY DEF IInv, TypeOK, CurrentDraws
<1>2. /\ draw[current[t]] \in Keys /\ draw[current[t]] \in BufferList
      /\ strb[current[t]][draw[current[t]]] # NoTexture
  BY <1>1 DEF IInv, DrawBufferThere
<1>3. textures[draw[current[t]]] # NoTexture
  BY <1>2 DEF IInv, TexturesAlive
<1>4. /\ strb[current[t]][draw[current[t]]] \in 0 .. MaxTextures
      /\ textures[draw[current[t]]] \in 0 .. MaxTextures
  BY <1>1, <1>2 DEF IInv, TypeOK
<1> QED
  BY <1>1, <1>2, <1>3, <1>4, TexturesAssumption DEF NoTexture

\* _mesa_flush of a current context leaves nothing to flush in the buffer it draws
\* to, and looks into a freed context only at risk.
LEMMA FlushContextFacts ==
  ASSUME IInv, NEW t \in Threads, current[t] # NoContext,
         NEW mp, NEW tx \in [Keys -> 0 .. MaxTextures],
         tx[draw[current[t]]] # NoTexture,
         FlushContext(current[t], mp, tx, content)
  PROVE  /\ mem' \in [Mems -> Pictures \cup {Blank}]
         /\ defined' \in [Contexts -> [Keys -> BOOLEAN]]
         /\ \A d \in Contexts, k \in Keys :
              defined'[d][k] = (defined[d][k] /\ ~(d = current[t] /\ k = draw[current[t]]))
         /\ pending' = pending \ {<<current[t], draw[current[t]]>>}
         /\ freed_use' \subseteq Contexts /\ freed_use' \subseteq risky
<1> DEFINE c == current[t]
<1>1. c \in Contexts /\ draw[c] \in Keys /\ draw[c] # NoBuffer
  BY CurrentFacts
<1>2. /\ freed_use \subseteq risky /\ freed_use \subseteq Contexts
      /\ defined \in [Contexts -> [Keys -> BOOLEAN]]
  BY DEF IInv, FreedContextUnused, TypeOK
<1>3. pending' = pending \ {<<c, draw[c]>>}
  BY DEF FlushContext
<1>4. CASE MustFlush(c)
  <2>1. /\ FlushFront(c, mp, tx, content)
        /\ defined' = [defined EXCEPT ![c][draw[c]] = FALSE]
    BY <1>4 DEF FlushContext
  <2>2. tx[draw[c]] \in 1 .. MaxTextures
    BY <1>1, TexturesAssumption DEF NoTexture
  <2>3. Copied(c, tx, content) \subseteq Pictures \cup {Blank}
    BY <2>2 DEF IInv, TypeOK, Copied
  <2>4. mem' \in [Mems -> Pictures \cup {Blank}]
    BY <2>1, <2>3 DEF FlushFront, IInv, TypeOK
  <2>5. status[c] = "freed" => c \in risky
    BY <1>4 DEF IInv, FreedFlushed, MustFlush
  <2>6. freed_use' \subseteq Contexts /\ freed_use' \subseteq risky
    BY <1>1, <1>2, <2>1, <2>5 DEF FlushFront
  <2>7. /\ defined' \in [Contexts -> [Keys -> BOOLEAN]]
        /\ \A d \in Contexts, k \in Keys :
             defined'[d][k] = (defined[d][k] /\ ~(d = c /\ k = draw[c]))
    BY <1>1, <1>2, <2>1
  <2> QED
    BY <1>3, <2>4, <2>6, <2>7
<1>5. CASE ~MustFlush(c)
  <2>1. UNCHANGED <<mem, defined, freed_use>>
    BY <1>5 DEF FlushContext
  <2>2. defined[c][draw[c]] = FALSE
    BY <1>1, <1>2, <1>5 DEF MustFlush
  <2>3. /\ mem' \in [Mems -> Pictures \cup {Blank}]
        /\ freed_use' \subseteq Contexts /\ freed_use' \subseteq risky
    BY <1>2, <2>1 DEF IInv, TypeOK
  <2>4. /\ defined' \in [Contexts -> [Keys -> BOOLEAN]]
        /\ \A d \in Contexts, k \in Keys :
             defined'[d][k] = (defined[d][k] /\ ~(d = c /\ k = draw[c]))
    BY <1>1, <1>2, <2>1, <2>2
  <2> QED
    BY <1>3, <2>3, <2>4
<1> QED
  BY <1>4, <1>5

\* After _mesa_flush of a current context its framebuffer is looked at again.
LEMMA DirtyFacts ==
  ASSUME IInv, NEW t \in Threads, current[t] # NoContext
  PROVE  /\ DirtyAfterFlush(current[t]) \in [Contexts -> BOOLEAN]
         /\ \A d \in Contexts :
              DirtyAfterFlush(current[t])[d] = (dirty[d] \/ d = current[t])
<1> DEFINE c == current[t]
<1>1. c \in Contexts /\ draw[c] \in Keys /\ draw[c] # NoBuffer
  BY CurrentFacts
<1>2. /\ dirty \in [Contexts -> BOOLEAN] /\ defined[c][draw[c]] \in BOOLEAN
      /\ MustFlush(c) \in BOOLEAN
  BY <1>1 DEF IInv, TypeOK, MustFlush
<1>3. dirty[c] \/ MustFlush(c)
  BY <1>1, <1>2 DEF IInv, DrawnIsFlushed, MustFlush
<1> QED
  BY <1>1, <1>2, <1>3 DEF DirtyAfterFlush

\* Nothing exists at the start.
LEMMA InitIInv == ASSUME Init PROVE IInv
<1>1. TypeOK
  <2>1. textures \in [Keys -> 0 .. MaxTextures] /\ made \in 0 .. MaxTextures
    BY TexturesAssumption DEF Init, NoTexture
  <2>2. strb \in [Contexts -> [Keys -> 0 .. MaxTextures]]
    BY TexturesAssumption DEF Init, NoTexture
  <2>3. /\ map \in [Keys -> Mems \cup {Blank}]
        /\ content \in [1 .. MaxTextures -> Pictures \cup {Blank}]
        /\ mem \in [Mems -> Pictures \cup {Blank}]
        /\ given \in [Contexts -> Mems \cup {Blank}]
    BY DEF Init
  <2>4. /\ defined \in [Contexts -> [Keys -> BOOLEAN]] /\ dirty \in [Contexts -> BOOLEAN]
        /\ pending \subseteq Contexts \X Keys
        /\ risky \subseteq Contexts /\ freed_use \subseteq Contexts
    BY DEF Init
  <2>5. /\ status \in [Contexts -> {"none", "alive", "freed"}]
        /\ current \in [Threads -> Contexts \cup {NoContext}]
        /\ draw \in [Contexts -> Keys \cup {NoBuffer}]
        /\ attribs \in [Contexts -> Attribs] /\ BufferList = {}
    BY DEF Init
  <2> QED
    BY <2>1, <2>2, <2>3, <2>4, <2>5 DEF TypeOK
<1> QED
  BY <1>1, NamesAssumption DEF Init, IInv, TexturesAlive, FramebuffersListed,
     DrawBufferThere, CurrentDraws, DefinedPending, FreedFlushed, FreedContextUnused,
     DrawnIsFlushed, MapIsGiven

\* Contexts come and go.
LEMMA ContextKept ==
  ASSUME IInv, NEW c \in Contexts, CreateContext(c) \/ DestroyContext(c)
  PROVE  IInv'
<1>1. UNCHANGED <<attribs, current, BufferList, map, textures, strb, defined, dirty, draw,
                  made, content, mem, given, pending, freed_use>>
  BY DEF CreateContext, DestroyContext, Surviving
<1>2. /\ status' \in [Contexts -> {"none", "alive", "freed"}]
      /\ risky' \in {risky, risky \cup {c}}
  BY DEF IInv, TypeOK, CreateContext, DestroyContext, AtRisk
<1>3. TypeOK'
  BY <1>1, <1>2 DEF IInv, TypeOK
<1>4. FreedFlushed'
  <2> SUFFICES ASSUME NEW t \in Threads, current[t] # NoContext,
                      status'[current[t]] = "freed"
               PROVE  current[t] \in risky' \/ ~defined[current[t]][draw[current[t]]]
    BY <1>1 DEF FreedFlushed
  <2>1. current[t] \in Contexts /\ draw[current[t]] \in Keys
    BY CurrentFacts
  <2>2. CASE status[current[t]] = "freed"
    BY <1>2, <2>2 DEF IInv, FreedFlushed
  <2>3. CASE status[current[t]] # "freed"
    <3>1. c = current[t] /\ DestroyContext(c)
      BY <2>1, <2>3 DEF IInv, TypeOK, CreateContext, DestroyContext
    <3>2. defined[c][draw[c]] => <<c, draw[c]>> \in pending
      BY <2>1, <3>1 DEF IInv, DefinedPending
    <3> QED
      BY <3>1, <3>2 DEF DestroyContext, AtRisk
  <2> QED
    BY <2>2, <2>3
<1>5. TexturesAlive' /\ FramebuffersListed' /\ DrawBufferThere' /\ CurrentDraws'
  BY <1>1 DEF IInv, TexturesAlive, FramebuffersListed, DrawBufferThere, CurrentDraws
<1>6. DefinedPending' /\ FreedContextUnused' /\ DrawnIsFlushed' /\ MapIsGiven'
  BY <1>1, <1>2 DEF IInv, DefinedPending, FreedContextUnused, DrawnIsFlushed, MapIsGiven,
     Alone
<1> QED
  BY <1>3, <1>4, <1>5, <1>6 DEF IInv

\* glFlush, glFinish and the release of the current context.
LEMMA FlushKept ==
  ASSUME IInv, NEW t \in Threads, Flush(t) \/ ReleaseCurrent(t)
  PROVE  IInv'
<1> DEFINE c == current[t]
<1>1. /\ c # NoContext
      /\ FlushContext(c, map, textures, content) /\ dirty' = DirtyAfterFlush(c)
      /\ UNCHANGED <<status, attribs, BufferList, map, textures, strb, draw, made, content,
                     given, risky>>
      /\ \A u \in Threads : current'[u] \in {current[u], NoContext}
      /\ current' \in [Threads -> Contexts \cup {NoContext}]
  BY DEF Flush, ReleaseCurrent, IInv, TypeOK
<1>2. c \in Contexts /\ draw[c] \in Keys /\ textures[draw[c]] # NoTexture
  BY <1>1, CurrentFacts DEF NoTexture
<1>3. /\ mem' \in [Mems -> Pictures \cup {Blank}]
      /\ defined' \in [Contexts -> [Keys -> BOOLEAN]]
      /\ \A d \in Contexts, k \in Keys :
           defined'[d][k] = (defined[d][k] /\ ~(d = c /\ k = draw[c]))
      /\ pending' = pending \ {<<c, draw[c]>>}
      /\ freed_use' \subseteq Contexts /\ freed_use' \subseteq risky
  BY <1>1, <1>2, FlushContextFacts DEF IInv, TypeOK
<1>4. /\ dirty' \in [Contexts -> BOOLEAN]
      /\ \A d \in Contexts : dirty'[d] = (dirty[d] \/ d = c)
  BY <1>1, DirtyFacts
<1>5. TypeOK'
  BY <1>1, <1>3, <1>4 DEF IInv, TypeOK
<1>6. TexturesAlive' /\ FramebuffersListed' /\ DrawBufferThere' /\ MapIsGiven'
  BY <1>1 DEF IInv, TexturesAlive, FramebuffersListed, DrawBufferThere, MapIsGiven, Alone
<1>7. CurrentDraws' /\ FreedContextUnused'
  BY <1>1, <1>3 DEF IInv, CurrentDraws, FreedContextUnused
<1>8. DefinedPending'
  BY <1>3 DEF IInv, DefinedPending
<1>9. ASSUME NEW u \in Threads, current'[u] # NoContext
      PROVE  current'[u] = current[u] /\ current[u] \in Contexts /\ draw[current[u]] \in Keys
  BY <1>1, <1>9, CurrentFacts
<1>10. FreedFlushed'
  BY <1>1, <1>3, <1>9 DEF IInv, FreedFlushed
<1>11. DrawnIsFlushed'
  BY <1>1, <1>3, <1>4, <1>9 DEF IInv, DrawnIsFlushed
<1> QED
  BY <1>5, <1>6, <1>7, <1>10, <1>11, <1>8 DEF IInv

\* A draw call.
LEMMA DrawKept ==
  ASSUME IInv, NEW t \in Threads, NEW p \in Pictures, Draw(t, p)
  PROVE  IInv'
<1> DEFINE c == current[t]
<1>1. /\ c # NoContext
      /\ defined' = [defined EXCEPT ![c][draw[c]] = @ \/ dirty[c]]
      /\ dirty' = [dirty EXCEPT ![c] = FALSE]
      /\ content' = [content EXCEPT ![strb[c][draw[c]]] = p]
      /\ pending' = pending \cup {<<c, draw[c]>>}
      /\ risky' = AtRisk(c, status[c] = "freed")
      /\ UNCHANGED <<status, attribs, current, BufferList, map, textures, strb, draw, made,
                     mem, given, freed_use>>
  BY DEF Draw
<1>2. c \in Contexts /\ draw[c] \in Keys
  BY <1>1, CurrentFacts
<1>3. /\ defined[c][draw[c]] \in BOOLEAN /\ dirty[c] \in BOOLEAN
      /\ defined[c][draw[c]] \/ dirty[c]
  BY <1>1, <1>2 DEF IInv, TypeOK, DrawnIsFlushed
<1>4. /\ defined' \in [Contexts -> [Keys -> BOOLEAN]]
      /\ \A d \in Contexts, k \in Keys :
           defined'[d][k] = (defined[d][k] \/ (d = c /\ k = draw[c]))
  BY <1>1, <1>2, <1>3 DEF IInv, TypeOK
<1>5. /\ risky' \subseteq Contexts /\ risky \subseteq risky'
      /\ status[c] = "freed" => c \in risky'
  BY <1>1, <1>2 DEF IInv, TypeOK, AtRisk
<1>6. DefinedPending'
  BY <1>1, <1>4 DEF IInv, DefinedPending
<1>7. pending' \subseteq Contexts \X Keys
  BY <1>1, <1>2 DEF IInv, TypeOK
<1>8. /\ content' \in [1 .. MaxTextures -> Pictures \cup {Blank}]
      /\ dirty' \in [Contexts -> BOOLEAN]
  BY <1>1 DEF IInv, TypeOK
<1>9. TypeOK'
  BY <1>1, <1>4, <1>5, <1>7, <1>8 DEF IInv, TypeOK
<1>10. TexturesAlive' /\ FramebuffersListed' /\ DrawBufferThere' /\ MapIsGiven'
  BY <1>1 DEF IInv, TexturesAlive, FramebuffersListed, DrawBufferThere, MapIsGiven, Alone
<1>11. CurrentDraws' /\ FreedContextUnused'
  BY <1>1, <1>5 DEF IInv, CurrentDraws, FreedContextUnused
<1>12. ASSUME NEW u \in Threads, current[u] # NoContext
      PROVE  current[u] \in Contexts /\ draw[current[u]] \in Keys
  BY <1>12, CurrentFacts
<1>13. FreedFlushed'
  <2> SUFFICES ASSUME NEW u \in Threads, current[u] # NoContext,
                      status[current[u]] = "freed", current[u] \notin risky'
               PROVE  ~defined'[current[u]][draw[current[u]]]
    BY <1>1 DEF FreedFlushed
  <2>1. current[u] # c /\ ~defined[current[u]][draw[current[u]]]
    BY <1>5 DEF IInv, FreedFlushed
  <2> QED
    BY <1>4, <1>12, <2>1
<1>14. DrawnIsFlushed'
  BY <1>1, <1>2, <1>4, <1>12 DEF IInv, TypeOK, DrawnIsFlushed
<1> QED
  BY <1>6, <1>9, <1>10, <1>11, <1>13, <1>14 DEF IInv

\* The buffer made current has a framebuffer of the state tracker, with the texture
\* it had or with one created now.
LEMMA MakeCurrentTexture ==
  ASSUME IInv, NEW t \in Threads, NEW c \in Contexts, NEW m \in Mems, NEW ty \in Types,
         NEW sz \in Sizes, MakeCurrent(t, c, m, ty, sz)
  PROVE  LET k == Key(attribs[c], ty, sz) IN
         /\ textures' \in [Keys -> 0 .. MaxTextures] /\ made' \in 0 .. MaxTextures
         /\ strb' \in [Contexts -> [Keys -> 0 .. MaxTextures]]
         /\ strb'[c][k] # NoTexture
         /\ \A e \in Contexts, j \in Keys : strb[e][j] # NoTexture => strb'[e][j] = strb[e][j]
         /\ \A e \in Contexts, j \in Keys : (e # c \/ j # k) => strb'[e][j] = strb[e][j]
         /\ textures'[k] = strb'[c][k] \/ (textures'[k] = textures[k] /\ k \in BufferList)
         /\ \A j \in Keys \ {k} : textures'[j] = textures[j]
<1> DEFINE k == Key(attribs[c], ty, sz)
<1>1. k \in Keys
  BY KeyIsKey DEF IInv
<1>2. CASE NeedsValidation(c, k)
  <2>1. /\ textures' = [textures EXCEPT ![k] = made + 1] /\ made' = made + 1
        /\ strb' = [strb EXCEPT ![c][k] = made + 1] /\ made < MaxTextures
    BY <1>2 DEF MakeCurrent, Validated
  <2>2. made + 1 \in 0 .. MaxTextures /\ made + 1 # NoTexture /\ strb[c][k] = NoTexture
    BY <1>2, <2>1, TexturesAssumption DEF IInv, TypeOK, NoTexture, NeedsValidation
  <2>3. /\ textures' \in [Keys -> 0 .. MaxTextures] /\ textures'[k] = made + 1
        /\ \A j \in Keys \ {k} : textures'[j] = textures[j]
    BY <1>1, <2>1, <2>2 DEF IInv, TypeOK
  <2>4. /\ strb' \in [Contexts -> [Keys -> 0 .. MaxTextures]] /\ strb'[c][k] = made + 1
        /\ \A e \in Contexts, j \in Keys : (e # c \/ j # k) => strb'[e][j] = strb[e][j]
    BY <1>1, <2>1, <2>2 DEF IInv, TypeOK
  <2> QED
    BY <2>1, <2>2, <2>3, <2>4
<1>3. CASE ~NeedsValidation(c, k)
  <2>1. UNCHANGED <<textures, made, strb>>
    BY <1>3 DEF MakeCurrent, Validated
  <2>2. strb[c][k] # NoTexture /\ k \in BufferList
    BY <1>1, <1>3 DEF IInv, FramebuffersListed, NeedsValidation
  <2> QED
    BY <2>1, <2>2 DEF IInv, TypeOK
<1> QED
  BY <1>2, <1>3

\* OSMesaMakeCurrent.
LEMMA MakeCurrentKept ==
  ASSUME IInv, NEW t \in Threads, NEW c \in Contexts, NEW m \in Mems, NEW ty \in Types,
         NEW sz \in Sizes, MakeCurrent(t, c, m, ty, sz)
  PROVE  IInv'
<1> DEFINE k == Key(attribs[c], ty, sz)
           d == current[t]
<1>1. k \in Keys /\ k[1] # "NONE" /\ k # NoBuffer
  BY KeyIsKey, NoBufferIsNoKey DEF IInv, MakeCurrent
<1>2. /\ status[c] = "alive"
      /\ BufferList' = BufferList \cup {k}
      /\ map' = [map EXCEPT ![k] = m]
      /\ current' = [current EXCEPT ![t] = c]
      /\ draw' = [draw EXCEPT ![c] = k]
      /\ given' = [given EXCEPT ![c] = m]
      /\ UNCHANGED <<status, attribs, content, risky>>
  BY DEF MakeCurrent, Bound
\* The texture of the buffer: there, or created now.
<1>3. /\ textures' \in [Keys -> 0 .. MaxTextures] /\ made' \in 0 .. MaxTextures
      /\ strb' \in [Contexts -> [Keys -> 0 .. MaxTextures]]
      /\ strb'[c][k] # NoTexture
      /\ \A e \in Contexts, j \in Keys : strb[e][j] # NoTexture => strb'[e][j] = strb[e][j]
      /\ \A e \in Contexts, j \in Keys : (e # c \/ j # k) => strb'[e][j] = strb[e][j]
      /\ textures'[k] = strb'[c][k] \/ (textures'[k] = textures[k] /\ k \in BufferList)
      /\ \A j \in Keys \ {k} : textures'[j] = textures[j]
  BY MakeCurrentTexture
\* The flush of the context that was current.
<1>4. /\ mem' \in [Mems -> Pictures \cup {Blank}]
      /\ defined' \in [Contexts -> [Keys -> BOOLEAN]]
      /\ dirty' \in [Contexts -> BOOLEAN]
      /\ freed_use' \subseteq Contexts /\ freed_use' \subseteq risky /\ dirty'[c] = TRUE
      /\ pending' \subseteq Contexts \X Keys
      /\ \A e \in Contexts, j \in Keys : defined'[e][j] => <<e, j>> \in pending'
      /\ \A e \in Contexts, j \in Keys : defined'[e][j] => defined[e][j]
      /\ \A e \in Contexts, j \in Keys : defined[e][j] /\ ~defined'[e][j] => dirty'[e]
      /\ \A e \in Contexts : dirty[e] => dirty'[e]
  <2>1. CASE d \notin {NoContext, c}
    <3>1. FlushContext(d, map', textures', content)
      BY <2>1 DEF MakeCurrent
    <3>2. d \in Contexts /\ draw[d] \in Keys /\ draw[d] \in BufferList
      BY <2>1, CurrentFacts
    <3>3. textures'[draw[d]] # NoTexture
      BY <1>3, <2>1, <3>2, CurrentFacts DEF NoTexture
    <3>4. /\ mem' \in [Mems -> Pictures \cup {Blank}]
          /\ defined' \in [Contexts -> [Keys -> BOOLEAN]]
          /\ \A e \in Contexts, j \in Keys :
               defined'[e][j] = (defined[e][j] /\ ~(e = d /\ j = draw[d]))
          /\ pending' = pending \ {<<d, draw[d]>>}
          /\ freed_use' \subseteq Contexts /\ freed_use' \subseteq risky
      BY <1>3, <2>1, <3>1, <3>3, FlushContextFacts
    <3>5. dirty' = [DirtyAfterFlush(d) EXCEPT ![c] = TRUE]
      BY <2>1 DEF MakeCurrent
    <3>6. /\ DirtyAfterFlush(d) \in [Contexts -> BOOLEAN]
          /\ \A e \in Contexts : DirtyAfterFlush(d)[e] = (dirty[e] \/ e = d)
      BY <2>1, DirtyFacts
    <3>7. /\ dirty' \in [Contexts -> BOOLEAN]
          /\ \A e \in Contexts : dirty'[e] = (dirty[e] \/ e = d \/ e = c)
      BY <3>5, <3>6 DEF IInv, TypeOK
    <3>8. /\ pending' \subseteq Contexts \X Keys
          /\ \A e \in Contexts, j \in Keys : defined'[e][j] => <<e, j>> \in pending'
      BY <3>4 DEF IInv, TypeOK, DefinedPending
    <3> QED
      BY <3>2, <3>4, <3>7, <3>8
  <2>2. CASE d \in {NoContext, c}
    <3>1. /\ UNCHANGED <<mem, defined, freed_use, pending>>
          /\ dirty' = [dirty EXCEPT ![c] = TRUE]
      BY <2>2 DEF MakeCurrent
    <3> QED
      BY <3>1 DEF IInv, TypeOK, FreedContextUnused, DefinedPending
  <2> QED
    BY <2>1, <2>2
<1>5. TypeOK'
  BY <1>1, <1>2, <1>3, <1>4 DEF IInv, TypeOK
<1>6. TexturesAlive'
  <2> SUFFICES ASSUME NEW j \in BufferList'
               PROVE  \E e \in Contexts : strb'[e][j] = textures'[j] /\ textures'[j] # NoTexture
    BY DEF TexturesAlive
  <2>1. CASE j = k /\ textures'[k] = strb'[c][k]
    BY <1>3, <2>1
  <2>2. CASE j \in BufferList /\ textures'[j] = textures[j]
    <3>1. PICK e \in Contexts : strb[e][j] = textures[j] /\ textures[j] # NoTexture
      BY <2>2 DEF IInv, TexturesAlive
    <3>2. j \in Keys
      BY <2>2 DEF IInv, TypeOK
    <3> QED
      BY <1>3, <2>2, <3>1, <3>2
  <2>3. j \in BufferList /\ j # k => textures'[j] = textures[j]
    BY <1>3 DEF IInv, TypeOK
  <2> QED
    BY <1>2, <1>3, <2>1, <2>2, <2>3
<1>7. FramebuffersListed'
  BY <1>2, <1>3 DEF IInv, FramebuffersListed
<1>8. DrawBufferThere'
  BY <1>1, <1>2, <1>3 DEF IInv, TypeOK, DrawBufferThere
<1>9. ASSUME NEW u \in Threads, current'[u] # NoContext
      PROVE  \/ current'[u] = c /\ draw'[current'[u]] = k
             \/ /\ current'[u] = current[u] /\ current[u] \in Contexts \ {c}
                /\ draw'[current[u]] = draw[current[u]] /\ draw[current[u]] \in Keys
                /\ draw[current[u]] # NoBuffer
  BY <1>2, <1>9, CurrentFacts DEF IInv, TypeOK
<1>10. CurrentDraws' /\ FreedContextUnused'
  BY <1>1, <1>2, <1>4, <1>9 DEF CurrentDraws, FreedContextUnused
<1>11. DefinedPending'
  BY <1>4 DEF DefinedPending
<1>12. FreedFlushed'
  BY <1>2, <1>4, <1>9 DEF IInv, FreedFlushed
<1>13. DrawnIsFlushed'
  <2> SUFFICES ASSUME NEW u \in Threads, current'[u] # NoContext,
                      ~defined'[current'[u]][draw'[current'[u]]]
               PROVE  dirty'[current'[u]]
    BY DEF DrawnIsFlushed
  <2>1. CASE current'[u] = c
    BY <1>4, <2>1
  <2>2. CASE current'[u] # c
    <3>1. /\ current'[u] = current[u] /\ current[u] \in Contexts
          /\ draw[current[u]] \in Keys /\ ~defined'[current[u]][draw[current[u]]]
      BY <1>9, <2>2
    <3>2. CASE defined[current[u]][draw[current[u]]]
      BY <1>4, <3>1, <3>2
    <3>3. CASE ~defined[current[u]][draw[current[u]]]
      BY <1>4, <3>1, <3>3 DEF IInv, DrawnIsFlushed
    <3> QED
      BY <3>2, <3>3
  <2> QED
    BY <2>1, <2>2
<1>14. MapIsGiven'
  <2> SUFFICES ASSUME NEW e \in Contexts, draw'[e] # NoBuffer,
                      \A f \in Contexts \ {e} : strb'[f][draw'[e]] = NoTexture
               PROVE  map'[draw'[e]] = given'[e]
    BY DEF MapIsGiven, Alone
  <2>1. CASE e = c
    BY <1>1, <1>2, <2>1 DEF IInv, TypeOK
  <2>2. CASE e # c
    <3>1. draw'[e] = draw[e] /\ given'[e] = given[e] /\ draw[e] \in Keys
      BY <1>2, <2>2 DEF IInv, TypeOK
    <3>2. draw[e] # k
      BY <1>3, <2>2, <3>1
    <3>3. map'[draw[e]] = map[draw[e]]
      BY <1>2, <3>1, <3>2 DEF IInv, TypeOK
    <3>4. \A f \in Contexts \ {e} : strb[f][draw[e]] = NoTexture
      BY <1>3, <3>1, <3>2
    <3> QED
      BY <3>1, <3>3, <3>4 DEF IInv, MapIsGiven, Alone
  <2> QED
    BY <2>1, <2>2
<1> QED
  BY <1>5, <1>6, <1>7, <1>8, <1>10, <1>12, <1>13, <1>14, <1>11 DEF IInv

-----------------------------------------------------------------------------
\* The invariant of the frontend holds for any number of threads and contexts.
THEOREM FrontendInvariant == Spec => []IInv
<1>1. Init => IInv
  BY InitIInv
<1>2. IInv /\ UNCHANGED vars => IInv'
  <2> SUFFICES ASSUME IInv, UNCHANGED vars PROVE IInv'
    OBVIOUS
  <2>1. TypeOK' /\ TexturesAlive' /\ FramebuffersListed' /\ DrawBufferThere'
    BY DEF vars, IInv, TypeOK, TexturesAlive, FramebuffersListed, DrawBufferThere
  <2>2. /\ CurrentDraws' /\ DefinedPending' /\ FreedFlushed' /\ FreedContextUnused'
        /\ DrawnIsFlushed' /\ MapIsGiven'
    BY DEF vars, IInv, CurrentDraws, DefinedPending, FreedFlushed, FreedContextUnused,
       DrawnIsFlushed, MapIsGiven, Alone
  <2> QED
    BY <2>1, <2>2 DEF IInv
<1>3. IInv /\ [Next]_vars => IInv'
  BY <1>2, ContextKept, FlushKept, DrawKept, MakeCurrentKept DEF Next
<1> QED
  BY <1>1, <1>3, PTL DEF Spec

\* Every variable keeps its type: a buffer without a pipe format never gets into the
\* list, and no flush reads a resource that does not exist.
THEOREM FrontendTypes == Spec => []TypeOK
<1>1. IInv => TypeOK
  BY DEF IInv
<1> QED
  BY <1>1, FrontendInvariant, PTL

\* The resource in osbuffer->textures, which holds no reference, is always kept alive by
\* the framebuffer of some context.
THEOREM FrontendTexturesAlive == Spec => []TexturesAlive
<1>1. IInv => TexturesAlive
  BY DEF IInv
<1> QED
  BY <1>1, FrontendInvariant, PTL

\* The next flush copies the color buffer whenever the current context has drawn
\* something that its memory does not show.
THEOREM FrontendDrawnIsFlushed == Spec => []DrawnIsFlushed
<1>1. IInv => DrawnIsFlushed
  BY DEF IInv
<1> QED
  BY <1>1, FrontendInvariant, PTL

\* A flush looks into an OSMesaContext that OSMesaDestroyContext has freed only when it
\* was destroyed with a drawing not flushed, or draws after it was destroyed.
THEOREM FrontendFreedUnused == Spec => []FreedContextUnused
<1>1. IInv => FreedContextUnused
  BY DEF IInv
<1> QED
  BY <1>1, FrontendInvariant, PTL

\* A flush of the context whose buffer nobody else uses copies its picture into the
\* memory it was given.
LEMMA SoleUserFlush ==
  ASSUME IInv, NEW t \in Threads, current[t] # NoContext,
         NEW mp, NEW tx, FlushContext(current[t], mp, tx, content),
         NEW c \in Contexts, Alone(c, draw[c]),
         mp[draw[c]] = map[draw[c]], tx[draw[c]] = textures[draw[c]]
  PROVE  Delivered(c)
<1> SUFFICES ASSUME status[c] = "alive", MustFlush(c), ~defined'[c][draw[c]]
             PROVE  mem'[given[c]] = content[strb[c][draw[c]]]
  BY DEF Delivered
<1>1. draw[c] \in Keys /\ draw[c] \in BufferList /\ given[c] \in Mems /\ draw[c] # NoBuffer
  BY DEF MustFlush, IInv, DrawBufferThere
<1>2. /\ FlushFront(current[t], mp, tx, content)
      /\ c = current[t]
  <2>1. defined' # defined
    BY DEF MustFlush
  <2>2. /\ FlushFront(current[t], mp, tx, content)
        /\ defined' = [defined EXCEPT ![current[t]][draw[current[t]]] = FALSE]
    BY <2>1 DEF FlushContext
  <2>3. current[t] \in Contexts /\ draw[current[t]] \in Keys
    BY CurrentFacts
  <2>4. c # current[t] => defined'[c] = defined[c]
    BY <2>2, <2>3 DEF IInv, TypeOK
  <2> QED
    BY <2>2, <2>4 DEF MustFlush
<1>3. map[draw[c]] = given[c]
  BY <1>1 DEF IInv, MapIsGiven
<1>4. textures[draw[c]] = strb[c][draw[c]]
  <2>1. PICK e \in Contexts : /\ strb[e][draw[c]] = textures[draw[c]]
                              /\ textures[draw[c]] # NoTexture
    BY <1>1 DEF IInv, TexturesAlive
  <2>2. e = c
    BY <2>1 DEF Alone
  <2> QED
    BY <2>1, <2>2
<1> QED
  BY <1>1, <1>2, <1>3, <1>4 DEF FlushFront, Copied, IInv, TypeOK

\* A context with a buffer of its own gets what it has drawn into the memory it was
\* given last, whichever call makes the flush.
THEOREM FrontendDelivers == Spec => SoleUserDelivers
<1>1. IInv /\ [Next]_vars => [\A c \in Contexts : SoleUser(c) => Delivered(c)]_vars
  <2> SUFFICES ASSUME IInv, Next, NEW c \in Contexts, SoleUser(c), MustFlush(c)
               PROVE  Delivered(c)
    BY DEF Delivered
  <2>1. draw[c] \in Keys /\ draw[c] # NoBuffer /\ defined[c][draw[c]]
    BY DEF MustFlush, IInv, DrawBufferThere
  <2>2. ASSUME NEW d \in Contexts, CreateContext(d) \/ DestroyContext(d)
        PROVE  Delivered(c)
    BY <2>1, <2>2 DEF CreateContext, DestroyContext, Delivered
  <2>3. ASSUME NEW t \in Threads, Flush(t) \/ ReleaseCurrent(t)
        PROVE  Delivered(c)
    <3>1. /\ current[t] # NoContext /\ strb' = strb
          /\ FlushContext(current[t], map, textures, content)
      BY <2>3 DEF Flush, ReleaseCurrent
    <3>2. Alone(c, draw[c])
      BY <2>1, <3>1 DEF SoleUser, Alone
    <3> QED
      BY <3>1, <3>2, SoleUserFlush
  <2>4. ASSUME NEW t \in Threads, NEW p \in Pictures, Draw(t, p)
        PROVE  Delivered(c)
    <3>1. current[t] \in Contexts /\ draw[current[t]] \in Keys
      BY <2>4, CurrentFacts DEF Draw
    <3>2. defined'[c][draw[c]]
      BY <2>1, <2>4, <3>1 DEF Draw, IInv, TypeOK
    <3> QED
      BY <3>2 DEF Delivered
  <2>5. ASSUME NEW t \in Threads, NEW e \in Contexts, NEW m \in Mems, NEW ty \in Types,
               NEW sz \in Sizes, MakeCurrent(t, e, m, ty, sz)
        PROVE  Delivered(c)
    <3> DEFINE k == Key(attribs[e], ty, sz)
    <3>1. k \in Keys
      BY KeyIsKey DEF IInv
    <3>2. CASE current[t] \in {NoContext, e}
      BY <2>1, <2>5, <3>2 DEF MakeCurrent, Delivered
    <3>3. CASE current[t] \notin {NoContext, e}
      <4>1. FlushContext(current[t], map', textures', content)
        BY <2>5, <3>3 DEF MakeCurrent
      <4>2. CASE c # current[t]
        <5>1. current[t] \in Contexts /\ draw[current[t]] \in Keys
          BY <3>3, CurrentFacts
        <5>2. defined'[c][draw[c]]
          BY <2>1, <4>1, <4>2, <5>1 DEF FlushContext, IInv, TypeOK
        <5> QED
          BY <5>2 DEF Delivered
      <4>3. CASE c = current[t]
        <5>1. /\ strb'[e][k] # NoTexture
              /\ \A f \in Contexts, j \in Keys \ {k} : strb'[f][j] = strb[f][j]
              /\ \A j \in Keys \ {k} : textures'[j] = textures[j]
          BY <2>5, MakeCurrentTexture
        <5>2. draw[c] # k
          BY <2>1, <3>3, <4>3, <5>1 DEF SoleUser
        <5>3. map'[draw[c]] = map[draw[c]] /\ textures'[draw[c]] = textures[draw[c]]
          BY <2>1, <2>5, <3>1, <5>1, <5>2 DEF MakeCurrent, Bound, IInv, TypeOK
        <5>4. \A d \in Contexts : strb'[d][draw[c]] = strb[d][draw[c]]
          BY <2>1, <5>1, <5>2
        <5>5. Alone(c, draw[c])
          BY <2>1, <5>4 DEF SoleUser, Alone
        <5> QED
          BY <3>3, <4>1, <5>3, <5>5, SoleUserFlush
      <4> QED
        BY <4>2, <4>3
    <3> QED
      BY <3>2, <3>3
  <2> QED
    BY <2>2, <2>3, <2>4, <2>5 DEF Next
<1> QED
  BY <1>1, FrontendInvariant, PTL DEF Spec, SoleUserDelivers
=============================================================================
