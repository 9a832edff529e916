------------------------------ MODULE LpSetup ------------------------------
(***************************************************************************)
(* The setup module of llvmpipe (lp_setup.c): how the clears, the draws and *)
(* the queries of one context are gathered in the bins of a scene, what is  *)
(* done when the memory of the scene is used up in the middle of a command, *)
(* and how the deferred commands are kept in order with what the CPU does   *)
(* to textures and framebuffers (lp_flush.c, lp_texture.c).                 *)
(*                                                                          *)
(* lp_setup_rasterize_scene waits for the rasterizer, so a call is one      *)
(* action and a scene is executed in it, bin by bin (LpRast has the threads *)
(* that do it).  The fence of the n-th scene is the number n; it is issued  *)
(* and signalled once the scene has been rasterized.  One thread's counters *)
(* stand for all: a bin is executed by one thread, and a query's `start' is *)
(* 0 again when a bin is finished.                                          *)
(*                                                                          *)
(* Functions of the code that return a boolean leave it in the field ok.    *)
(* Left out: a malloc that fails, mappings that ask not to wait or not to    *)
(* be synchronized, timestamps, layers, shader buffers and images, and more *)
(* than LP_MAX_ACTIVE_BINNED_QUERIES queries at once (the code ignores      *)
(* those).  What try_update_scene_state allocates, for viewports, blend     *)
(* color and constants, is one allocation.                                  *)
(***************************************************************************)
EXTENDS Integers, Sequences, FiniteSets

CONSTANTS
  NumTiles,       \* bins of a framebuffer
  CmdBlockMax,    \* CMD_BLOCK_MAX, commands in a block of a bin
  Room,           \* LP_SCENE_MAX_SIZE, counted in allocations
  Textures,
  MaxTextures,    \* LP_SCENE_MAX_RESOURCE_SIZE, counted in textures
  Framebuffers,
  ZsBound,        \* the framebuffers with a depth and stencil buffer
  Queries,        \* queries that are counted in the bins
  Draws,          \* the triangles the application may draw
  Clears,         \* the sets of buffers it may clear
  MaxOps          \* bound of the model: calls that leave something in a scene

Tiles == 1 .. NumTiles
NoTexture == "NULL"
Null == [tex |-> NoTexture, at |-> 0]    \* no lp_rast_state
NoClear == [b \in {} |-> 0]              \* no buffer to be cleared
ZsBuffers == {"z", "s"}
Buffers == {"c"} \cup ZsBuffers
BuffersOf(fb) == IF fb \in ZsBound THEN Buffers ELSE {"c"}

\* A triangle: the texture its state refers to, whether its shader variant is
\* opaque, and how it covers the tiles.
Triangles == [tex : Textures, opaque : BOOLEAN,
              cover : [Tiles -> {"none", "part", "whole"}]]

ASSUME SizesAssumption ==
  /\ {NumTiles, CmdBlockMax, Room, MaxTextures} \subseteq Nat \ {0}
  /\ MaxOps \in Nat
ASSUME NamesAssumption ==
  /\ NoTexture \notin Textures /\ Textures \cap Framebuffers = {}
  /\ ZsBound \subseteq Framebuffers
  /\ Draws \subseteq Triangles /\ Clears \subseteq (SUBSET Buffers) \ {{}}
\* An empty scene has room for the state, for all pending clears and for one more
\* command in all bins.  In the code that takes one block of each bin (CMD_BLOCK_MAX
\* is 29), and LP_SCENE_MAX_SIZE holds one for each of the 256 * 256 bins there can
\* be; here it takes two.
ASSUME RoomAssumption == Room >= 3 + 2 * NumTiles /\ CmdBlockMax >= 2

VARIABLES
  lp,        \* the context: setup, its scene, the queries and the memory
  ops,       \* number of the last call
  pic,       \* history: what the application has asked for, in order
  expect,    \* history: what each query should count
  phase,     \* the queries: "new", "active", "ended", "freed"
  torn,      \* history: queries whose begin met a full scene, or whose end
             \* went into some bins of one scene and into all bins of the next
  late       \* history: queries whose end went into a later scene than their fence

vars == <<lp, ops, pic, expect, phase, torn, late>>
-----------------------------------------------------------------------------
(***************************************************************************)
(* The memory of a scene and its bins (lp_scene.c, lp_scene.h)              *)
(***************************************************************************)

\* If the step before it went well, the next one.
Then(s, Op(_)) == IF s.ok THEN Op(s) ELSE s

\* lp_scene_alloc: fails when the scene has its maximal size.
SceneAlloc(s) ==
  IF s.used < Room THEN [s EXCEPT !.used = @ + 1, !.ok = TRUE]
                   ELSE [s EXCEPT !.ok = FALSE]

\* Without a block a bin counts as one whose last block is full.
NoBlock(s, t) == s.bins[t] = <<>> /\ s.tail[t] = CmdBlockMax

\* lp_scene_bin_command, with lp_scene_new_cmd_block.
BinCommand(s, t, cmd) ==
  LET a == IF s.tail[t] < CmdBlockMax THEN [s EXCEPT !.ok = TRUE]
           ELSE Then(SceneAlloc(s), LAMBDA r : [r EXCEPT !.tail[t] = 0])
  IN Then(a, LAMBDA r : [r EXCEPT !.bins[t] = Append(@, cmd), !.tail[t] = @ + 1])

\* lp_scene_bin_cmd_with_state: a change of state goes into the bin first.
BinWithState(s, t, cmd) ==
  LET a == IF s.last_state[t] = s.stored THEN [s EXCEPT !.ok = TRUE]
           ELSE BinCommand([s EXCEPT !.last_state[t] = s.stored], t,
                           [op |-> "state", arg |-> s.stored.tex])
  IN Then(a, LAMBDA r : BinCommand(r, t, cmd))

\* lp_scene_bin_everywhere: bin by bin, up to the first that fails.
BinNext(cmd, s, t) == Then(s, LAMBDA r : BinCommand(r, t, cmd))
Everywhere == INSTANCE Iteration WITH Step <- BinNext
BinEverywhere(s, cmd) == Everywhere!Iterate(cmd, [s EXCEPT !.ok = TRUE], NumTiles)

\* lp_scene_bin_reset keeps the last block for reuse and forgets the state.
BinReset(s, t) ==
  [s EXCEPT !.bins[t] = <<>>, !.tail[t] = IF NoBlock(s, t) THEN @ ELSE 0,
            !.last_state[t] = Null]

\* lp_scene_end_rasterization, and the bins of a scene never used.
EmptyScene(s) ==
  [s EXCEPT !.bins = [t \in Tiles |-> <<>>], !.tail = [t \in Tiles |-> CmdBlockMax],
            !.last_state = [t \in Tiles |-> Null], !.used = 0, !.refs = {},
            !.fence = 0, !.disabled = {}]

\* lp_scene_add_resource_reference: the reference is taken in any case.
AddResourceReference(s, tex, new_scene) ==
  IF tex \in s.refs \cup {NoTexture} THEN [s EXCEPT !.ok = TRUE]
  ELSE [s EXCEPT !.refs = @ \cup {tex},
                 !.ok = new_scene \/ Cardinality(s.refs) + 1 < MaxTextures]
-----------------------------------------------------------------------------
(***************************************************************************)
(* Execution of the bins (lp_rast.c)                                        *)
(***************************************************************************)

\* What call n, a draw with texture tex of version ver, leaves in a pixel; a
\* clear has no texture.
Paint(n, tex, ver) == [n |-> n, tex |-> tex, ver |-> ver]
ClearPaint(n) == Paint(n, NoTexture, 0)

\* The buffers of a tile after a clear, and after a triangle: an opaque one
\* that covers the tile leaves nothing of what was there, and no opaque one
\* touches depth and stencil.
PaintClear(old, vals) ==
  [b \in Buffers |-> IF b \in DOMAIN vals THEN <<ClearPaint(vals[b])>> ELSE old[b]]
PaintDraw(old, bufs, whole, opaque, paint) ==
  [b \in Buffers |->
     IF b \notin bufs \/ (opaque /\ b # "c") THEN old[b]
     ELSE IF opaque /\ whole THEN <<paint>> ELSE Append(old[b], paint)]

\* lp_rast_begin_query and lp_rast_end_query with the counter of the thread.
RastBeginQuery(x, q) == [x EXCEPT !.queries[q].start = x.vis]
EndCount(query, vis) == [query EXCEPT !.end = @ + vis - query.start, !.start = 0]
RastEndQuery(x, q) == [x EXCEPT !.queries[q] = EndCount(@, x.vis)]

\* One command of the bin of tile t of scene s; x has what the thread and the
\* tile have come to.
Execute(s, t, x, cmd) ==
  CASE cmd.op = "clear" -> [x EXCEPT !.tile = PaintClear(@, cmd.arg)]
    [] cmd.op = "state" -> [x EXCEPT !.tex = cmd.arg]
    [] cmd.op = "begin" -> RastBeginQuery(x, cmd.arg)
    [] cmd.op = "end" -> RastEndQuery(x, cmd.arg)
    [] cmd.op = "draw" ->
         IF cmd.arg.n \in s.disabled THEN x
         ELSE [x EXCEPT !.vis = @ + 1,
                        !.tile = PaintDraw(@, BuffersOf(s.fb),
                                           cmd.arg.draw.cover[t] = "whole",
                                           cmd.arg.draw.opaque,
                                           Paint(cmd.arg.n, x.tex, s.ver[x.tex]))]

\* do_rasterize_bin: all commands, from the first on.
ExecuteNext(c, x, i) == Execute(c[1], c[2], x, c[1].bins[c[2]][i])
Commands == INSTANCE Iteration WITH Step <- ExecuteNext

\* lp_rast_tile_begin.
TileBegin(s, t) ==
  [tile |-> s.mem[s.fb][t], vis |-> 0, tex |-> NoTexture, queries |-> s.queries]

\* lp_rast_tile_end: the queries that go on in the next scene.
TileEnd(s, x) ==
  [x EXCEPT !.queries = [q \in Queries |-> IF q \in s.active THEN EndCount(@[q], x.vis)
                                           ELSE @[q]]]

\* rasterize_bin, for a bin with commands.
RasterizeBin(s, t) ==
  IF NoBlock(s, t) THEN s
  ELSE LET x == TileEnd(s, Commands!Iterate(<<s, t>>, TileBegin(s, t), Len(s.bins[t])))
       IN [s EXCEPT !.mem[s.fb][t] = x.tile, !.queries = x.queries]
-----------------------------------------------------------------------------
(***************************************************************************)
(* lp_setup.c                                                               *)
(***************************************************************************)

\* lp_setup_reset.
SetupReset(s) == [s EXCEPT !.stored = Null, !.clear = NoClear]

\* lp_setup_rasterize_scene: all bins, in the order of their numbers.
RasterizeNext(c, s, t) == RasterizeBin(s, t)
AllBins == INSTANCE Iteration WITH Step <- RasterizeNext
RasterizeScene(s) ==
  LET r == AllBins!Iterate(NoTexture, s, NumTiles)
  IN SetupReset(EmptyScene([r EXCEPT !.done = s.fence, !.ok = TRUE]))

\* try_update_scene_state: store the state in the scene if it is a new one.
TryUpdateSceneState(s) ==
  IF s.stored # Null /\ s.stored.tex = s.tex THEN [s EXCEPT !.ok = TRUE]
  ELSE Then(SceneAlloc(s), LAMBDA r :
         AddResourceReference([r EXCEPT !.stored = [tex |-> s.tex, at |-> r.used]],
                              s.tex, s.stored = Null))

\* The pending clears of begin_binning: the colour, then depth and stencil.
PendingOf(s, bufs) == [b \in bufs \cap DOMAIN s.clear |-> s.clear[b]]
BinColorClear(s) ==
  IF "c" \notin DOMAIN s.clear THEN s
  ELSE Then(SceneAlloc(s), LAMBDA r :
         BinEverywhere(r, [op |-> "clear", arg |-> PendingOf(s, {"c"})]))
BinZsClear(s) ==
  IF DOMAIN s.clear \cap ZsBuffers = {} \/ s.fb \notin ZsBound THEN s
  ELSE BinEverywhere(s, [op |-> "clear", arg |-> PendingOf(s, ZsBuffers)])

\* begin_binning.
BeginBinning(s) ==
  LET a == TryUpdateSceneState([s EXCEPT !.fence = s.scenes + 1, !.scenes = @ + 1])
  IN Then(Then(Then(a, BinColorClear), BinZsClear), LAMBDA r :
       [r EXCEPT !.clear = NoClear, !.had_queries = s.active # {}])

\* The label fail of set_scene_state.
DropScene(s) ==
  SetupReset(EmptyScene([s EXCEPT !.state = "FLUSHED"]))

\* set_scene_state; an empty scene has nothing to be waited for.
SetSceneState(s, new) ==
  LET a == CASE new = "CLEARED" -> [s EXCEPT !.ok = TRUE]
             [] new = "ACTIVE" -> BeginBinning(s)
             [] new = "FLUSHED" ->
                  Then(IF s.state = "CLEARED" THEN BeginBinning(s)
                       ELSE [s EXCEPT !.ok = TRUE], RasterizeScene)
  IN IF s.state = new THEN [s EXCEPT !.ok = TRUE]
     ELSE IF a.ok THEN [a EXCEPT !.state = new]
     ELSE DropScene(a)

SetupFlush(s) == SetSceneState(s, "FLUSHED")

\* lp_setup_update_state: into the ACTIVE state, and once more with a new scene
\* if the state did not fit.
UpdateState(s) ==
  LET a == SetSceneState(s, "ACTIVE")
      b == TryUpdateSceneState(a)
      c == Then(SetupFlush(b), LAMBDA r : SetSceneState(r, "ACTIVE"))
  IN IF ~a.ok THEN a ELSE IF b.ok THEN b ELSE Then(c, TryUpdateSceneState)

\* lp_setup_flush_and_restart.
FlushAndRestart(s) == Then(SetupFlush(s), UpdateState)

\* A command that did not fit is binned again, all of it, in a new scene.
BinOrRestart(s, cmd) ==
  LET a == BinEverywhere(s, cmd)
  IN IF a.ok THEN a
     ELSE Then(FlushAndRestart(a), LAMBDA r : BinEverywhere(r, cmd))

\* What is to be cleared, and to which values, with one more clear.
Merge(vals, old) ==
  [b \in DOMAIN vals \cup DOMAIN old |-> IF b \in DOMAIN vals THEN vals[b] ELSE old[b]]

\* lp_setup_try_clear_color_buffer and lp_setup_try_clear_zs.
TryClear(s, vals) ==
  IF s.state = "ACTIVE"
  THEN Then(IF "c" \in DOMAIN vals THEN SceneAlloc(s) ELSE [s EXCEPT !.ok = TRUE],
            LAMBDA r : BinEverywhere(r, [op |-> "clear", arg |-> vals]))
  ELSE LET r == SetSceneState(s, "CLEARED")
       IN [r EXCEPT !.clear = Merge(vals, @), !.ok = TRUE]

\* ... and once more after a flush, from lp_setup_clear.
RetryClear(s, vals) ==
  LET a == TryClear(s, vals)
  IN IF a.ok THEN a ELSE TryClear(SetupFlush(a), vals)

\* lp_setup_clear: depth and stencil first.
ClearPart(s, bufs, n) == IF bufs = {} THEN s ELSE RetryClear(s, [b \in bufs |-> n])
SetupClear(s, bufs, n) ==
  ClearPart(ClearPart(s, bufs \cap ZsBuffers, n), bufs \cap {"c"}, n)

\* lp_setup_whole_tile may forget what an opaque triangle will paint over, but
\* not where queries count.
MayResetAlways(s) == s.fb \notin ZsBound
MayReset(s) == s.fb \notin ZsBound /\ ~s.had_queries

\* lp_setup_bin_triangle.  A triangle that is in some of its bins only is disabled.
\* (A small triangle whose only bin is full just fails in the code; here it is disabled
\* too, which nobody sees: it is in no bin.)
DisableForgotten(s, n) == s
Disable(s, n) == [s EXCEPT !.disabled = @ \cup {n}]

BinTile(s, t, d, n) ==
  IF d.cover[t] = "none" THEN s
  ELSE BinWithState(IF d.opaque /\ d.cover[t] = "whole" /\ MayReset(s)
                    THEN BinReset(s, t) ELSE s,
                    t, [op |-> "draw", arg |-> [draw |-> d, n |-> n]])
BinTileNext(c, s, t) == Then(s, LAMBDA r : BinTile(r, t, c[1], c[2]))
AllTiles == INSTANCE Iteration WITH Step <- BinTileNext
BinTriangle(s, d, n) ==
  LET a == AllTiles!Iterate(<<d, n>>, s, NumTiles)
  IN IF a.ok THEN a ELSE Disable(a, n)

\* do_triangle_ccw: memory for the triangle, then its bins.
DoTriangle(s, d, n) == Then(SceneAlloc(s), LAMBDA r : BinTriangle(r, d, n))

\* A draw of the vbuf code: the state, then the triangle, once more in a new scene
\* if it did not fit (retry_triangle_ccw).
DrawTriangle(s, d, n) ==
  Then(UpdateState([s EXCEPT !.tex = d.tex]), LAMBDA r :
    LET a == DoTriangle(r, d, n)
    IN IF a.ok THEN a ELSE Then(FlushAndRestart(a), LAMBDA x : DoTriangle(x, d, n)))

\* lp_setup_begin_query.  The query is active before its command is in the bins.
SetupBeginQuery(s, q) ==
  LET a == SetSceneState(s, "ACTIVE")
      b == BinOrRestart([a EXCEPT !.active = @ \cup {q}],
                        [op |-> "begin", arg |-> q])
  IN Then(b, LAMBDA r : [r EXCEPT !.had_queries = TRUE])

\* lp_setup_end_query.  It takes the fence first and stays active until its
\* command is in the bins.
SetupEndQuery(s, q) ==
  LET a == SetSceneState(s, "ACTIVE")
      b == BinOrRestart([a EXCEPT !.queries[q].fence = a.fence],
                        [op |-> "end", arg |-> q])
      c == Then(b, LAMBDA r : [r EXCEPT !.had_queries = TRUE])
  IN [c EXCEPT !.active = @ \ {q}]
-----------------------------------------------------------------------------
NewQuery == [start |-> 0, end |-> 0, fence |-> 0]
EmptyTile == [b \in Buffers |-> <<>>]

\* lp_setup_create.
Init ==
  /\ \E fb \in Framebuffers :
       lp = [state |-> "FLUSHED", fb |-> fb, tex |-> NoTexture, stored |-> Null,
             clear |-> NoClear, active |-> {}, ok |-> TRUE,
             bins |-> [t \in Tiles |-> <<>>], tail |-> [t \in Tiles |-> CmdBlockMax],
             last_state |-> [t \in Tiles |-> Null], used |-> 0, refs |-> {},
             fence |-> 0, disabled |-> {}, had_queries |-> FALSE,
             scenes |-> 0, done |-> 0,
             queries |-> [q \in Queries |-> NewQuery],
             ver |-> [x \in Textures \cup {NoTexture} |-> 0],
             mem |-> [f \in Framebuffers |-> [t \in Tiles |-> EmptyTile]]]
  /\ ops = 0
  /\ pic = [f \in Framebuffers |-> [t \in Tiles |-> EmptyTile]]
  /\ expect = [q \in Queries |-> 0] /\ phase = [q \in Queries |-> "new"]
  /\ torn = {} /\ late = {}

\* Calls that leave something in a scene or in memory are numbered, and bounded by
\* MaxOps; flushes, readers and changes of the framebuffer are not.
Call == ops < MaxOps /\ ops' = ops + 1

Issued(q) == lp.queries[q].fence <= lp.done

\* lp_setup_clear, for buffers there are.
Clear(bufs) ==
  /\ Call /\ bufs \subseteq BuffersOf(lp.fb)
  /\ lp' = SetupClear(lp, bufs, ops')
  /\ pic' = [pic EXCEPT ![lp.fb] =
       [t \in Tiles |-> PaintClear(@[t], [b \in bufs |-> ops'])]]
  /\ UNCHANGED <<expect, phase, torn, late>>

\* A triangle of lp_setup_vbuf.c, with the texture bound for it.
Draw(d) ==
  /\ Call
  /\ lp' = DrawTriangle(lp, d, ops')
  /\ pic' = [pic EXCEPT ![lp.fb] =
       [t \in Tiles |->
          IF d.cover[t] = "none" THEN @[t]
          ELSE PaintDraw(@[t], BuffersOf(lp.fb), d.cover[t] = "whole", d.opaque,
                         Paint(ops', d.tex, lp.ver[d.tex]))]]
  /\ expect' = [q \in Queries |->
       expect[q] + (IF phase[q] = "active"
                    THEN Cardinality({t \in Tiles : d.cover[t] # "none"}) ELSE 0)]
  /\ UNCHANGED <<phase, torn, late>>

\* llvmpipe_begin_query: a query that is still in a scene needs a flush first.
ReuseFlush(s, q) == IF Issued(q) THEN s ELSE SetupFlush(s)

BeginQuery(q) ==
  /\ Call /\ phase[q] \in {"new", "ended"}
  /\ LET s == [ReuseFlush(lp, q) EXCEPT !.queries[q].start = 0, !.queries[q].end = 0]
     IN /\ lp' = SetupBeginQuery(s, q)
        /\ torn' = IF lp'.scenes > s.scenes /\ s.state = "ACTIVE"
                   THEN torn \cup {q} ELSE torn \ {q}
  /\ phase' = [phase EXCEPT ![q] = "active"]
  /\ expect' = [expect EXCEPT ![q] = 0]
  /\ UNCHANGED <<pic, late>>

\* A command that went into some bins before the memory was used up.
HalfBinned(s, cmd) ==
  LET a == BinEverywhere(s, cmd) IN ~a.ok /\ a.bins # s.bins

\* llvmpipe_end_query.
EndQuery(q) ==
  /\ Call /\ phase[q] = "active"
  /\ lp' = SetupEndQuery(lp, q)
  /\ late' = IF lp'.queries[q].fence # lp'.fence THEN late \cup {q} ELSE late \ {q}
  /\ torn' = IF HalfBinned(SetSceneState(lp, "ACTIVE"), [op |-> "end", arg |-> q])
             THEN torn \cup {q} ELSE torn
  /\ phase' = [phase EXCEPT ![q] = "ended"]
  /\ UNCHANGED <<pic, expect>>

\* llvmpipe_get_query_result flushes the scene the result depends on, and
\* llvmpipe_destroy_query does so too before it frees the query.
ResultFlush(s, q) == IF Issued(q) THEN s ELSE SetupFlush(s)

GetQueryResult(q) ==
  /\ UNCHANGED ops /\ phase[q] = "ended"
  /\ lp' = ResultFlush(lp, q)
  /\ UNCHANGED <<pic, expect, phase, torn, late>>

DestroyFlushNever(s, q) == s
DestroyFlush(s, q) == IF Issued(q) THEN s ELSE SetupFlush(s)

DestroyQuery(q) ==
  /\ UNCHANGED ops /\ phase[q] \in {"new", "ended"}
  /\ lp' = DestroyFlush(lp, q)
  /\ phase' = [phase EXCEPT ![q] = "freed"]
  /\ UNCHANGED <<pic, expect, torn, late>>

\* llvmpipe_flush.
Flush ==
  /\ UNCHANGED ops
  /\ lp' = SetupFlush(lp)
  /\ UNCHANGED <<pic, expect, phase, torn, late>>

\* lp_setup_bind_framebuffer.
BindFramebuffer(fb) ==
  /\ UNCHANGED ops /\ fb # lp.fb
  /\ lp' = [SetupFlush(lp) EXCEPT !.fb = fb]
  /\ UNCHANGED <<pic, expect, phase, torn, late>>

\* lp_setup_is_resource_referenced: a render target is read and written, a texture
\* of the scene is read.
ReferencedForWrite(r) == r = lp.fb
ReferencedForRead(r) == r = lp.fb \/ r \in lp.refs

\* llvmpipe_flush_resource: does the access of the CPU need a flush?
NeedsFlushForWrites(r, read_only) == ReferencedForRead(r) /\ ~read_only
NeedsFlush(r, read_only) ==
  ReferencedForWrite(r) \/ (ReferencedForRead(r) /\ ~read_only)

\* What llvmpipe_transfer_map has the context do before the CPU gets the address.
MapFlush(r, read_only) == IF NeedsFlush(r, read_only) THEN SetupFlush(lp) ELSE lp

\* llvmpipe_transfer_map for reading.
MapRead(r) ==
  /\ UNCHANGED ops
  /\ lp' = MapFlush(r, TRUE)
  /\ UNCHANGED <<pic, expect, phase, torn, late>>

\* ... and for writing: a new picture in a texture, a new colour in a framebuffer.
MapWrite(r) ==
  LET s == MapFlush(r, FALSE)
      Fill(m) == [m EXCEPT ![r] =
                    [t \in Tiles |-> [@[t] EXCEPT !["c"] = <<ClearPaint(ops')>>]]]
  IN /\ Call
     /\ \/ r \in Textures /\ lp' = [s EXCEPT !.ver[r] = @ + 1] /\ UNCHANGED pic
        \/ r \in Framebuffers /\ lp' = [s EXCEPT !.mem = Fill(@)] /\ pic' = Fill(pic)
     /\ UNCHANGED <<expect, phase, torn, late>>

Next ==
  \/ \E bufs \in Clears : Clear(bufs)
  \/ \E d \in Draws : Draw(d)
  \/ \E q \in Queries : BeginQuery(q) \/ EndQuery(q) \/ GetQueryResult(q)
                        \/ DestroyQuery(q)
  \/ Flush
  \/ \E fb \in Framebuffers : BindFramebuffer(fb)
  \/ \E r \in Textures \cup Framebuffers : MapRead(r) \/ MapWrite(r)

Spec == Init /\ [][Next]_vars
-----------------------------------------------------------------------------
(***************************************************************************)
(* Properties                                                               *)
(***************************************************************************)

\* Deferral is invisible in the picture: flushing whatever the scene holds gives
\* every framebuffer exactly what clears, draws and CPU writes would have left had
\* each been carried out at once, in order.  It takes the retries of lp_setup_clear
\* and retry_triangle_ccw, which bin a command again that is already in some bins,
\* the disabling of the first attempt (lp_setup_tri.c), the reset of bins that an
\* opaque triangle covers, the clears held back in SETUP_CLEARED and the flushes
\* before the CPU changes a texture a scene still samples (llvmpipe_flush_resource).
PictureExact == SetupFlush(lp).mem = pic

\* What the CPU sees when it maps a framebuffer for reading is complete: the flush
\* decided by lp_setup_is_resource_referenced leaves none of the commands that were
\* issued before it in a scene, and clears pending in SETUP_CLEARED are written.
MapSeesAll == \A fb \in Framebuffers : MapFlush(fb, TRUE).mem[fb] = pic[fb]

\* A query counts the tiles its draws touched, each once, however many scenes the
\* draws were spread over, and its result is there once its fence is issued.  The
\* exceptions are queries whose own begin or end met a full scene (lp_setup.c:1535
\* and 1583): those are binned twice.
QueryExact ==
  \A q \in Queries :
    (phase[q] = "ended" /\ q \notin torn) =>
      /\ SetupFlush(lp).queries[q].end = expect[q]
      /\ Issued(q) => lp.queries[q].end = expect[q]

\* No bin holds a command of a query that llvmpipe_destroy_query has freed: the
\* fence tells whether a scene with its commands is still waiting.  The exception is
\* a query whose end moved to a new scene after lp_setup_end_query took the fence of
\* the old one (lp_setup.c:1564).
QueriesAlive ==
  \A t \in Tiles : \A i \in DOMAIN lp.bins[t] :
    LET cmd == lp.bins[t][i]
    IN (cmd.op \in {"begin", "end"} /\ cmd.arg \notin late) => phase[cmd.arg] # "freed"
=============================================================================
