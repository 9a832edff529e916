--------------------------- MODULE LpSetupProofs ---------------------------
(***************************************************************************)
(* Proofs about the setup module, for any number of bins, textures and      *)
(* framebuffers and any size of a scene: the picture is as if nothing had   *)
(* been deferred (PictureExact), the CPU sees all of it (MapSeesAll) and no *)
(* bin refers to a query that is gone (QueriesAlive).                       *)
(***************************************************************************)
EXTENDS LpSetup, TLAPS

(***************************************************************************)
(* Types                                                                    *)
(***************************************************************************)
TexOrNone == Textures \cup {NoTexture}
Paints == [n : Nat, tex : TexOrNone, ver : Nat]
Pictures == [Buffers -> Seq(Paints)]
ClearValues == UNION {[B -> Nat] : B \in SUBSET Buffers}
RastStates == [tex : TexOrNone, at : Nat]
QueryTypes == [start : Int, end : Int, fence : Nat]

\* The commands of a bin.
ClearCommands == [op : {"clear"}, arg : ClearValues]
StateCommands == [op : {"state"}, arg : TexOrNone]
QueryCommands == [op : {"begin", "end"}, arg : Queries]
DrawCommands == [op : {"draw"}, arg : [draw : Triangles, n : Nat]]
CommandTypes == ClearCommands \cup StateCommands \cup QueryCommands \cup DrawCommands

\* The context, and a thread with the tile it works on.
LpStates ==
  [state : {"FLUSHED", "CLEARED", "ACTIVE"}, fb : Framebuffers, tex : TexOrNone,
   stored : RastStates, clear : ClearValues, active : SUBSET Queries, ok : BOOLEAN,
   bins : [Tiles -> Seq(CommandTypes)], tail : [Tiles -> 0 .. CmdBlockMax],
   last_state : [Tiles -> RastStates], used : 0 .. Room, refs : SUBSET Textures,
   fence : Nat, disabled : SUBSET Nat, had_queries : BOOLEAN, scenes : Nat, done : Nat,
   queries : [Queries -> QueryTypes], ver : [TexOrNone -> Nat],
   mem : [Framebuffers -> [Tiles -> Pictures]]]
TileStates ==
  [tile : Pictures, vis : Nat, tex : TexOrNone, queries : [Queries -> QueryTypes]]

\* The constants, as the provers use them.
LEMMA Constants ==
  /\ NumTiles \in Nat /\ NumTiles > 0 /\ CmdBlockMax \in Nat /\ CmdBlockMax >= 2
  /\ Room \in Nat /\ Room >= 3 + 2 * NumTiles
  /\ Tiles \subseteq Nat /\ \A t \in Tiles : t >= 1 /\ t <= NumTiles
  BY SizesAssumption, RoomAssumption DEF Tiles

\* No state, and no pending clear, have the types of states and clears.
LEMMA NullTyped == Null \in RastStates /\ NoClear \in ClearValues /\ DOMAIN NoClear = {}
  <1>1. Null \in RastStates
    BY DEF Null, RastStates, TexOrNone
  <1>2. NoClear \in [{} -> Nat] /\ DOMAIN NoClear = {}
    BY DEF NoClear
  <1> QED BY <1>1, <1>2 DEF ClearValues

\* A tile that nothing was painted in is a picture.
LEMMA PicturesInhabited == EmptyTile \in Pictures
  BY DEF EmptyTile, Pictures

-----------------------------------------------------------------------------
(***************************************************************************)
(* The execution of a bin                                                   *)
(***************************************************************************)

\* Painting gives pictures.
LEMMA PaintTyped ==
  ASSUME NEW old \in Pictures
  PROVE  /\ \A vals \in ClearValues : PaintClear(old, vals) \in Pictures
         /\ \A bufs, whole, opaque : \A paint \in Paints :
              PaintDraw(old, bufs, whole, opaque, paint) \in Pictures
  <1>1. ASSUME NEW vals \in ClearValues PROVE PaintClear(old, vals) \in Pictures
    <2>1. ASSUME NEW b \in DOMAIN vals PROVE <<ClearPaint(vals[b])>> \in Seq(Paints)
      <3>1. vals[b] \in Nat
        BY DEF ClearValues
      <3>2. ClearPaint(vals[b]) \in Paints
        BY <3>1 DEF ClearPaint, Paint, Paints, TexOrNone
      <3> QED BY <3>2
    <2> QED BY <2>1 DEF PaintClear, Pictures
  <1>2. ASSUME NEW bufs, NEW whole, NEW opaque, NEW paint \in Paints
        PROVE  PaintDraw(old, bufs, whole, opaque, paint) \in Pictures
    <2>1. ASSUME NEW b \in Buffers
          PROVE  /\ old[b] \in Seq(Paints) /\ Append(old[b], paint) \in Seq(Paints)
                 /\ <<paint>> \in Seq(Paints)
      BY DEF Pictures
    <2> QED BY <2>1 DEF PaintDraw, Pictures
  <1> QED BY <1>1, <1>2

\* A query that begins and one that ends.
LEMMA CountTyped ==
  ASSUME NEW query \in QueryTypes, NEW vis \in Nat
  PROVE  /\ EndCount(query, vis) \in QueryTypes
         /\ [query EXCEPT !.start = vis] \in QueryTypes
         /\ EndCount(query, vis).fence = query.fence
  <1>1. query.start \in Int /\ query.end \in Int /\ query.fence \in Nat
    BY DEF QueryTypes
  <1>2. query.end + vis - query.start \in Int
    BY <1>1
  <1>3. \A e, f \in Int : [query EXCEPT !.end = e, !.start = f] \in QueryTypes
    BY DEF QueryTypes
  <1>4. EndCount(query, vis) = [query EXCEPT !.end = query.end + vis - query.start, !.start = 0]
    BY DEF EndCount
  <1>5. EndCount(query, vis).fence = query.fence
    BY <1>4 DEF QueryTypes
  <1>6. [query EXCEPT !.start = vis] \in QueryTypes
    BY DEF QueryTypes
  <1>7. EndCount(query, vis) \in QueryTypes
    <2> DEFINE e == query.end + vis - query.start
    <2> HIDE DEF e
    <2>1. e \in Int /\ 0 \in Int
      BY <1>2 DEF e
    <2>2. [query EXCEPT !.end = e, !.start = 0] \in QueryTypes
      BY Zenon, <2>1, <1>3
    <2> QED BY Zenon, <1>4, <2>2 DEF e
  <1> QED BY <1>5, <1>6, <1>7

\* What a command does to the thread and to the tile.
LEMMA ExecuteTyped ==
  ASSUME NEW s \in LpStates, NEW t \in Tiles, NEW x \in TileStates, NEW cmd \in CommandTypes
  PROVE  Execute(s, t, x, cmd) \in TileStates
  <1>1. CASE cmd \in ClearCommands
    <2>1. cmd.op = "clear" /\ cmd.arg \in ClearValues
      BY <1>1 DEF ClearCommands
    <2>2. PaintClear(x.tile, cmd.arg) \in Pictures
      BY <2>1, PaintTyped DEF TileStates
    <2>3. Execute(s, t, x, cmd) = [x EXCEPT !.tile = PaintClear(@, cmd.arg)]
      BY <2>1 DEF Execute
    <2> QED BY <2>2, <2>3 DEF TileStates
  <1>2. CASE cmd \in StateCommands
    <2>1. cmd.op = "state" /\ cmd.arg \in TexOrNone
      BY <1>2 DEF StateCommands
    <2>2. Execute(s, t, x, cmd) = [x EXCEPT !.tex = cmd.arg]
      BY <2>1 DEF Execute
    <2> QED BY <2>1, <2>2 DEF TileStates
  <1>3. CASE cmd \in QueryCommands
    <2>1. cmd.op \in {"begin", "end"} /\ cmd.arg \in Queries
      BY <1>3 DEF QueryCommands
    <2>2. /\ x.queries[cmd.arg] \in QueryTypes /\ x.vis \in Nat
          /\ x.queries \in [Queries -> QueryTypes]
      BY <2>1 DEF TileStates
    <2>3. CASE cmd.op = "begin"
      <3>1. Execute(s, t, x, cmd) = [x EXCEPT !.queries[cmd.arg].start = x.vis]
        BY <2>3 DEF Execute, RastBeginQuery
      <3>2. [x.queries EXCEPT ![cmd.arg].start = x.vis] \in [Queries -> QueryTypes]
        BY <2>1, <2>2 DEF QueryTypes
      <3> QED BY <3>1, <3>2 DEF TileStates
    <2>4. CASE cmd.op = "end"
      <3>1. Execute(s, t, x, cmd) = [x EXCEPT !.queries[cmd.arg] = EndCount(@, x.vis)]
        BY <2>4 DEF Execute, RastEndQuery
      <3>2. [x.queries EXCEPT ![cmd.arg] = EndCount(@, x.vis)] \in [Queries -> QueryTypes]
        BY <2>1, <2>2, CountTyped
      <3> QED BY <3>1, <3>2 DEF TileStates
    <2> QED BY <2>1, <2>3, <2>4
  <1>4. CASE cmd \in DrawCommands
    <2>1. cmd.op = "draw" /\ cmd.arg.n \in Nat
      BY <1>4 DEF DrawCommands
    <2>2. CASE cmd.arg.n \in s.disabled
      BY <2>1, <2>2 DEF Execute
    <2>3. CASE cmd.arg.n \notin s.disabled
      <3> DEFINE paint == Paint(cmd.arg.n, x.tex, s.ver[x.tex])
                 new == PaintDraw(x.tile, BuffersOf(s.fb), cmd.arg.draw.cover[t] = "whole",
                                  cmd.arg.draw.opaque, paint)
      <3>1. paint \in Paints
        BY <2>1 DEF Paint, Paints, LpStates, TileStates
      <3>2. new \in Pictures /\ x.vis + 1 \in Nat
        BY <3>1, PaintTyped DEF TileStates
      <3>3. Execute(s, t, x, cmd) = [x EXCEPT !.vis = @ + 1, !.tile = new]
        BY <2>1, <2>3 DEF Execute
      <3> HIDE DEF new
      <3> QED BY <3>2, <3>3 DEF TileStates
    <2> QED BY <2>2, <2>3
  <1> QED BY <1>1, <1>2, <1>3, <1>4 DEF CommandTypes

\* What has come of the tile after n commands of its bin, and after all of them.
After(s, t, n) == Commands!Iterate(<<s, t>>, TileBegin(s, t), n)
Run(s, t) == After(s, t, Len(s.bins[t]))

\* After one command more a tile is what that command makes of it.
LEMMA AfterUnfold ==
  ASSUME NEW s, NEW t
  PROVE  /\ After(s, t, 0) = TileBegin(s, t)
         /\ \A n \in Nat :
              After(s, t, n + 1) = Execute(s, t, After(s, t, n), s.bins[t][n + 1])
  <1>1. After(s, t, 0) = TileBegin(s, t)
    BY Commands!Unfold DEF After
  <1>2. ASSUME NEW n \in Nat
        PROVE  After(s, t, n + 1) = Execute(s, t, After(s, t, n), s.bins[t][n + 1])
    <2>1. After(s, t, n + 1) = ExecuteNext(<<s, t>>, After(s, t, n), n + 1)
      BY Commands!Unfold DEF After
    <2> QED BY <2>1 DEF ExecuteNext
  <1> QED BY <1>1, <1>2

\* The types of a bin and of the tile that its execution begins with.
LEMMA BinTyped ==
  ASSUME NEW s \in LpStates, NEW t \in Tiles
  PROVE  /\ s.bins[t] \in Seq(CommandTypes) /\ Len(s.bins[t]) \in Nat
         /\ DOMAIN s.bins[t] = 1 .. Len(s.bins[t])
         /\ \A i \in 1 .. Len(s.bins[t]) : s.bins[t][i] \in CommandTypes
         /\ TileBegin(s, t) \in TileStates
         /\ s.mem[s.fb][t] \in Pictures
  <1>1. s.bins[t] \in Seq(CommandTypes)
    BY DEF LpStates
  <1>2. s.mem[s.fb][t] \in Pictures
    BY DEF LpStates
  <1>3. TileBegin(s, t) \in TileStates
    BY <1>2 DEF LpStates, TileBegin, TileStates, TexOrNone
  <1> HIDE DEF LpStates
  <1> QED BY <1>1, <1>2, <1>3

\* The types of a tile during and after the execution of its bin.
LEMMA AfterTyped ==
  ASSUME NEW s \in LpStates, NEW t \in Tiles
  PROVE  /\ \A n \in 0 .. Len(s.bins[t]) : After(s, t, n) \in TileStates
         /\ Run(s, t) \in TileStates
  <1> DEFINE S == {n \in Nat : n <= Len(s.bins[t]) => After(s, t, n) \in TileStates}
  <1>1. 0 \in S
    BY AfterUnfold, BinTyped
  <1>2. ASSUME NEW n \in 0 .. Len(s.bins[t]) - 1, n \in S PROVE n + 1 \in S
    <2>1. n + 1 \in 1 .. Len(s.bins[t]) /\ n \in Nat
      BY BinTyped
    <2>2. After(s, t, n) \in TileStates
      BY <1>2, <2>1, BinTyped
    <2>3. After(s, t, n + 1) \in TileStates
      BY <2>1, <2>2, BinTyped, AfterUnfold, ExecuteTyped
    <2> QED BY <2>1, <2>3
  <1> HIDE DEF S
  <1>3. \A n \in 0 .. Len(s.bins[t]) : n \in S
    BY <1>1, <1>2, Commands!Induction, BinTyped
  <1> QED BY <1>3, BinTyped DEF S, Run

\* What the commands of a bin make of a tile depends on little else: which draws
\* are disabled and the versions of the textures that the scene refers to.
Alike(s, u, t, n) ==
  /\ s.fb = u.fb /\ s.mem[s.fb][t] = u.mem[s.fb][t]
  /\ n <= Len(s.bins[t]) /\ n <= Len(u.bins[t])
  /\ \A i \in 1 .. n :
       /\ u.bins[t][i] = s.bins[t][i]
       /\ s.bins[t][i] \in DrawCommands =>
            (s.bins[t][i].arg.n \in s.disabled <=> s.bins[t][i].arg.n \in u.disabled)
       /\ s.bins[t][i] \in StateCommands => s.bins[t][i].arg \in s.refs \cup {NoTexture}
  /\ \A x \in s.refs \cup {NoTexture} : u.ver[x] = s.ver[x]

\* A command is of the kind its opcode tells.
LEMMA CommandKinds ==
  ASSUME NEW cmd \in CommandTypes
  PROVE  /\ cmd.op = "clear" <=> cmd \in ClearCommands
         /\ cmd.op = "state" <=> cmd \in StateCommands
         /\ cmd.op \in {"begin", "end"} <=> cmd \in QueryCommands
         /\ cmd.op = "draw" <=> cmd \in DrawCommands
  BY DEF CommandTypes, ClearCommands, StateCommands, QueryCommands, DrawCommands

\* The tile and the texture a command leaves, from those before it.
LEMMA ExecuteParts ==
  ASSUME NEW s \in LpStates, NEW t \in Tiles, NEW x \in TileStates, NEW cmd \in CommandTypes
  PROVE  /\ cmd \in ClearCommands =>
              /\ Execute(s, t, x, cmd).tile = PaintClear(x.tile, cmd.arg)
              /\ Execute(s, t, x, cmd).tex = x.tex
         /\ cmd \in StateCommands =>
              /\ Execute(s, t, x, cmd).tile = x.tile
              /\ Execute(s, t, x, cmd).tex = cmd.arg
         /\ cmd \in QueryCommands =>
              /\ Execute(s, t, x, cmd).tile = x.tile
              /\ Execute(s, t, x, cmd).tex = x.tex
         /\ cmd \in DrawCommands =>
              /\ Execute(s, t, x, cmd).tile =
                   IF cmd.arg.n \in s.disabled THEN x.tile
                   ELSE PaintDraw(x.tile, BuffersOf(s.fb), cmd.arg.draw.cover[t] = "whole",
                                  cmd.arg.draw.opaque, Paint(cmd.arg.n, x.tex, s.ver[x.tex]))
              /\ Execute(s, t, x, cmd).tex = x.tex
  <1>1. CASE cmd \in ClearCommands
    <2>1. cmd.op = "clear"
      BY <1>1, CommandKinds
    <2>2. cmd \notin StateCommands /\ cmd \notin QueryCommands /\ cmd \notin DrawCommands
      BY <2>1, CommandKinds
    <2>3. Execute(s, t, x, cmd) = [x EXCEPT !.tile = PaintClear(@, cmd.arg)]
      BY <2>1 DEF Execute
    <2> QED BY <2>2, <2>3 DEF TileStates
  <1>2. CASE cmd \in StateCommands
    <2>1. cmd.op = "state"
      BY <1>2, CommandKinds
    <2>2. cmd \notin ClearCommands /\ cmd \notin QueryCommands /\ cmd \notin DrawCommands
      BY <2>1, CommandKinds
    <2>3. Execute(s, t, x, cmd) = [x EXCEPT !.tex = cmd.arg]
      BY <2>1 DEF Execute
    <2> QED BY <2>2, <2>3 DEF TileStates
  <1>3. CASE cmd \in QueryCommands
    <2>1. cmd.op \in {"begin", "end"}
      BY <1>3, CommandKinds
    <2>2. cmd \notin ClearCommands /\ cmd \notin StateCommands /\ cmd \notin DrawCommands
      BY <2>1, CommandKinds
    <2>3. \E qs : Execute(s, t, x, cmd) = [x EXCEPT !.queries = qs]
      <3>1. CASE cmd.op = "begin"
        BY <3>1 DEF Execute, RastBeginQuery
      <3>2. CASE cmd.op = "end"
        BY <3>2 DEF Execute, RastEndQuery
      <3> QED BY <2>1, <3>1, <3>2
    <2> QED BY <2>2, <2>3 DEF TileStates
  <1>4. CASE cmd \in DrawCommands
    <2>1. cmd.op = "draw"
      BY <1>4, CommandKinds
    <2>2. cmd \notin ClearCommands /\ cmd \notin StateCommands /\ cmd \notin QueryCommands
      BY <2>1, CommandKinds
    <2>3. CASE cmd.arg.n \in s.disabled
      BY <2>1, <2>2, <2>3 DEF Execute
    <2>4. CASE cmd.arg.n \notin s.disabled
      <3> DEFINE new == PaintDraw(x.tile, BuffersOf(s.fb), cmd.arg.draw.cover[t] = "whole",
                                  cmd.arg.draw.opaque, Paint(cmd.arg.n, x.tex, s.ver[x.tex]))
      <3>1. Execute(s, t, x, cmd) = [x EXCEPT !.vis = @ + 1, !.tile = new]
        BY <2>1, <2>4 DEF Execute
      <3> HIDE DEF new
      <3>2. Execute(s, t, x, cmd).tile = new /\ Execute(s, t, x, cmd).tex = x.tex
        BY <3>1 DEF TileStates
      <3> QED BY <2>2, <2>4, <3>2 DEF new
    <2> QED BY <2>3, <2>4
  <1> QED BY <1>1, <1>2, <1>3, <1>4 DEF CommandTypes

\* Scenes that are alike in a bin paint the same.
LEMMA AfterAlike ==
  ASSUME NEW s \in LpStates, NEW u \in LpStates, NEW t \in Tiles, NEW n \in Nat,
         Alike(s, u, t, n)
  PROVE  /\ After(u, t, n).tile = After(s, t, n).tile
         /\ After(u, t, n).tex = After(s, t, n).tex
         /\ After(s, t, n).tex \in s.refs \cup {NoTexture}
  <1> DEFINE Same(m) == /\ After(u, t, m).tile = After(s, t, m).tile
                        /\ After(u, t, m).tex = After(s, t, m).tex
                        /\ After(s, t, m).tex \in s.refs \cup {NoTexture}
             S == {m \in Nat : Same(m)}
  <1>1. 0 \in S
    <2>1. TileBegin(s, t).tile = TileBegin(u, t).tile
      BY DEF Alike, TileBegin
    <2>2. TileBegin(s, t).tex = NoTexture /\ TileBegin(u, t).tex = NoTexture
      BY DEF TileBegin
    <2> QED BY <2>1, <2>2, AfterUnfold
  <1>2. ASSUME NEW m \in 0 .. n - 1, m \in S PROVE m + 1 \in S
    <2> DEFINE cmd == s.bins[t][m + 1]
               x == After(s, t, m)
               y == After(u, t, m)
    <2>1. m \in Nat /\ m + 1 \in 1 .. n /\ m \in 0 .. Len(s.bins[t]) /\ m \in 0 .. Len(u.bins[t])
          /\ m + 1 \in 1 .. Len(s.bins[t])
      BY BinTyped DEF Alike
    <2>2. cmd \in CommandTypes /\ x \in TileStates /\ y \in TileStates
      BY <2>1, AfterTyped, BinTyped
    <2>3. /\ After(s, t, m + 1) = Execute(s, t, x, cmd)
          /\ After(u, t, m + 1) = Execute(u, t, y, cmd)
      <3>1. u.bins[t][m + 1] = cmd
        BY <2>1 DEF Alike
      <3> QED BY <2>1, <3>1, AfterUnfold
    <2>4. y.tile = x.tile /\ y.tex = x.tex /\ x.tex \in s.refs \cup {NoTexture}
      BY <1>2
    <2>5. /\ u.fb = s.fb /\ u.ver[y.tex] = s.ver[x.tex]
          /\ cmd \in DrawCommands => (cmd.arg.n \in s.disabled <=> cmd.arg.n \in u.disabled)
          /\ cmd \in StateCommands => cmd.arg \in s.refs \cup {NoTexture}
      BY <2>1, <2>4 DEF Alike
    <2> HIDE DEF cmd, x, y
    <2>6. Execute(u, t, y, cmd).tile = Execute(s, t, x, cmd).tile
      <3>1. CASE cmd \in ClearCommands
        BY <3>1, <2>2, <2>4, ExecuteParts
      <3>2. CASE cmd \in StateCommands \cup QueryCommands
        BY <3>2, <2>2, <2>4, ExecuteParts
      <3>3. CASE cmd \in DrawCommands
        BY <3>3, <2>2, <2>4, <2>5, ExecuteParts
      <3> QED BY <3>1, <3>2, <3>3, <2>2 DEF CommandTypes
    <2>7. /\ Execute(u, t, y, cmd).tex = Execute(s, t, x, cmd).tex
          /\ Execute(s, t, x, cmd).tex \in s.refs \cup {NoTexture}
      BY <2>2, <2>4, <2>5, ExecuteParts DEF CommandTypes
    <2> QED BY <2>1, <2>3, <2>6, <2>7
  <1> HIDE DEF S
  <1>3. n \in S
    BY <1>1, <1>2, Commands!Induction
  <1> QED BY <1>3 DEF S

\* A command more in the bin is a command more to execute.
LEMMA RunAppend ==
  ASSUME NEW s \in LpStates, NEW u \in LpStates, NEW t \in Tiles, NEW cmd \in CommandTypes,
         u.bins[t] = Append(s.bins[t], cmd), Alike(s, u, t, Len(s.bins[t]))
  PROVE  \E x \in TileStates :
           /\ x.tile = Run(s, t).tile /\ x.tex = Run(s, t).tex
           /\ x.tex \in s.refs \cup {NoTexture}
           /\ Run(u, t) = Execute(u, t, x, cmd)
  <1> DEFINE n == Len(s.bins[t])
             x == After(u, t, n)
  <1>1. n \in Nat /\ Len(u.bins[t]) = n + 1 /\ u.bins[t][n + 1] = cmd
    BY BinTyped
  <1>2. x \in TileStates
    BY <1>1, AfterTyped
  <1>3. x.tile = Run(s, t).tile /\ x.tex = Run(s, t).tex /\ x.tex \in s.refs \cup {NoTexture}
    BY <1>1, AfterAlike DEF Run
  <1>4. Run(u, t) = Execute(u, t, x, cmd)
    BY <1>1, AfterUnfold DEF Run
  <1> QED BY <1>2, <1>3, <1>4

-----------------------------------------------------------------------------
(***************************************************************************)
(* The invariant of a scene                                                 *)
(***************************************************************************)

\* A scene nothing has been binned in.
Empty(s) ==
  /\ s.bins = [t \in Tiles |-> <<>>] /\ s.tail = [t \in Tiles |-> CmdBlockMax]
  /\ s.last_state = [t \in Tiles |-> Null] /\ s.used = 0 /\ s.refs = {}
  /\ s.disabled = {} /\ s.stored = Null

\* The textures that the bins use are referenced, and only an ACTIVE scene has
\* something in its bins.
Referenced(s) ==
  /\ \A t \in Tiles : \A i \in 1 .. Len(s.bins[t]) :
       s.bins[t][i] \in StateCommands => s.bins[t][i].arg \in s.refs \cup {NoTexture}
  /\ s.stored.tex \in s.refs \cup {NoTexture}
Phases(s) ==
  /\ s.state = "ACTIVE" => /\ s.stored # Null /\ s.clear = NoClear
                           /\ s.fence = s.scenes /\ s.done < s.scenes
  /\ s.state # "ACTIVE" => Empty(s) /\ s.done <= s.scenes
  /\ s.state = "FLUSHED" => s.clear = NoClear
  /\ DOMAIN s.clear \subseteq BuffersOf(s.fb)
Scene(s) == s \in LpStates /\ Referenced(s) /\ Phases(s)

\* A thread that has executed a bin has the state that setup takes it to have.
StatesMatch(s) ==
  \A t \in Tiles : s.last_state[t] # Null => Run(s, t).tex = s.last_state[t].tex

\* Calls after the n-th have left nothing in the scene.
Numbers(s, n) ==
  /\ \A t \in Tiles : \A i \in 1 .. Len(s.bins[t]) :
       s.bins[t][i] \in DrawCommands => s.bins[t][i].arg.n <= n
  /\ \A k \in s.disabled : k <= n

Good(s, n) == Scene(s) /\ StatesMatch(s) /\ Numbers(s, n)

\* What the framebuffer would be if the scene were flushed.
Shown(s, t) == PaintClear(Run(s, t).tile, s.clear)

\* The fields that binning leaves alone.
SameScene(s, u) ==
  /\ u.state = s.state /\ u.fb = s.fb /\ u.tex = s.tex /\ u.stored = s.stored
  /\ u.clear = s.clear /\ u.active = s.active /\ u.refs = s.refs /\ u.fence = s.fence
  /\ u.disabled = s.disabled /\ u.had_queries = s.had_queries /\ u.scenes = s.scenes
  /\ u.done = s.done /\ u.queries = s.queries /\ u.ver = s.ver /\ u.mem = s.mem

\* A bin that was not touched paints what it did.
LEMMA SameSceneAlike ==
  ASSUME NEW s \in LpStates, NEW u \in LpStates, Referenced(s), SameScene(s, u),
         NEW t \in Tiles, u.bins[t] = s.bins[t]
  PROVE  /\ Alike(s, u, t, Len(s.bins[t]))
         /\ Run(u, t).tile = Run(s, t).tile /\ Run(u, t).tex = Run(s, t).tex
  <1>1. Alike(s, u, t, Len(s.bins[t]))
    BY BinTyped DEF SameScene, Alike, Referenced
  <1> QED BY <1>1, AfterAlike, BinTyped DEF Run

\* A bin with one command more paints what it did, and then that command.
LEMMA SameSceneAppend ==
  ASSUME NEW s \in LpStates, NEW u \in LpStates, Referenced(s), SameScene(s, u),
         NEW t \in Tiles, NEW cmd \in CommandTypes, u.bins[t] = Append(s.bins[t], cmd)
  PROVE  \E x \in TileStates :
           /\ x.tile = Run(s, t).tile /\ x.tex = Run(s, t).tex
           /\ x.tex \in s.refs \cup {NoTexture}
           /\ Run(u, t) = Execute(u, t, x, cmd)
  <1>1. ASSUME NEW i \in 1 .. Len(s.bins[t]) PROVE u.bins[t][i] = s.bins[t][i]
    BY BinTyped
  <1>2. Len(u.bins[t]) = Len(s.bins[t]) + 1 /\ Len(s.bins[t]) \in Nat
    BY BinTyped
  <1>3. Alike(s, u, t, Len(s.bins[t]))
    BY <1>1, <1>2 DEF SameScene, Alike, Referenced
  <1> QED BY <1>3, RunAppend

-----------------------------------------------------------------------------
(***************************************************************************)
(* Commands for a bin                                                       *)
(***************************************************************************)

\* lp_scene_alloc leaves everything else alone.
LEMMA AllocEffect ==
  ASSUME NEW s \in LpStates
  PROVE  /\ SceneAlloc(s) \in LpStates /\ SameScene(s, SceneAlloc(s))
         /\ SceneAlloc(s).bins = s.bins /\ SceneAlloc(s).tail = s.tail
         /\ SceneAlloc(s).last_state = s.last_state
         /\ SceneAlloc(s).ok => SceneAlloc(s).used = s.used + 1
         /\ ~ SceneAlloc(s).ok => SceneAlloc(s).used = s.used /\ s.used = Room
         /\ SceneAlloc(s).ok \in BOOLEAN
  <1>1. CASE s.used < Room
    <2>1. s.used + 1 \in 0 .. Room
      BY <1>1, Constants DEF LpStates
    <2>2. SceneAlloc(s) = [s EXCEPT !.used = s.used + 1, !.ok = TRUE]
      BY <1>1 DEF SceneAlloc
    <2>3. SceneAlloc(s) \in LpStates
      BY <2>1, <2>2 DEF LpStates
    <2>4. SceneAlloc(s).used = s.used + 1 /\ SceneAlloc(s).ok = TRUE
      BY <2>2 DEF LpStates
    <2>5. SameScene(s, SceneAlloc(s))
      BY <2>2 DEF LpStates, SameScene
    <2>6. /\ SceneAlloc(s).bins = s.bins /\ SceneAlloc(s).tail = s.tail
          /\ SceneAlloc(s).last_state = s.last_state
      BY <2>2 DEF LpStates
    <2> QED BY <2>3, <2>4, <2>5, <2>6
  <1>2. CASE ~ (s.used < Room)
    <2>1. s.used = Room
      BY <1>2, Constants DEF LpStates
    <2>2. SceneAlloc(s) = [s EXCEPT !.ok = FALSE]
      BY <1>2 DEF SceneAlloc
    <2>3. SceneAlloc(s) \in LpStates
      BY <2>2 DEF LpStates
    <2>4. SceneAlloc(s).used = s.used /\ SceneAlloc(s).ok = FALSE
      BY <2>2 DEF LpStates
    <2>5. SameScene(s, SceneAlloc(s))
      BY <2>2 DEF LpStates, SameScene
    <2>6. /\ SceneAlloc(s).bins = s.bins /\ SceneAlloc(s).tail = s.tail
          /\ SceneAlloc(s).last_state = s.last_state
      BY <2>2 DEF LpStates
    <2> QED BY <2>1, <2>3, <2>4, <2>5, <2>6
  <1> QED BY <1>1, <1>2

\* A command more in a bin whose last block then has l of them.
Put(s, t, cmd, l) ==
  [s EXCEPT !.bins = [s.bins EXCEPT ![t] = Append(s.bins[t], cmd)],
            !.tail = [s.tail EXCEPT ![t] = l], !.ok = TRUE]

\* What storing a command in a block changes.
LEMMA PutEffect ==
  ASSUME NEW s \in LpStates, NEW t \in Tiles, NEW cmd \in CommandTypes,
         NEW l \in 1 .. CmdBlockMax, NEW u, u = Put(s, t, cmd, l)
  PROVE  /\ u \in LpStates /\ SameScene(s, u) /\ u.ok /\ u.used = s.used
         /\ u.last_state = s.last_state
         /\ u.bins[t] = Append(s.bins[t], cmd) /\ u.tail[t] = l
         /\ \A k \in Tiles \ {t} : u.bins[k] = s.bins[k] /\ u.tail[k] = s.tail[k]
  <1> DEFINE bins == [s.bins EXCEPT ![t] = Append(s.bins[t], cmd)]
             tail == [s.tail EXCEPT ![t] = l]
  <1>1. bins \in [Tiles -> Seq(CommandTypes)]
    BY DEF LpStates
  <1>2. tail \in [Tiles -> 0 .. CmdBlockMax]
    BY Constants DEF LpStates
  <1>3. u = [s EXCEPT !.bins = bins, !.tail = tail, !.ok = TRUE]
    BY DEF Put
  <1>4. /\ bins[t] = Append(s.bins[t], cmd) /\ tail[t] = l
        /\ \A k \in Tiles \ {t} : bins[k] = s.bins[k] /\ tail[k] = s.tail[k]
    BY DEF LpStates
  <1> HIDE DEF bins, tail
  <1>5. u \in LpStates
    BY <1>1, <1>2, <1>3 DEF LpStates
  <1>6. u.bins = bins /\ u.tail = tail /\ u.ok /\ u.used = s.used /\ u.last_state = s.last_state
    BY <1>3 DEF LpStates
  <1>7. SameScene(s, u)
    BY <1>3 DEF LpStates, SameScene
  <1> QED BY <1>4, <1>5, <1>6, <1>7

\* lp_scene_bin_command: the command is in the bin, or there is no memory for a block.
LEMMA BinCommandEffect ==
  ASSUME NEW s \in LpStates, NEW t \in Tiles, NEW cmd \in CommandTypes, NEW u,
         u = BinCommand(s, t, cmd)
  PROVE  /\ u \in LpStates /\ SameScene(s, u) /\ u.last_state = s.last_state
         /\ \A k \in Tiles \ {t} : u.bins[k] = s.bins[k] /\ u.tail[k] = s.tail[k]
         /\ u.ok => /\ u.bins[t] = Append(s.bins[t], cmd)
                    /\ u.tail[t] = IF s.tail[t] < CmdBlockMax THEN s.tail[t] + 1 ELSE 1
                    /\ u.used = IF s.tail[t] < CmdBlockMax THEN s.used ELSE s.used + 1
         /\ ~ u.ok => /\ u.bins[t] = s.bins[t] /\ u.tail[t] = s.tail[t] /\ u.used = s.used
                      /\ s.tail[t] = CmdBlockMax /\ s.used = Room
  <1>0. s.tail[t] \in 0 .. CmdBlockMax
    BY DEF LpStates
  <1>1. CASE s.tail[t] < CmdBlockMax
    <2>1. s.tail[t] + 1 \in 1 .. CmdBlockMax
      BY <1>0, <1>1, Constants
    <2>2. u = Put(s, t, cmd, s.tail[t] + 1)
      BY <1>1 DEF BinCommand, Then, LpStates, Put
    <2>3. /\ u \in LpStates /\ SameScene(s, u) /\ u.ok /\ u.used = s.used
          /\ u.last_state = s.last_state
          /\ u.bins[t] = Append(s.bins[t], cmd) /\ u.tail[t] = s.tail[t] + 1
          /\ \A k \in Tiles \ {t} : u.bins[k] = s.bins[k] /\ u.tail[k] = s.tail[k]
      BY <2>1, <2>2, PutEffect
    <2> QED BY <1>1, <2>3
  <1>2. CASE ~ (s.tail[t] < CmdBlockMax) /\ ~ SceneAlloc(s).ok
    <2>1. u = SceneAlloc(s)
      BY <1>2 DEF BinCommand, Then
    <2> QED BY <1>0, <1>2, <2>1, AllocEffect, Constants
  <1>3. CASE ~ (s.tail[t] < CmdBlockMax) /\ SceneAlloc(s).ok
    <2> DEFINE a == SceneAlloc(s)
    <2>1. a \in LpStates /\ a.ok = TRUE /\ a.tail = s.tail /\ a.bins = s.bins
      BY <1>3, AllocEffect
    <2>2. u = Put(a, t, cmd, 1)
      <3> DEFINE b == [a EXCEPT !.tail[t] = 0]
      <3>1. BinCommand(s, t, cmd) = Then(Then(a, LAMBDA r : [r EXCEPT !.tail[t] = 0]),
                    LAMBDA r : [r EXCEPT !.bins[t] = Append(@, cmd), !.tail[t] = @ + 1])
        BY <1>3 DEF BinCommand
      <3> HIDE DEF a
      <3>2. b.ok = TRUE /\ b.tail = [a.tail EXCEPT ![t] = 0] /\ b.bins = a.bins
        BY <2>1 DEF LpStates
      <3>3. Then(a, LAMBDA r : [r EXCEPT !.tail[t] = 0]) = b
        BY <2>1 DEF Then
      <3>4. u = [b EXCEPT !.bins[t] = Append(@, cmd), !.tail[t] = @ + 1]
        BY <3>1, <3>2, <3>3 DEF Then
      <3>5. u = [b EXCEPT !.bins = [b.bins EXCEPT ![t] = Append(b.bins[t], cmd)],
                          !.tail = [b.tail EXCEPT ![t] = b.tail[t] + 1]]
        BY <3>4
      <3>6. [b.tail EXCEPT ![t] = b.tail[t] + 1] = [a.tail EXCEPT ![t] = 1]
        BY <3>2, <2>1 DEF LpStates
      <3>7. u = [b EXCEPT !.bins = [a.bins EXCEPT ![t] = Append(a.bins[t], cmd)],
                          !.tail = [a.tail EXCEPT ![t] = 1]]
        BY <3>2, <3>5, <3>6
      <3>8. \A f, g : [b EXCEPT !.bins = f, !.tail = g] = [a EXCEPT !.bins = f, !.tail = g, !.ok = TRUE]
        BY <2>1 DEF LpStates
      <3> QED BY <3>7, <3>8 DEF Put
    <2>3. PICK l \in 1 .. CmdBlockMax : l = 1
      BY Constants
    <2>4. a.used = s.used + 1 /\ SameScene(s, a) /\ a.last_state = s.last_state
      BY <2>1, AllocEffect
    <2> HIDE DEF a
    <2>5. /\ u \in LpStates /\ SameScene(a, u) /\ u.ok /\ u.used = a.used
          /\ u.last_state = a.last_state
          /\ u.bins[t] = Append(a.bins[t], cmd) /\ u.tail[t] = l
          /\ \A k \in Tiles \ {t} : u.bins[k] = a.bins[k] /\ u.tail[k] = a.tail[k]
      <3>1. u = Put(a, t, cmd, l)
        BY <2>2, <2>3, Zenon
      <3>2. a \in LpStates
        BY <2>1
      <3> QED BY <3>1, <3>2, PutEffect
    <2>6. SameScene(s, u)
      BY <2>4, <2>5 DEF SameScene
    <2> QED BY <1>3, <2>1, <2>3, <2>4, <2>5, <2>6
  <1> QED BY <1>1, <1>2, <1>3

\* [s EXCEPT !.ok = ...] is s but for ok.
LEMMA OkEffect ==
  ASSUME NEW s \in LpStates, NEW o \in BOOLEAN, NEW u, u = [s EXCEPT !.ok = o]
  PROVE  /\ u \in LpStates /\ SameScene(s, u) /\ u.ok = o /\ u.bins = s.bins
         /\ u.tail = s.tail /\ u.last_state = s.last_state /\ u.used = s.used
  <1>1. u \in LpStates
    BY DEF LpStates
  <1>2. SameScene(s, u)
    BY DEF LpStates, SameScene
  <1>3. /\ u.ok = o /\ u.bins = s.bins
        /\ u.tail = s.tail /\ u.last_state = s.last_state /\ u.used = s.used
    BY DEF LpStates
  <1> QED BY <1>1, <1>2, <1>3

\* Two steps of binning leave alone what each of them does.
LEMMA SameSceneTrans ==
  ASSUME NEW s, NEW u, NEW w, SameScene(s, u), SameScene(u, w) PROVE SameScene(s, w)
  BY DEF SameScene

\* cmd is in the first k bins of u, and there the last block has one command more.
InFirst(s, u, cmd, k) ==
  \A t \in Tiles :
    /\ t <= k => /\ u.bins[t] = Append(s.bins[t], cmd)
                 /\ u.tail[t] = IF s.tail[t] < CmdBlockMax THEN s.tail[t] + 1 ELSE 1
    /\ ~ (t <= k) => u.bins[t] = s.bins[t] /\ u.tail[t] = s.tail[t]

\* After m rounds cmd is in the first m bins, or there was no memory for one of them.
Spread(s, u, cmd, m) ==
  /\ u \in LpStates /\ SameScene(s, u) /\ u.last_state = s.last_state
  /\ \E k \in 0 .. m :
       /\ InFirst(s, u, cmd, k) /\ u.used <= s.used + k
       /\ u.ok => k = m
       /\ ~ u.ok => k < m /\ u.used = Room /\ \E t \in Tiles : s.tail[t] = CmdBlockMax
  /\ (\A t \in Tiles : s.tail[t] < CmdBlockMax) => u.used = s.used

\* A round of lp_scene_bin_everywhere: one bin more has the command, unless there is no
\* memory for it, and after that nothing changes.
LEMMA SpreadNext ==
  ASSUME NEW s \in LpStates, NEW cmd \in CommandTypes, NEW m \in 0 .. NumTiles - 1,
         NEW u, Spread(s, u, cmd, m), NEW w, w = BinNext(cmd, u, m + 1)
  PROVE  Spread(s, w, cmd, m + 1)
  <1>1. u \in LpStates /\ SameScene(s, u) /\ u.last_state = s.last_state
    BY DEF Spread
  <1>2. PICK k \in 0 .. m :
          /\ InFirst(s, u, cmd, k) /\ u.used <= s.used + k
          /\ u.ok => k = m
          /\ ~ u.ok => k < m /\ u.used = Room /\ \E t \in Tiles : s.tail[t] = CmdBlockMax
    BY DEF Spread
  <1>3. (\A t \in Tiles : s.tail[t] < CmdBlockMax) => u.used = s.used
    BY DEF Spread
  <1>4. m \in Nat /\ m + 1 \in Tiles /\ k \in Nat /\ Tiles \subseteq Nat
    BY Constants DEF Tiles
  <1>5. CASE ~ u.ok
    <2>1. w = u
      BY <1>5 DEF BinNext, Then
    <2>2. k \in 0 .. m + 1 /\ k < m + 1
      BY <1>4
    <2> QED BY <1>1, <1>2, <1>3, <1>5, <2>1, <2>2 DEF Spread
  <1>6. CASE u.ok
    <2> DEFINE t == m + 1
    <2>1. w = BinCommand(u, t, cmd)
      BY <1>6 DEF BinNext, Then
    <2>2. /\ w \in LpStates /\ SameScene(u, w) /\ w.last_state = u.last_state
          /\ \A j \in Tiles \ {t} : w.bins[j] = u.bins[j] /\ w.tail[j] = u.tail[j]
          /\ w.ok => /\ w.bins[t] = Append(u.bins[t], cmd)
                     /\ w.tail[t] = IF u.tail[t] < CmdBlockMax THEN u.tail[t] + 1 ELSE 1
                     /\ w.used = IF u.tail[t] < CmdBlockMax THEN u.used ELSE u.used + 1
          /\ ~ w.ok => /\ w.bins[t] = u.bins[t] /\ w.tail[t] = u.tail[t] /\ w.used = u.used
                       /\ u.tail[t] = CmdBlockMax /\ u.used = Room
      BY <1>1, <1>4, <2>1, BinCommandEffect
    <2>3. k = m /\ u.bins[t] = s.bins[t] /\ u.tail[t] = s.tail[t]
      BY <1>2, <1>4, <1>6 DEF InFirst
    <2>4. SameScene(s, w) /\ w.last_state = s.last_state
      BY <1>1, <2>2, SameSceneTrans
    <2>5. u.used \in 0 .. Room /\ s.used \in 0 .. Room /\ s.tail[t] \in 0 .. CmdBlockMax
      BY <1>1, <1>4 DEF LpStates
    <2>6. CASE w.ok
      <3>1. InFirst(s, w, cmd, m + 1)
        <4> SUFFICES ASSUME NEW j \in Tiles
                     PROVE  /\ j <= m + 1 =>
                               /\ w.bins[j] = Append(s.bins[j], cmd)
                               /\ w.tail[j] = IF s.tail[j] < CmdBlockMax THEN s.tail[j] + 1 ELSE 1
                            /\ ~ (j <= m + 1) => w.bins[j] = s.bins[j] /\ w.tail[j] = s.tail[j]
          BY DEF InFirst
        <4>1. CASE j = t
          BY <4>1, <1>4, <2>2, <2>3, <2>6
        <4>2. CASE j # t
          <5>1. w.bins[j] = u.bins[j] /\ w.tail[j] = u.tail[j]
            BY <4>2, <2>2
          <5>2. (j <= m + 1) <=> (j <= m)
            BY <4>2, <1>4
          <5> QED BY <1>2, <2>3, <5>1, <5>2 DEF InFirst
        <4> QED BY <4>1, <4>2
      <3>2. w.used <= s.used + (m + 1)
        BY <1>2, <1>4, <2>2, <2>3, <2>5, <2>6, Constants
      <3>3. (\A j \in Tiles : s.tail[j] < CmdBlockMax) => w.used = s.used
        BY <1>3, <1>4, <2>2, <2>3, <2>6
      <3>4. m + 1 \in 0 .. m + 1
        BY <1>4
      <3> QED BY <2>2, <2>4, <2>6, <3>1, <3>2, <3>3, <3>4 DEF Spread
    <2>7. CASE ~ w.ok
      <3>1. InFirst(s, w, cmd, k)
        <4>1. \A j \in Tiles : w.bins[j] = u.bins[j] /\ w.tail[j] = u.tail[j]
          BY <2>2, <2>7
        <4> QED BY <1>2, <4>1 DEF InFirst
      <3>2. w.used <= s.used + k /\ w.used = Room /\ k < m + 1 /\ k \in 0 .. m + 1
        BY <1>2, <1>4, <2>2, <2>3, <2>7
      <3>3. s.tail[t] = CmdBlockMax /\ t \in Tiles
        BY <1>4, <2>2, <2>3, <2>7
      <3>4. (\A j \in Tiles : s.tail[j] < CmdBlockMax) => w.used = s.used
        BY <1>3, <2>2, <2>7
      <3> QED BY <2>2, <2>4, <2>7, <3>1, <3>2, <3>3, <3>4 DEF Spread
    <2> QED BY <2>6, <2>7
  <1> QED BY <1>5, <1>6

\* lp_scene_bin_everywhere: the command is in all bins, or only in the first ones.
LEMMA EverywhereEffect ==
  ASSUME NEW s \in LpStates, NEW cmd \in CommandTypes, NEW u, u = BinEverywhere(s, cmd)
  PROVE  Spread(s, u, cmd, NumTiles)
  <1> DEFINE z == [s EXCEPT !.ok = TRUE]
             After2(n) == Everywhere!Iterate(cmd, z, n)
             S == {n \in Nat : n <= NumTiles => Spread(s, After2(n), cmd, n)}
  <1>1. 0 \in S
    <2>1. After2(0) = z
      BY Everywhere!Unfold
    <2>2. /\ z \in LpStates /\ SameScene(s, z) /\ z.ok = TRUE /\ z.bins = s.bins
          /\ z.tail = s.tail /\ z.last_state = s.last_state /\ z.used = s.used
      BY OkEffect
    <2>3. InFirst(s, z, cmd, 0)
      BY <2>2, Constants DEF InFirst
    <2>4. z.used <= s.used + 0 /\ 0 \in 0 .. 0
      BY <2>2 DEF LpStates
    <2>5. Spread(s, z, cmd, 0)
      BY <2>2, <2>3, <2>4 DEF Spread
    <2> QED BY <2>1, <2>5
  <1>2. ASSUME NEW n \in 0 .. NumTiles - 1, n \in S PROVE n + 1 \in S
    <2>1. n \in Nat /\ n <= NumTiles
      BY Constants
    <2>2. After2(n + 1) = BinNext(cmd, After2(n), n + 1)
      BY <2>1, Everywhere!Unfold
    <2>3. Spread(s, After2(n), cmd, n)
      BY <1>2, <2>1
    <2>4. Spread(s, After2(n + 1), cmd, n + 1)
      BY <2>2, <2>3, SpreadNext
    <2> QED BY <2>1, <2>4
  <1> HIDE DEF S
  <1>3. NumTiles \in S
    BY <1>1, <1>2, Everywhere!Induction, Constants
  <1>4. u = After2(NumTiles)
    BY DEF BinEverywhere
  <1> QED BY <1>3, <1>4, Constants DEF S

\* There is memory for it if there is a block for each bin, or room in all blocks.
LEMMA EverywhereFits ==
  ASSUME NEW s \in LpStates, NEW cmd \in CommandTypes, NEW u, Spread(s, u, cmd, NumTiles)
  PROVE  /\ s.used + NumTiles <= Room => u.ok
         /\ (\A t \in Tiles : s.tail[t] < CmdBlockMax) => u.ok
         /\ u.ok => u.used <= s.used + NumTiles /\ InFirst(s, u, cmd, NumTiles)
         /\ u.ok => \A t \in Tiles : u.bins[t] = Append(s.bins[t], cmd)
  <1>1. PICK k \in 0 .. NumTiles :
          /\ InFirst(s, u, cmd, k) /\ u.used <= s.used + k
          /\ u.ok => k = NumTiles
          /\ ~ u.ok => k < NumTiles /\ u.used = Room /\ \E t \in Tiles : s.tail[t] = CmdBlockMax
    BY DEF Spread
  <1>2. u.used \in 0 .. Room /\ s.used \in 0 .. Room /\ k \in Nat
    BY Constants DEF Spread, LpStates
  <1>3. s.used + NumTiles <= Room => u.ok
    BY <1>1, <1>2, Constants
  <1>4. (\A t \in Tiles : s.tail[t] < CmdBlockMax) => u.ok
    BY <1>1, Constants
  <1>5. InFirst(s, u, cmd, NumTiles) => \A t \in Tiles : u.bins[t] = Append(s.bins[t], cmd)
    BY Constants DEF InFirst
  <1> QED BY <1>1, <1>3, <1>4, <1>5

\* The bins hold a command of query q.
Holds(s, q) ==
  \E t \in Tiles : \E i \in 1 .. Len(s.bins[t]) :
    s.bins[t][i] \in QueryCommands /\ s.bins[t][i].arg = q

\* What holds of a scene that commands are being binned in.
Body(s, n) == s \in LpStates /\ Referenced(s) /\ StatesMatch(s) /\ Numbers(s, n)

\* One bin has a command more, or none has.
LEMMA OneMore ==
  ASSUME NEW s \in LpStates, NEW u \in LpStates, NEW t \in Tiles, NEW cmd \in CommandTypes,
         u.bins[t] = s.bins[t] \/ u.bins[t] = Append(s.bins[t], cmd)
  PROVE  \A i \in 1 .. Len(u.bins[t]) :
           u.bins[t][i] = cmd \/ (i \in 1 .. Len(s.bins[t]) /\ u.bins[t][i] = s.bins[t][i])
  <1>1. CASE u.bins[t] = s.bins[t]
    BY <1>1
  <1>2. CASE u.bins[t] = Append(s.bins[t], cmd)
    BY <1>2, BinTyped
  <1> QED BY <1>1, <1>2

\* What lp_scene_bin_everywhere makes of the tiles.  A clear that did not fit is
\* painted in some of them and not in the others.
LEMMA EverywhereBody ==
  ASSUME NEW s, NEW n, Body(s, n), NEW cmd \in ClearCommands \cup QueryCommands,
         NEW u, u = BinEverywhere(s, cmd)
  PROVE  /\ Body(u, n) /\ SameScene(s, u)
         /\ \A q : Holds(u, q) => Holds(s, q) \/ (cmd \in QueryCommands /\ q = cmd.arg)
         /\ cmd \in QueryCommands => \A t \in Tiles : Run(u, t).tile = Run(s, t).tile
         /\ cmd \in ClearCommands =>
              \A t \in Tiles : \/ Run(u, t).tile = PaintClear(Run(s, t).tile, cmd.arg)
                               \/ ~ u.ok /\ Run(u, t).tile = Run(s, t).tile
  <1>1. s \in LpStates /\ cmd \in CommandTypes /\ Referenced(s) /\ StatesMatch(s) /\ Numbers(s, n)
    BY DEF Body, CommandTypes
  <1>2. cmd \notin StateCommands /\ cmd \notin DrawCommands
    BY <1>1, CommandKinds
  <1>3. Spread(s, u, cmd, NumTiles)
    BY <1>1, EverywhereEffect
  <1>4. PICK k \in 0 .. NumTiles : InFirst(s, u, cmd, k) /\ (u.ok => k = NumTiles)
    BY <1>3 DEF Spread
  <1>5. u \in LpStates /\ SameScene(s, u) /\ u.last_state = s.last_state
    BY <1>3 DEF Spread
  <1>6. ASSUME NEW t \in Tiles
        PROVE  /\ u.bins[t] = s.bins[t] \/ u.bins[t] = Append(s.bins[t], cmd)
               /\ Run(u, t).tex = Run(s, t).tex
               /\ cmd \in QueryCommands => Run(u, t).tile = Run(s, t).tile
               /\ cmd \in ClearCommands =>
                    \/ Run(u, t).tile = PaintClear(Run(s, t).tile, cmd.arg)
                    \/ ~ u.ok /\ Run(u, t).tile = Run(s, t).tile
    <2>1. CASE t <= k
      <3>1. u.bins[t] = Append(s.bins[t], cmd)
        BY <1>4, <2>1 DEF InFirst
      <3>2. PICK x \in TileStates :
              /\ x.tile = Run(s, t).tile /\ x.tex = Run(s, t).tex
              /\ Run(u, t) = Execute(u, t, x, cmd)
        BY <1>1, <1>5, <3>1, SameSceneAppend
      <3>3. Run(u, t).tex = Run(s, t).tex
        BY <1>1, <1>5, <3>2, ExecuteParts
      <3>4. cmd \in QueryCommands => Run(u, t).tile = Run(s, t).tile
        BY <1>1, <1>5, <3>2, ExecuteParts
      <3>5. cmd \in ClearCommands => Run(u, t).tile = PaintClear(Run(s, t).tile, cmd.arg)
        BY <1>1, <1>5, <3>2, ExecuteParts
      <3> QED BY <3>1, <3>3, <3>4, <3>5
    <2>2. CASE ~ (t <= k)
      <3>1. u.bins[t] = s.bins[t] /\ ~ u.ok
        BY <1>4, <2>2, Constants DEF InFirst
      <3> QED BY <1>1, <1>5, <3>1, SameSceneAlike
    <2> QED BY <2>1, <2>2
  <1>7. Referenced(u)
    <2>1. ASSUME NEW t \in Tiles, NEW i \in 1 .. Len(u.bins[t]), u.bins[t][i] \in StateCommands
          PROVE  u.bins[t][i].arg \in u.refs \cup {NoTexture}
      <3>1. i \in 1 .. Len(s.bins[t]) /\ u.bins[t][i] = s.bins[t][i]
        BY <1>1, <1>2, <1>5, <1>6, <2>1, OneMore
      <3> QED BY <1>1, <1>5, <2>1, <3>1 DEF Referenced, SameScene
    <2> QED BY <2>1, <1>1, <1>5 DEF Referenced, SameScene
  <1>8. Numbers(u, n)
    <2>1. ASSUME NEW t \in Tiles, NEW i \in 1 .. Len(u.bins[t]), u.bins[t][i] \in DrawCommands
          PROVE  u.bins[t][i].arg.n <= n
      <3>1. i \in 1 .. Len(s.bins[t]) /\ u.bins[t][i] = s.bins[t][i]
        BY <1>1, <1>2, <1>5, <1>6, <2>1, OneMore
      <3> QED BY <1>1, <2>1, <3>1 DEF Numbers
    <2> QED BY <2>1, <1>1, <1>5 DEF Numbers, SameScene
  <1>9. StatesMatch(u)
    BY <1>1, <1>5, <1>6 DEF StatesMatch
  <1>10. ASSUME NEW q, Holds(u, q)
         PROVE  Holds(s, q) \/ (cmd \in QueryCommands /\ q = cmd.arg)
    <2>1. PICK t \in Tiles : \E i \in 1 .. Len(u.bins[t]) :
            u.bins[t][i] \in QueryCommands /\ u.bins[t][i].arg = q
      BY <1>10 DEF Holds
    <2>2. PICK i \in 1 .. Len(u.bins[t]) : u.bins[t][i] \in QueryCommands /\ u.bins[t][i].arg = q
      BY <2>1
    <2>3. u.bins[t][i] = cmd \/ (i \in 1 .. Len(s.bins[t]) /\ u.bins[t][i] = s.bins[t][i])
      BY <1>1, <1>5, <1>6, OneMore
    <2> QED BY <2>2, <2>3 DEF Holds
  <1> QED BY <1>5, <1>6, <1>7, <1>8, <1>9, <1>10 DEF Body

-----------------------------------------------------------------------------
(***************************************************************************)
(* lp_setup_rasterize_scene                                                 *)
(***************************************************************************)

\* Execution does not touch the fences of the queries.
FencesKept(s, x) == \A q \in Queries : x.queries[q].fence = s.queries[q].fence

\* No command touches the fence of a query.
LEMMA ExecuteFences ==
  ASSUME NEW s \in LpStates, NEW t \in Tiles, NEW x \in TileStates, NEW cmd \in CommandTypes,
         FencesKept(s, x)
  PROVE  FencesKept(s, Execute(s, t, x, cmd))
  <1>0. x.queries \in [Queries -> QueryTypes] /\ x.vis \in Nat
    BY DEF TileStates
  <1>1. CASE cmd \in QueryCommands
    <2>1. cmd.op \in {"begin", "end"} /\ cmd.arg \in Queries
      BY <1>1 DEF QueryCommands
    <2>2. CASE cmd.op = "begin"
      <3> DEFINE new == [x.queries EXCEPT ![cmd.arg] = [x.queries[cmd.arg] EXCEPT !.start = x.vis]]
      <3>1. Execute(s, t, x, cmd) = [x EXCEPT !.queries = new]
        BY <2>2 DEF Execute, RastBeginQuery
      <3>2. \A q \in Queries : new[q].fence = x.queries[q].fence
        BY <1>0, <2>1 DEF QueryTypes
      <3> HIDE DEF new
      <3>3. Execute(s, t, x, cmd).queries = new
        BY <3>1 DEF TileStates
      <3> QED BY <3>2, <3>3 DEF FencesKept
    <2>3. CASE cmd.op = "end"
      <3> DEFINE new == [x.queries EXCEPT ![cmd.arg] = EndCount(x.queries[cmd.arg], x.vis)]
      <3>1. Execute(s, t, x, cmd) = [x EXCEPT !.queries = new]
        BY <2>3 DEF Execute, RastEndQuery
      <3>2. \A q \in Queries : new[q].fence = x.queries[q].fence
        BY <1>0, <2>1, CountTyped
      <3> HIDE DEF new
      <3>3. Execute(s, t, x, cmd).queries = new
        BY <3>1 DEF TileStates
      <3> QED BY <3>2, <3>3 DEF FencesKept
    <2> QED BY <2>1, <2>2, <2>3
  <1>2. CASE cmd \notin QueryCommands
    <2>1. cmd.op \in {"clear", "state", "draw"}
      BY <1>2 DEF CommandTypes, ClearCommands, StateCommands, DrawCommands
    <2>2. Execute(s, t, x, cmd).queries = x.queries
      <3>1. CASE cmd.op = "clear"
        BY <3>1 DEF Execute, TileStates
      <3>2. CASE cmd.op = "state"
        BY <3>2 DEF Execute, TileStates
      <3>3. CASE cmd.op = "draw" /\ cmd.arg.n \in s.disabled
        BY <3>3 DEF Execute
      <3>4. CASE cmd.op = "draw" /\ cmd.arg.n \notin s.disabled
        <4>1. \E a, b : Execute(s, t, x, cmd) = [x EXCEPT !.vis = a, !.tile = b]
          BY <3>4 DEF Execute
        <4> QED BY <4>1 DEF TileStates
      <3> QED BY <2>1, <3>1, <3>2, <3>3, <3>4
    <2> QED BY <2>2 DEF FencesKept
  <1> QED BY <1>1, <1>2

\* Neither does the execution of a bin.
LEMMA RunFences ==
  ASSUME NEW s \in LpStates, NEW t \in Tiles
  PROVE  FencesKept(s, Run(s, t))
  <1> DEFINE S == {n \in Nat : n <= Len(s.bins[t]) => FencesKept(s, After(s, t, n))}
  <1>1. 0 \in S
    <2>1. TileBegin(s, t).queries = s.queries
      BY DEF TileBegin
    <2> QED BY <2>1, AfterUnfold DEF FencesKept
  <1>2. ASSUME NEW n \in 0 .. Len(s.bins[t]) - 1, n \in S PROVE n + 1 \in S
    <2>1. n + 1 \in 1 .. Len(s.bins[t]) /\ n \in 0 .. Len(s.bins[t]) /\ n \in Nat
      BY BinTyped
    <2>2. After(s, t, n) \in TileStates /\ s.bins[t][n + 1] \in CommandTypes
      BY <2>1, AfterTyped, BinTyped
    <2>3. FencesKept(s, After(s, t, n))
      BY <1>2, <2>1, BinTyped
    <2>4. FencesKept(s, Execute(s, t, After(s, t, n), s.bins[t][n + 1]))
      BY <2>2, <2>3, ExecuteFences
    <2> QED BY <2>1, <2>4, AfterUnfold
  <1> HIDE DEF S
  <1>3. \A n \in 0 .. Len(s.bins[t]) : n \in S
    BY <1>1, <1>2, Commands!Induction, BinTyped
  <1> QED BY <1>3, BinTyped DEF S, Run

\* lp_rast_tile_end paints nothing and keeps the fences of the queries.
LEMMA TileEndEffect ==
  ASSUME NEW s \in LpStates, NEW x \in TileStates
  PROVE  /\ TileEnd(s, x) \in TileStates /\ TileEnd(s, x).tile = x.tile
         /\ FencesKept(s, x) => FencesKept(s, TileEnd(s, x))
  <1> DEFINE new == [q \in Queries |-> IF q \in s.active THEN EndCount(x.queries[q], x.vis)
                                       ELSE x.queries[q]]
  <1>1. x.queries \in [Queries -> QueryTypes] /\ x.vis \in Nat
    BY DEF TileStates
  <1>2. new \in [Queries -> QueryTypes]
    BY <1>1, CountTyped
  <1>3. \A q \in Queries : new[q].fence = x.queries[q].fence
    BY <1>1, CountTyped
  <1>4. TileEnd(s, x) = [x EXCEPT !.queries = new]
    BY DEF TileEnd
  <1> HIDE DEF new
  <1>5. TileEnd(s, x) \in TileStates /\ TileEnd(s, x).queries = new /\ TileEnd(s, x).tile = x.tile
    BY <1>2, <1>4 DEF TileStates
  <1> QED BY <1>3, <1>5 DEF FencesKept

\* What the rasterizer leaves alone.
SameBins(s, u) ==
  /\ u.state = s.state /\ u.fb = s.fb /\ u.tex = s.tex /\ u.stored = s.stored
  /\ u.clear = s.clear /\ u.active = s.active /\ u.bins = s.bins /\ u.tail = s.tail
  /\ u.last_state = s.last_state /\ u.used = s.used /\ u.refs = s.refs
  /\ u.fence = s.fence /\ u.disabled = s.disabled /\ u.had_queries = s.had_queries
  /\ u.scenes = s.scenes /\ u.done = s.done /\ u.ver = s.ver

\* rasterize_bin writes the tile of its bin and nothing else of the framebuffers.
LEMMA RasterizeBinEffect ==
  ASSUME NEW s \in LpStates, NEW t \in Tiles, NEW u, u = RasterizeBin(s, t)
  PROVE  /\ u \in LpStates /\ SameBins(s, u) /\ FencesKept(s, u)
         /\ \A f \in Framebuffers, k \in Tiles :
              u.mem[f][k] = IF f = s.fb /\ k = t THEN Run(s, t).tile ELSE s.mem[f][k]
  <1>1. CASE NoBlock(s, t)
    <2>1. u = s
      BY <1>1 DEF RasterizeBin
    <2>2. s.bins[t] = <<>>
      BY <1>1 DEF NoBlock
    <2>3. Run(s, t).tile = s.mem[s.fb][t]
      BY <2>2, AfterUnfold DEF Run, TileBegin
    <2> QED BY <2>1, <2>3 DEF SameBins, FencesKept
  <1>2. CASE ~ NoBlock(s, t)
    <2> DEFINE x == TileEnd(s, Run(s, t))
               mem == [s.mem EXCEPT ![s.fb] = [s.mem[s.fb] EXCEPT ![t] = x.tile]]
    <2>1. x \in TileStates /\ x.tile = Run(s, t).tile /\ FencesKept(s, x)
      BY AfterTyped, RunFences, TileEndEffect
    <2>2. u = [s EXCEPT !.mem[s.fb][t] = x.tile, !.queries = x.queries]
      BY <1>2 DEF RasterizeBin, Run, After
    <2>3. u = [s EXCEPT !.mem = mem, !.queries = x.queries]
      BY <2>2
    <2>4. x.tile \in Pictures /\ x.queries \in [Queries -> QueryTypes]
      BY <2>1 DEF TileStates
    <2> HIDE DEF x
    <2>5. s.mem \in [Framebuffers -> [Tiles -> Pictures]] /\ s.fb \in Framebuffers
      BY DEF LpStates
    <2>6. mem \in [Framebuffers -> [Tiles -> Pictures]]
      BY <2>4, <2>5
    <2>7. \A f \in Framebuffers, k \in Tiles :
            mem[f][k] = IF f = s.fb /\ k = t THEN x.tile ELSE s.mem[f][k]
      BY <2>5
    <2> HIDE DEF mem
    <2>8. u \in LpStates
      BY <2>3, <2>4, <2>6 DEF LpStates
    <2>9. u.mem = mem /\ u.queries = x.queries
      BY <2>3 DEF LpStates
    <2>10. SameBins(s, u)
      BY <2>3 DEF LpStates, SameBins
    <2>11. FencesKept(s, u)
      BY <2>1, <2>9 DEF FencesKept
    <2> QED BY <2>1, <2>7, <2>8, <2>9, <2>10, <2>11
  <1> QED BY <1>1, <1>2

\* A bin paints the same whether or not other bins were rasterized before it.
LEMMA SameBinsAlike ==
  ASSUME NEW s \in LpStates, NEW u \in LpStates, Referenced(s), SameBins(s, u),
         NEW t \in Tiles, u.mem[s.fb][t] = s.mem[s.fb][t]
  PROVE  Run(u, t).tile = Run(s, t).tile
  <1>1. Alike(s, u, t, Len(s.bins[t]))
    <2>1. /\ u.fb = s.fb /\ u.bins = s.bins /\ u.disabled = s.disabled /\ u.refs = s.refs
          /\ u.ver = s.ver
      BY DEF SameBins
    <2>2. Len(s.bins[t]) \in Nat
      BY BinTyped
    <2>3. \A i \in 1 .. Len(s.bins[t]) :
            s.bins[t][i] \in StateCommands => s.bins[t][i].arg \in s.refs \cup {NoTexture}
      BY DEF Referenced
    <2> QED BY <2>1, <2>2, <2>3 DEF Alike
  <1>2. Len(u.bins[t]) = Len(s.bins[t])
    BY DEF SameBins
  <1> QED BY <1>1, <1>2, AfterAlike, BinTyped DEF Run

\* The first m bins have been rasterized.
Rasterized(s, u, m) ==
  /\ u \in LpStates /\ SameBins(s, u) /\ FencesKept(s, u)
  /\ \A f \in Framebuffers, k \in Tiles :
       u.mem[f][k] = IF f = s.fb /\ k <= m THEN Run(s, k).tile ELSE s.mem[f][k]

\* After the loop over the bins each tile of the framebuffer is what its bin paints.
LEMMA AllRasterized ==
  ASSUME NEW s \in LpStates, Referenced(s)
  PROVE  Rasterized(s, AllBins!Iterate(NoTexture, s, NumTiles), NumTiles)
  <1> DEFINE w(n) == AllBins!Iterate(NoTexture, s, n)
             S == {n \in Nat : n <= NumTiles => Rasterized(s, w(n), n)}
  <1>1. 0 \in S
    <2>1. w(0) = s
      BY AllBins!Unfold
    <2>2. \A k \in Tiles : ~ (k <= 0)
      BY Constants
    <2>3. Rasterized(s, s, 0)
      BY <2>2 DEF Rasterized, SameBins, FencesKept
    <2> QED BY <2>1, <2>3
  <1>2. ASSUME NEW n \in 0 .. NumTiles - 1, n \in S PROVE n + 1 \in S
    <2> DEFINE v == w(n)
               u == w(n + 1)
               t == n + 1
    <2>1. n \in Nat /\ n <= NumTiles /\ t \in Tiles /\ ~ (t <= n)
      BY Constants DEF Tiles
    <2>2. Rasterized(s, v, n)
      BY <1>2, <2>1
    <2>3. u = RasterizeBin(v, t)
      BY <2>1, AllBins!Unfold DEF RasterizeNext
    <2> HIDE DEF u, v
    <2>4. /\ v \in LpStates /\ SameBins(s, v) /\ FencesKept(s, v)
          /\ \A f \in Framebuffers, k \in Tiles :
               v.mem[f][k] = IF f = s.fb /\ k <= n THEN Run(s, k).tile ELSE s.mem[f][k]
      BY <2>2 DEF Rasterized
    <2>5. /\ u \in LpStates /\ SameBins(v, u) /\ FencesKept(v, u)
          /\ \A f \in Framebuffers, k \in Tiles :
               u.mem[f][k] = IF f = v.fb /\ k = t THEN Run(v, t).tile ELSE v.mem[f][k]
      BY <2>1, <2>3, <2>4, RasterizeBinEffect
    <2>6. s.fb \in Framebuffers /\ v.fb = s.fb
      BY <2>4 DEF LpStates, SameBins
    <2>7. Run(v, t).tile = Run(s, t).tile
      <3>1. v.mem[s.fb][t] = s.mem[s.fb][t]
        BY <2>1, <2>4, <2>6
      <3> QED BY <2>1, <2>4, <3>1, SameBinsAlike
    <2>8. SameBins(s, u)
      BY <2>4, <2>5 DEF SameBins
    <2>9. FencesKept(s, u)
      BY <2>4, <2>5 DEF FencesKept
    <2>10. ASSUME NEW f \in Framebuffers, NEW k \in Tiles
           PROVE  u.mem[f][k] = IF f = s.fb /\ k <= n + 1 THEN Run(s, k).tile ELSE s.mem[f][k]
      <3>1. CASE k = t
        BY <2>1, <2>4, <2>5, <2>6, <2>7, <3>1
      <3>2. CASE k # t
        <4>1. (k <= n + 1) <=> (k <= n)
          BY <3>2, <2>1, Constants
        <4> QED BY <2>4, <2>5, <3>2, <4>1
      <3> QED BY <3>1, <3>2
    <2>11. Rasterized(s, u, n + 1)
      BY <2>5, <2>8, <2>9, <2>10 DEF Rasterized
    <2> QED BY <2>1, <2>11 DEF u
  <1> HIDE DEF S
  <1>3. NumTiles \in S
    BY <1>1, <1>2, AllBins!Induction, Constants
  <1> QED BY <1>3, Constants DEF S

\* lp_setup_rasterize_scene writes what the bins paint and leaves an empty scene.
LEMMA RasterizeSceneEffect ==
  ASSUME NEW s \in LpStates, Referenced(s), NEW u, u = RasterizeScene(s)
  PROVE  /\ u \in LpStates /\ Empty(u) /\ u.clear = NoClear /\ u.done = s.fence /\ u.ok
         /\ u.state = s.state /\ u.fb = s.fb /\ u.tex = s.tex /\ u.active = s.active
         /\ u.ver = s.ver /\ u.scenes = s.scenes /\ FencesKept(s, u)
         /\ \A f \in Framebuffers, k \in Tiles :
              u.mem[f][k] = IF f = s.fb THEN Run(s, k).tile ELSE s.mem[f][k]
  <1> DEFINE w == AllBins!Iterate(NoTexture, s, NumTiles)
             bins == [t \in Tiles |-> <<>>]
             tail == [t \in Tiles |-> CmdBlockMax]
             last == [t \in Tiles |-> Null]
  <1>1. Rasterized(s, w, NumTiles)
    BY AllRasterized
  <1>2. PICK zero \in Nat : zero = 0
    OBVIOUS
  <1>3. u = [w EXCEPT !.done = s.fence, !.ok = TRUE, !.bins = bins, !.tail = tail,
                      !.last_state = last, !.used = zero, !.refs = {}, !.fence = zero,
                      !.disabled = {}, !.stored = Null, !.clear = NoClear]
    <2>1. u = [[[w EXCEPT !.done = s.fence, !.ok = TRUE]
                 EXCEPT !.bins = bins, !.tail = tail, !.last_state = last, !.used = 0,
                        !.refs = {}, !.fence = 0, !.disabled = {}]
                 EXCEPT !.stored = Null, !.clear = NoClear]
      BY DEF RasterizeScene, SetupReset, EmptyScene
    <2> HIDE DEF w, bins, tail, last
    <2> QED BY <1>2, <2>1
  <1>4. /\ bins \in [Tiles -> Seq(CommandTypes)] /\ tail \in [Tiles -> 0 .. CmdBlockMax]
        /\ last \in [Tiles -> RastStates] /\ zero \in 0 .. Room
    BY <1>2, NullTyped, Constants
  <1>5. w \in LpStates /\ s.fence \in Nat
    BY <1>1 DEF Rasterized, LpStates
  <1> HIDE DEF w, bins, tail, last
  <1>6. u \in LpStates
    <2> DEFINE v == [w EXCEPT !.done = s.fence, !.ok = TRUE, !.bins = bins, !.tail = tail,
                              !.last_state = last, !.used = zero]
    <2>1. v \in LpStates
      BY <1>4, <1>5 DEF LpStates
    <2>2. u = [v EXCEPT !.refs = {}, !.fence = zero, !.disabled = {}, !.stored = Null,
                        !.clear = NoClear]
      BY <1>3
    <2> HIDE DEF v
    <2>3. {} \in SUBSET Textures /\ {} \in SUBSET Nat
      OBVIOUS
    <2> QED BY <1>2, <2>1, <2>2, <2>3, NullTyped DEF LpStates
  <1>7. /\ u.bins = bins /\ u.tail = tail /\ u.last_state = last /\ u.used = zero
        /\ u.refs = {} /\ u.disabled = {} /\ u.stored = Null /\ u.clear = NoClear
        /\ u.done = s.fence /\ u.ok
    BY <1>3, <1>5 DEF LpStates
  <1>8. /\ u.state = w.state /\ u.fb = w.fb /\ u.tex = w.tex /\ u.active = w.active
        /\ u.ver = w.ver /\ u.scenes = w.scenes /\ u.queries = w.queries /\ u.mem = w.mem
    BY <1>3, <1>5 DEF LpStates
  <1>9. Empty(u)
    BY <1>2, <1>7 DEF Empty, bins, tail, last
  <1>10. FencesKept(s, u)
    BY <1>1, <1>8 DEF Rasterized, FencesKept
  <1>11. /\ w.state = s.state /\ w.fb = s.fb /\ w.tex = s.tex /\ w.active = s.active
         /\ w.ver = s.ver /\ w.scenes = s.scenes
    BY <1>1 DEF Rasterized, SameBins
  <1>12. \A f \in Framebuffers, k \in Tiles :
           u.mem[f][k] = IF f = s.fb THEN Run(s, k).tile ELSE s.mem[f][k]
    BY <1>1, <1>8, Constants DEF Rasterized
  <1> QED BY <1>6, <1>7, <1>8, <1>9, <1>10, <1>11, <1>12

-----------------------------------------------------------------------------
(***************************************************************************)
(* begin_binning                                                            *)
(***************************************************************************)

\* The fields that a new state of the scene leaves alone.
SameButState(s, u) ==
  /\ u.state = s.state /\ u.fb = s.fb /\ u.tex = s.tex /\ u.clear = s.clear
  /\ u.active = s.active /\ u.bins = s.bins /\ u.tail = s.tail
  /\ u.last_state = s.last_state /\ u.fence = s.fence /\ u.disabled = s.disabled
  /\ u.scenes = s.scenes /\ u.done = s.done
  /\ u.queries = s.queries /\ u.ver = s.ver /\ u.mem = s.mem

\* The same bins are executed the same way.
LEMMA SameRun ==
  ASSUME NEW s \in LpStates, NEW u \in LpStates, Referenced(s), u.fb = s.fb,
         u.ver = s.ver, u.disabled = s.disabled, u.mem = s.mem, u.bins = s.bins,
         NEW t \in Tiles
  PROVE  Run(u, t).tile = Run(s, t).tile /\ Run(u, t).tex = Run(s, t).tex
  <1>1. Len(s.bins[t]) \in Nat
    BY BinTyped
  <1>2. \A i \in 1 .. Len(s.bins[t]) :
          s.bins[t][i] \in StateCommands => s.bins[t][i].arg \in s.refs \cup {NoTexture}
    BY DEF Referenced
  <1>3. Alike(s, u, t, Len(s.bins[t]))
    BY <1>1, <1>2 DEF Alike
  <1> QED BY <1>1, <1>3, AfterAlike DEF Run

\* lp_scene_add_resource_reference.
LEMMA ReferenceEffect ==
  ASSUME NEW s \in LpStates, NEW tex \in TexOrNone, NEW new_scene \in BOOLEAN, NEW u,
         u = AddResourceReference(s, tex, new_scene)
  PROVE  /\ u \in LpStates /\ SameButState(s, u) /\ u.used = s.used /\ u.stored = s.stored
         /\ s.refs \subseteq u.refs /\ tex \in u.refs \cup {NoTexture}
         /\ new_scene => u.ok
  <1>1. CASE tex \in s.refs \cup {NoTexture}
    <2>1. u = [s EXCEPT !.ok = TRUE]
      BY <1>1 DEF AddResourceReference
    <2>2. u \in LpStates
      BY <2>1 DEF LpStates
    <2>3. SameButState(s, u) /\ u.used = s.used /\ u.stored = s.stored /\ u.refs = s.refs /\ u.ok
      BY <2>1 DEF LpStates, SameButState
    <2> QED BY <1>1, <2>2, <2>3
  <1>2. CASE tex \notin s.refs \cup {NoTexture}
    <2> DEFINE o == new_scene \/ Cardinality(s.refs) + 1 < MaxTextures
    <2>1. u = [s EXCEPT !.refs = s.refs \cup {tex}, !.ok = o]
      BY <1>2 DEF AddResourceReference
    <2>2. s.refs \cup {tex} \in SUBSET Textures
      BY <1>2 DEF LpStates, TexOrNone
    <2>3. o \in BOOLEAN /\ (new_scene => o)
      OBVIOUS
    <2> HIDE DEF o
    <2>4. u \in LpStates
      BY <2>1, <2>2, <2>3 DEF LpStates
    <2>5. u.refs = s.refs \cup {tex} /\ u.ok = o
      BY <2>1 DEF LpStates
    <2>6. SameButState(s, u) /\ u.used = s.used /\ u.stored = s.stored
      BY <2>1 DEF LpStates, SameButState
    <2> QED BY <2>3, <2>4, <2>5, <2>6
  <1> QED BY <1>1, <1>2

\* try_update_scene_state.
LEMMA TryUpdateEffect ==
  ASSUME NEW s \in LpStates, Referenced(s), NEW u, u = TryUpdateSceneState(s)
  PROVE  /\ u \in LpStates /\ SameButState(s, u) /\ Referenced(u) /\ u.ok \in BOOLEAN
         /\ u.ok => /\ u.stored # Null /\ u.stored.tex = s.tex
         /\ s.stored # Null => u.stored # Null
         /\ s.stored = Null /\ s.used < Room => u.ok /\ u.used = s.used + 1
         /\ s.stored # Null /\ s.stored.tex = s.tex => u.ok /\ u.used = s.used
  <1>1. CASE s.stored # Null /\ s.stored.tex = s.tex
    <2>1. u = [s EXCEPT !.ok = TRUE]
      BY <1>1 DEF TryUpdateSceneState
    <2>2. u \in LpStates
      BY <2>1 DEF LpStates
    <2>3. SameButState(s, u) /\ u.used = s.used /\ u.stored = s.stored /\ u.refs = s.refs /\ u.ok = TRUE
      BY <2>1 DEF LpStates, SameButState
    <2>4. Referenced(u)
      BY <2>3 DEF Referenced, SameButState
    <2> QED BY <1>1, <2>2, <2>3, <2>4
  <1>2. CASE ~ (s.stored # Null /\ s.stored.tex = s.tex) /\ ~ SceneAlloc(s).ok
    <2>1. u = SceneAlloc(s)
      BY <1>2 DEF TryUpdateSceneState, Then
    <2>2. /\ u \in LpStates /\ SameScene(s, u) /\ u.bins = s.bins /\ u.tail = s.tail
          /\ u.last_state = s.last_state /\ s.used = Room
      BY <1>2, <2>1, AllocEffect
    <2>3. SameButState(s, u) /\ u.stored = s.stored /\ u.refs = s.refs
      BY <2>2 DEF SameButState, SameScene
    <2>4. Referenced(u)
      BY <2>3 DEF Referenced, SameButState
    <2>5. ~ u.ok /\ u.ok \in BOOLEAN
      BY <1>2, <2>1, AllocEffect
    <2> QED BY <1>2, <2>2, <2>3, <2>4, <2>5, Constants
  <1>3. CASE ~ (s.stored # Null /\ s.stored.tex = s.tex) /\ SceneAlloc(s).ok
    <2> DEFINE r == SceneAlloc(s)
               new == [tex |-> s.tex, at |-> r.used]
               v == [r EXCEPT !.stored = new]
    <2>1. /\ r \in LpStates /\ SameScene(s, r) /\ r.bins = s.bins /\ r.tail = s.tail
          /\ r.last_state = s.last_state /\ r.used = s.used + 1
      BY <1>3, AllocEffect
    <2>2. u = AddResourceReference(v, s.tex, s.stored = Null)
      BY <1>3 DEF TryUpdateSceneState, Then
    <2> HIDE DEF r
    <2>3. s.tex \in TexOrNone /\ r.used \in Nat /\ s.used \in Nat /\ r.used # 0
      BY <2>1, Constants DEF LpStates
    <2>4. new \in RastStates /\ new # Null /\ new.tex = s.tex
      BY <2>3 DEF RastStates, Null
    <2> HIDE DEF new
    <2>5. v \in LpStates
      BY <2>1, <2>4 DEF LpStates
    <2>6. SameButState(r, v) /\ v.used = r.used /\ v.stored = new /\ v.refs = r.refs
      BY <2>1 DEF LpStates, SameButState
    <2> HIDE DEF v
    <2>7. /\ u \in LpStates /\ SameButState(v, u) /\ u.used = v.used /\ u.stored = v.stored
          /\ v.refs \subseteq u.refs /\ s.tex \in u.refs \cup {NoTexture}
          /\ s.stored = Null => u.ok
      <3>1. PICK b \in BOOLEAN : b = (s.stored = Null)
        OBVIOUS
      <3>2. u = AddResourceReference(v, s.tex, b)
        BY <2>2, <3>1
      <3>3. s.tex \in TexOrNone
        BY <2>3
      <3>4. /\ u \in LpStates /\ SameButState(v, u) /\ u.used = v.used /\ u.stored = v.stored
            /\ v.refs \subseteq u.refs /\ s.tex \in u.refs \cup {NoTexture}
            /\ b => u.ok
        BY <2>5, <3>2, <3>3, ReferenceEffect
      <3> QED BY <3>1, <3>4
    <2>8. SameButState(s, r) /\ r.refs = s.refs
      BY <2>1 DEF SameScene, SameButState
    <2>9. SameButState(s, u) /\ s.refs \subseteq u.refs
      BY <2>6, <2>7, <2>8 DEF SameButState
    <2>10. u.bins = s.bins
      BY <2>9 DEF SameButState
    <2>11. Referenced(u)
      BY <2>4, <2>6, <2>7, <2>9, <2>10 DEF Referenced
    <2>12. u.ok \in BOOLEAN
      BY <2>7 DEF LpStates
    <2> QED BY <1>3, <2>1, <2>4, <2>6, <2>7, <2>9, <2>11, <2>12
  <1> QED BY <1>1, <1>2, <1>3

\* Clears of a tile: none, one after the other, the same one again, and the parts
\* of one.
LEMMA PaintClearFacts ==
  ASSUME NEW p \in Pictures, NEW v \in ClearValues, NEW w \in ClearValues
  PROVE  /\ PaintClear(p, NoClear) = p
         /\ DOMAIN v = {} => PaintClear(p, v) = p
         /\ PaintClear(PaintClear(p, v), v) = PaintClear(p, v)
         /\ Merge(v, w) \in ClearValues
         /\ PaintClear(PaintClear(p, w), v) = PaintClear(p, Merge(v, w))
         /\ DOMAIN Merge(v, w) = DOMAIN v \cup DOMAIN w
  <1>1. DOMAIN v = {} => PaintClear(p, v) = p
    BY DEF PaintClear, Pictures
  <1>2. PaintClear(p, NoClear) = p
    BY NullTyped DEF PaintClear, Pictures
  <1>3. PaintClear(PaintClear(p, v), v) = PaintClear(p, v)
    BY DEF PaintClear
  <1>4. /\ DOMAIN v \in SUBSET Buffers /\ \A b \in DOMAIN v : v[b] \in Nat
        /\ DOMAIN w \in SUBSET Buffers /\ \A b \in DOMAIN w : w[b] \in Nat
    BY DEF ClearValues
  <1>5. Merge(v, w) = [b \in (DOMAIN v) \cup (DOMAIN w) |-> IF b \in DOMAIN v THEN v[b] ELSE w[b]]
    BY DEF Merge
  <1>6. Merge(v, w) \in [(DOMAIN v) \cup (DOMAIN w) -> Nat]
    BY <1>4, <1>5
  <1>7. Merge(v, w) \in ClearValues /\ DOMAIN Merge(v, w) = DOMAIN v \cup DOMAIN w
    BY <1>4, <1>6 DEF ClearValues
  <1>8. PaintClear(PaintClear(p, w), v) = PaintClear(p, Merge(v, w))
    BY <1>5 DEF PaintClear
  <1> QED BY <1>1, <1>2, <1>3, <1>7, <1>8

\* Clearing the colour and then depth and stencil is all of the pending clear.
LEMMA PendingFacts ==
  ASSUME NEW s \in LpStates, NEW bufs \in SUBSET Buffers
  PROVE  /\ PendingOf(s, bufs) \in ClearValues
         /\ DOMAIN PendingOf(s, bufs) = bufs \cap DOMAIN s.clear
         /\ \A p \in Pictures :
              PaintClear(PaintClear(p, PendingOf(s, {"c"})), PendingOf(s, ZsBuffers))
                = PaintClear(p, s.clear)
  <1>1. s.clear \in ClearValues
    BY DEF LpStates
  <1>2. DOMAIN s.clear \in SUBSET Buffers /\ \A b \in DOMAIN s.clear : s.clear[b] \in Nat
    BY <1>1 DEF ClearValues
  <1>3. PendingOf(s, bufs) \in [bufs \cap DOMAIN s.clear -> Nat]
    BY <1>2 DEF PendingOf
  <1>4. PendingOf(s, bufs) \in ClearValues /\ DOMAIN PendingOf(s, bufs) = bufs \cap DOMAIN s.clear
    BY <1>3 DEF ClearValues
  <1>5. ASSUME NEW p \in Pictures
        PROVE  PaintClear(PaintClear(p, PendingOf(s, {"c"})), PendingOf(s, ZsBuffers))
                 = PaintClear(p, s.clear)
    <2>1. \A B : DOMAIN PendingOf(s, B) = B \cap DOMAIN s.clear
      BY DEF PendingOf
    <2>2. \A B : \A b \in DOMAIN PendingOf(s, B) : PendingOf(s, B)[b] = s.clear[b]
      BY DEF PendingOf
    <2>3. ASSUME NEW b \in Buffers
          PROVE  PaintClear(PaintClear(p, PendingOf(s, {"c"})), PendingOf(s, ZsBuffers))[b]
                   = PaintClear(p, s.clear)[b]
      BY <2>1, <2>2 DEF PaintClear, Buffers, ZsBuffers
    <2> QED BY <2>3 DEF PaintClear
  <1> QED BY <1>4, <1>5

\* A clear in all bins, where there is memory for it.
LEMMA ClearEverywhere ==
  ASSUME NEW s, NEW n, Body(s, n), NEW vals \in ClearValues, NEW u,
         u = BinEverywhere(s, [op |-> "clear", arg |-> vals]),
         s.used + NumTiles <= Room \/ \A t \in Tiles : s.tail[t] < CmdBlockMax
  PROVE  /\ Body(u, n) /\ SameScene(s, u) /\ u.ok
         /\ \A q : Holds(u, q) => Holds(s, q)
         /\ \A t \in Tiles : Run(u, t).tile = PaintClear(Run(s, t).tile, vals)
         /\ \A t \in Tiles : s.tail[t] = CmdBlockMax => u.tail[t] = 1
  <1> DEFINE cmd == [op |-> "clear", arg |-> vals]
  <1>1. cmd \in ClearCommands /\ cmd.arg = vals
    BY DEF ClearCommands
  <1>2. cmd \in CommandTypes /\ cmd \in ClearCommands \cup QueryCommands
    BY <1>1 DEF CommandTypes
  <1>3. cmd \notin QueryCommands
    BY <1>1 DEF ClearCommands, QueryCommands
  <1> HIDE DEF cmd
  <1>4. u = BinEverywhere(s, cmd) /\ s \in LpStates
    BY DEF cmd, Body
  <1>5. Spread(s, u, cmd, NumTiles)
    BY <1>2, <1>4, EverywhereEffect
  <1>6. u.ok /\ InFirst(s, u, cmd, NumTiles)
    BY <1>2, <1>4, <1>5, EverywhereFits
  <1>7. \A t \in Tiles : s.tail[t] = CmdBlockMax => u.tail[t] = 1
    BY <1>6, Constants DEF InFirst
  <1>8. cmd \in ClearCommands \cup QueryCommands /\ u = BinEverywhere(s, cmd)
    BY <1>2, <1>4
  <1>9. /\ Body(u, n) /\ SameScene(s, u)
        /\ \A q : Holds(u, q) => Holds(s, q) \/ (cmd \in QueryCommands /\ q = cmd.arg)
    BY <1>8, EverywhereBody
  <1>10. \A t \in Tiles : \/ Run(u, t).tile = PaintClear(Run(s, t).tile, cmd.arg)
                          \/ ~ u.ok /\ Run(u, t).tile = Run(s, t).tile
    BY <1>1, <1>8, EverywhereBody
  <1> QED BY <1>1, <1>3, <1>6, <1>7, <1>9, <1>10

\* Memory that is taken from the scene changes nothing in its bins.
LEMMA AllocBody ==
  ASSUME NEW s, NEW n, Body(s, n), NEW u, u = SceneAlloc(s)
  PROVE  /\ Body(u, n) /\ SameScene(s, u) /\ u.tail = s.tail
         /\ u.ok => u.used = s.used + 1
         /\ ~ u.ok => s.used = Room
         /\ \A q : Holds(u, q) => Holds(s, q)
         /\ \A t \in Tiles : Run(u, t).tile = Run(s, t).tile
  <1>1. s \in LpStates /\ Referenced(s) /\ StatesMatch(s) /\ Numbers(s, n)
    BY DEF Body
  <1>2. /\ u \in LpStates /\ SameScene(s, u) /\ u.bins = s.bins /\ u.tail = s.tail
        /\ u.last_state = s.last_state /\ (u.ok => u.used = s.used + 1)
        /\ (~ u.ok => s.used = Room)
    BY <1>1, AllocEffect
  <1>3. \A t \in Tiles : Run(u, t).tile = Run(s, t).tile /\ Run(u, t).tex = Run(s, t).tex
    BY <1>1, <1>2, SameSceneAlike
  <1>4. u.refs = s.refs /\ u.stored = s.stored /\ u.disabled = s.disabled
    BY <1>2 DEF SameScene
  <1>5. Referenced(u)
    BY <1>1, <1>2, <1>4 DEF Referenced
  <1>6. StatesMatch(u)
    BY <1>1, <1>2, <1>3 DEF StatesMatch
  <1>7. Numbers(u, n)
    BY <1>1, <1>2, <1>4 DEF Numbers
  <1>8. \A q : Holds(u, q) => Holds(s, q)
    BY <1>2 DEF Holds
  <1> QED BY <1>2, <1>3, <1>5, <1>6, <1>7, <1>8 DEF Body

\* A scene with nothing in its bins, and with almost all of its memory.
Fresh(s) ==
  /\ s.used <= 1 /\ s.disabled = {}
  /\ \A t \in Tiles : s.bins[t] = <<>> /\ s.tail[t] = CmdBlockMax /\ s.last_state[t] = Null

\* Empty bins paint nothing, and there is nothing wrong with them.
LEMMA EmptyBins ==
  ASSUME NEW s \in LpStates, \A t \in Tiles : s.bins[t] = <<>> /\ s.last_state[t] = Null,
         s.disabled = {}, NEW n
  PROVE  /\ StatesMatch(s) /\ Numbers(s, n) /\ \A q : ~ Holds(s, q)
         /\ s.stored.tex \in s.refs \cup {NoTexture} => Referenced(s)
         /\ \A t \in Tiles : Run(s, t).tile = s.mem[s.fb][t]
  <1>1. \A t \in Tiles : Len(s.bins[t]) = 0 /\ 1 .. Len(s.bins[t]) = {}
    OBVIOUS
  <1>2. StatesMatch(s)
    BY DEF StatesMatch
  <1>3. Numbers(s, n)
    BY <1>1 DEF Numbers
  <1>4. \A q : ~ Holds(s, q)
    BY <1>1 DEF Holds
  <1>5. s.stored.tex \in s.refs \cup {NoTexture} => Referenced(s)
    BY <1>1 DEF Referenced
  <1>6. \A t \in Tiles : Run(s, t).tile = s.mem[s.fb][t]
    BY <1>1, AfterUnfold DEF Run, TileBegin
  <1> QED BY <1>2, <1>3, <1>4, <1>5, <1>6

\* The first part of begin_binning: a new scene with its fence and its state.
LEMMA BeginScene ==
  ASSUME NEW s \in LpStates, Empty(s), NEW a,
         a = TryUpdateSceneState([s EXCEPT !.fence = s.scenes + 1, !.scenes = @ + 1])
  PROVE  /\ \A n : Body(a, n)
         /\ Fresh(a) /\ a.ok /\ a.stored # Null /\ a.stored.tex = s.tex
         /\ a.fence = s.scenes + 1 /\ a.scenes = s.scenes + 1 /\ a.used = 1
         /\ a.state = s.state /\ a.fb = s.fb /\ a.tex = s.tex /\ a.clear = s.clear
         /\ a.active = s.active /\ a.done = s.done /\ a.queries = s.queries
         /\ a.ver = s.ver /\ a.mem = s.mem
         /\ \A q : ~ Holds(a, q)
  <1> DEFINE k == s.scenes + 1
             b == [s EXCEPT !.fence = k, !.scenes = k]
  <1>1. k \in Nat
    BY DEF LpStates
  <1>2. a = TryUpdateSceneState(b)
    OBVIOUS
  <1> HIDE DEF k
  <1>3. b \in LpStates
    BY <1>1 DEF LpStates
  <1>4. /\ b.fence = k /\ b.scenes = k /\ b.state = s.state /\ b.fb = s.fb /\ b.tex = s.tex
        /\ b.clear = s.clear /\ b.active = s.active /\ b.done = s.done
        /\ b.queries = s.queries /\ b.ver = s.ver /\ b.mem = s.mem
    BY DEF LpStates
  <1>5. /\ b.bins = s.bins /\ b.tail = s.tail /\ b.last_state = s.last_state
        /\ b.used = s.used /\ b.refs = s.refs /\ b.disabled = s.disabled /\ b.stored = s.stored
    BY DEF LpStates
  <1> HIDE DEF b
  <1>6. /\ b.used = 0 /\ b.stored = Null /\ b.disabled = {}
        /\ \A t \in Tiles : b.bins[t] = <<>> /\ b.tail[t] = CmdBlockMax /\ b.last_state[t] = Null
    BY <1>5 DEF Empty
  <1>7. b.stored.tex \in b.refs \cup {NoTexture}
    BY <1>6 DEF Null
  <1>8. Referenced(b)
    BY <1>3, <1>6, <1>7, EmptyBins
  <1>9. b.used < Room
    BY <1>6, Constants
  <1>10. /\ a \in LpStates /\ SameButState(b, a) /\ Referenced(a)
         /\ a.ok /\ a.used = b.used + 1 /\ a.stored # Null /\ a.stored.tex = b.tex
    BY <1>2, <1>3, <1>6, <1>8, <1>9, TryUpdateEffect
  <1>11. /\ a.disabled = {} /\ a.used = 1
         /\ \A t \in Tiles : a.bins[t] = <<>> /\ a.tail[t] = CmdBlockMax /\ a.last_state[t] = Null
    BY <1>6, <1>10 DEF SameButState
  <1>12. Fresh(a)
    BY <1>11 DEF Fresh
  <1>13. \A n : StatesMatch(a) /\ Numbers(a, n)
    BY <1>10, <1>11, EmptyBins
  <1>14. \A q : ~ Holds(a, q)
    BY <1>10, <1>11, EmptyBins
  <1>15. /\ a.fence = b.fence /\ a.scenes = b.scenes
         /\ a.state = b.state /\ a.fb = b.fb /\ a.tex = b.tex /\ a.clear = b.clear
         /\ a.active = b.active /\ a.done = b.done /\ a.queries = b.queries
         /\ a.ver = b.ver /\ a.mem = b.mem
    BY <1>10 DEF SameButState
  <1>16. a.fence = s.scenes + 1 /\ a.scenes = s.scenes + 1
    BY <1>4, <1>15 DEF k
  <1>17. \A n : Body(a, n)
    BY <1>10, <1>13 DEF Body
  <1> QED BY <1>4, <1>10, <1>11, <1>12, <1>14, <1>15, <1>16, <1>17

\* The pending clears, in order.
LEMMA ColorClear ==
  ASSUME NEW a, NEW n, Body(a, n), Fresh(a), a.used = 1, NEW b, b = BinColorClear(a), a.ok
  PROVE  /\ Body(b, n) /\ SameScene(a, b) /\ b.ok
         /\ \A q : Holds(b, q) => Holds(a, q)
         /\ \A t \in Tiles : Run(b, t).tile = PaintClear(Run(a, t).tile, PendingOf(a, {"c"}))
         /\ b.used + NumTiles <= Room \/ \A t \in Tiles : b.tail[t] < CmdBlockMax
         /\ a.clear = NoClear => b = a
  <1>0. a \in LpStates /\ \A t \in Tiles : Run(a, t).tile \in Pictures
    BY AfterTyped DEF Body, TileStates
  <1>1. /\ PendingOf(a, {"c"}) \in ClearValues
        /\ DOMAIN PendingOf(a, {"c"}) = {"c"} \cap DOMAIN a.clear
    BY <1>0, PendingFacts DEF Buffers
  <1>2. CASE "c" \notin DOMAIN a.clear
    <2>1. b = a
      BY <1>2 DEF BinColorClear
    <2>2. DOMAIN PendingOf(a, {"c"}) = {}
      BY <1>1, <1>2
    <2>3. \A t \in Tiles : PaintClear(Run(a, t).tile, PendingOf(a, {"c"})) = Run(a, t).tile
      BY <1>0, <1>1, <2>2, PaintClearFacts
    <2>4. SameScene(a, b)
      BY <2>1 DEF SameScene
    <2>5. b.used + NumTiles <= Room
      BY <2>1, Constants
    <2> QED BY <2>1, <2>3, <2>4, <2>5
  <1>3. CASE "c" \in DOMAIN a.clear
    <2> DEFINE r == SceneAlloc(a)
    <2>1. /\ Body(r, n) /\ SameScene(a, r) /\ r.tail = a.tail
          /\ r.ok => r.used = a.used + 1
          /\ ~ r.ok => a.used = Room
          /\ \A q : Holds(r, q) => Holds(a, q)
          /\ \A t \in Tiles : Run(r, t).tile = Run(a, t).tile
      BY AllocBody
    <2>2. r.ok /\ r.used = 2
      BY <2>1, Constants
    <2>3. b = BinEverywhere(r, [op |-> "clear", arg |-> PendingOf(a, {"c"})])
      BY <1>3, <2>2 DEF BinColorClear, Then
    <2> HIDE DEF r
    <2>4. r.used + NumTiles <= Room
      BY <2>2, Constants
    <2>5. /\ Body(b, n) /\ SameScene(r, b) /\ b.ok
          /\ \A q : Holds(b, q) => Holds(r, q)
          /\ \A t \in Tiles : Run(b, t).tile = PaintClear(Run(r, t).tile, PendingOf(a, {"c"}))
          /\ \A t \in Tiles : r.tail[t] = CmdBlockMax => b.tail[t] = 1
      BY <1>1, <2>1, <2>3, <2>4, ClearEverywhere
    <2>6. \A t \in Tiles : b.tail[t] < CmdBlockMax
      BY <2>1, <2>5, Constants DEF Fresh
    <2>7. SameScene(a, b)
      BY <2>1, <2>5, SameSceneTrans
    <2>8. a.clear # NoClear
      BY <1>3, NullTyped
    <2> QED BY <2>1, <2>5, <2>6, <2>7, <2>8
  <1> QED BY <1>2, <1>3

\* The pending clear of depth and stencil gets into all bins of begin_binning, which
\* have room for it.
LEMMA ZsClear ==
  ASSUME NEW b, NEW n, Body(b, n), b.ok, NEW c, c = BinZsClear(b),
         b.used + NumTiles <= Room \/ \A t \in Tiles : b.tail[t] < CmdBlockMax,
         DOMAIN b.clear \subseteq BuffersOf(b.fb)
  PROVE  /\ Body(c, n) /\ SameScene(b, c) /\ c.ok
         /\ \A q : Holds(c, q) => Holds(b, q)
         /\ \A t \in Tiles : Run(c, t).tile = PaintClear(Run(b, t).tile, PendingOf(b, ZsBuffers))
         /\ b.clear = NoClear => c = b
  <1>0. b \in LpStates /\ \A t \in Tiles : Run(b, t).tile \in Pictures
    BY AfterTyped DEF Body, TileStates
  <1>1. /\ PendingOf(b, ZsBuffers) \in ClearValues
        /\ DOMAIN PendingOf(b, ZsBuffers) = ZsBuffers \cap DOMAIN b.clear
    BY <1>0, PendingFacts DEF Buffers
  <1>2. CASE DOMAIN b.clear \cap ZsBuffers = {} \/ b.fb \notin ZsBound
    <2>1. c = b
      BY <1>2 DEF BinZsClear
    <2>2. DOMAIN PendingOf(b, ZsBuffers) = {}
      BY <1>1, <1>2 DEF BuffersOf, ZsBuffers
    <2>3. \A t \in Tiles : PaintClear(Run(b, t).tile, PendingOf(b, ZsBuffers)) = Run(b, t).tile
      BY <1>0, <1>1, <2>2, PaintClearFacts
    <2>4. SameScene(b, c)
      BY <2>1 DEF SameScene
    <2> QED BY <2>1, <2>3, <2>4
  <1>3. CASE ~ (DOMAIN b.clear \cap ZsBuffers = {} \/ b.fb \notin ZsBound)
    <2>1. c = BinEverywhere(b, [op |-> "clear", arg |-> PendingOf(b, ZsBuffers)])
      BY <1>3 DEF BinZsClear
    <2>2. b.clear # NoClear
      BY <1>3, NullTyped
    <2> QED BY <1>1, <2>1, <2>2, ClearEverywhere
  <1> QED BY <1>2, <1>3

\* What the bins mean depends on these fields alone.
LEMMA BodyKept ==
  ASSUME NEW s, NEW n, Body(s, n), NEW u \in LpStates, u.fb = s.fb, u.ver = s.ver,
         u.disabled = s.disabled, u.mem = s.mem, u.bins = s.bins,
         u.last_state = s.last_state, u.refs = s.refs, u.stored = s.stored
  PROVE  /\ Body(u, n)
         /\ \A t \in Tiles : Run(u, t).tile = Run(s, t).tile
         /\ \A q : Holds(u, q) <=> Holds(s, q)
  <1>1. s \in LpStates /\ Referenced(s) /\ StatesMatch(s) /\ Numbers(s, n)
    BY DEF Body
  <1>2. \A t \in Tiles : Run(u, t).tile = Run(s, t).tile /\ Run(u, t).tex = Run(s, t).tex
    BY <1>1, SameRun
  <1>3. Referenced(u)
    BY <1>1 DEF Referenced
  <1>4. StatesMatch(u)
    BY <1>1, <1>2 DEF StatesMatch
  <1>5. Numbers(u, n)
    BY <1>1 DEF Numbers
  <1>6. \A q : Holds(u, q) <=> Holds(s, q)
    BY DEF Holds
  <1> QED BY <1>2, <1>3, <1>4, <1>5, <1>6 DEF Body

\* begin_binning has memory enough, and bins all pending clears.
LEMMA BeginBinningEffect ==
  ASSUME NEW s, Scene(s), s.state # "ACTIVE", NEW u, u = BeginBinning(s)
  PROVE  /\ \A n : Body(u, n)
         /\ u.ok /\ u.clear = NoClear /\ u.stored # Null /\ u.stored.tex = s.tex
         /\ u.fence = s.scenes + 1 /\ u.scenes = s.scenes + 1
         /\ u.state = s.state /\ u.fb = s.fb /\ u.tex = s.tex /\ u.active = s.active
         /\ u.done = s.done /\ u.queries = s.queries /\ u.ver = s.ver /\ u.mem = s.mem
         /\ \A q : ~ Holds(u, q)
         /\ \A t \in Tiles : Run(u, t).tile = Shown(s, t)
         /\ s.clear = NoClear => Fresh(u)
  <1> DEFINE a == TryUpdateSceneState([s EXCEPT !.fence = s.scenes + 1, !.scenes = @ + 1])
             b == BinColorClear(a)
             c == BinZsClear(b)
             had == (s.active # {})
  <1>1. s \in LpStates /\ Empty(s) /\ DOMAIN s.clear \subseteq BuffersOf(s.fb) /\ Referenced(s)
    BY DEF Scene, Phases
  <1>2. /\ \A n : Body(a, n)
        /\ Fresh(a) /\ a.ok /\ a.stored # Null /\ a.stored.tex = s.tex
        /\ a.fence = s.scenes + 1 /\ a.scenes = s.scenes + 1 /\ a.used = 1
        /\ a.state = s.state /\ a.fb = s.fb /\ a.tex = s.tex /\ a.clear = s.clear
        /\ a.active = s.active /\ a.done = s.done /\ a.queries = s.queries
        /\ a.ver = s.ver /\ a.mem = s.mem
        /\ \A q : ~ Holds(a, q)
    BY <1>1, BeginScene
  <1>3. ASSUME NEW n
        PROVE  /\ Body(b, n) /\ SameScene(a, b) /\ b.ok
               /\ \A q : Holds(b, q) => Holds(a, q)
               /\ \A t \in Tiles : Run(b, t).tile = PaintClear(Run(a, t).tile, PendingOf(a, {"c"}))
               /\ b.used + NumTiles <= Room \/ \A t \in Tiles : b.tail[t] < CmdBlockMax
               /\ a.clear = NoClear => b = a
    <2> HIDE DEF a
    <2> QED BY <1>2, ColorClear
  <1>4. DOMAIN b.clear \subseteq BuffersOf(b.fb)
    BY <1>1, <1>2, <1>3 DEF SameScene
  <1>5. ASSUME NEW n
        PROVE  /\ Body(c, n) /\ SameScene(b, c) /\ c.ok
               /\ \A q : Holds(c, q) => Holds(b, q)
               /\ \A t \in Tiles :
                    Run(c, t).tile = PaintClear(Run(b, t).tile, PendingOf(b, ZsBuffers))
               /\ b.clear = NoClear => c = b
    <2> HIDE DEF a, b
    <2> QED BY <1>3, <1>4, ZsClear
  <1>6. u = [c EXCEPT !.clear = NoClear, !.had_queries = had]
    BY <1>2, <1>3, <1>5 DEF BeginBinning, Then
  <1>7. SameScene(a, c)
    BY <1>3, <1>5, SameSceneTrans
  <1>8. \A t \in Tiles : Run(c, t).tile = PaintClear(Run(a, t).tile, a.clear)
    <2> SUFFICES ASSUME NEW t \in Tiles PROVE Run(c, t).tile = PaintClear(Run(a, t).tile, a.clear)
      OBVIOUS
    <2>1. a \in LpStates /\ b.clear = a.clear
      BY <1>2, <1>3 DEF Body, SameScene
    <2>2. Run(a, t).tile \in Pictures
      BY <2>1, AfterTyped DEF TileStates
    <2>3. PendingOf(b, ZsBuffers) = PendingOf(a, ZsBuffers)
      BY <2>1 DEF PendingOf
    <2>4. Run(c, t).tile = PaintClear(PaintClear(Run(a, t).tile, PendingOf(a, {"c"})), PendingOf(a, ZsBuffers))
      BY <1>3, <1>5, <2>3
    <2>5. {"c"} \in SUBSET Buffers
      BY DEF Buffers
    <2> HIDE DEF a, b, c
    <2> QED BY <2>1, <2>2, <2>4, <2>5, PendingFacts
  <1>9. \A t \in Tiles : Run(a, t).tile = Run(s, t).tile
    <2>1. \A t \in Tiles : Run(s, t).tile = s.mem[s.fb][t]
      BY <1>1, EmptyBins DEF Empty
    <2>2. a \in LpStates /\ a.disabled = {} /\ \A t \in Tiles : a.bins[t] = <<>> /\ a.last_state[t] = Null
      BY <1>2 DEF Fresh, Body
    <2>3. \A t \in Tiles : Run(a, t).tile = a.mem[a.fb][t]
      <3> HIDE DEF a
      <3> QED BY <2>2, EmptyBins
    <2> QED BY <1>2, <2>1, <2>3
  <1>10. had \in BOOLEAN
    OBVIOUS
  <1>11. a.clear = NoClear => c = a
    BY <1>3, <1>5
  <1>12. /\ c \in LpStates /\ c.ok = TRUE /\ \A n : Body(c, n)
    <2>1. c \in LpStates /\ c.ok /\ \A n : Body(c, n)
      BY <1>5 DEF Body
    <2> QED BY <2>1 DEF LpStates
  <1>13. \A q : ~ Holds(c, q)
    BY <1>2, <1>3, <1>5
  <1> HIDE DEF a, b, c, had
  <1>14. u \in LpStates
    BY <1>6, <1>10, <1>12, NullTyped DEF LpStates
  <1>15. /\ u.clear = NoClear /\ u.ok = TRUE /\ u.stored = c.stored /\ u.fence = c.fence
         /\ u.scenes = c.scenes /\ u.state = c.state /\ u.fb = c.fb /\ u.tex = c.tex
         /\ u.active = c.active /\ u.done = c.done /\ u.queries = c.queries
         /\ u.ver = c.ver /\ u.mem = c.mem
    BY <1>6, <1>12 DEF LpStates
  <1>16. /\ u.bins = c.bins /\ u.tail = c.tail /\ u.last_state = c.last_state
         /\ u.used = c.used /\ u.refs = c.refs /\ u.disabled = c.disabled
    BY <1>6, <1>12 DEF LpStates
  <1>17. \A n : Body(u, n)
    BY <1>12, <1>14, <1>15, <1>16, BodyKept
  <1>18. /\ \A t \in Tiles : Run(u, t).tile = Run(c, t).tile
         /\ \A q : Holds(u, q) <=> Holds(c, q)
    BY <1>12, <1>14, <1>15, <1>16, BodyKept
  <1>19. /\ c.stored = a.stored /\ c.fence = a.fence
         /\ c.scenes = a.scenes /\ c.state = a.state /\ c.fb = a.fb /\ c.tex = a.tex
         /\ c.active = a.active /\ c.done = a.done /\ c.queries = a.queries
         /\ c.ver = a.ver /\ c.mem = a.mem
    BY <1>7 DEF SameScene
  <1>20. \A t \in Tiles : Run(u, t).tile = Shown(s, t)
    BY <1>2, <1>8, <1>9, <1>18 DEF Shown
  <1>21. s.clear = NoClear => Fresh(u)
    BY <1>2, <1>11, <1>16 DEF Fresh
  <1>22. \A q : ~ Holds(u, q)
    BY <1>13, <1>18
  <1> QED BY <1>2, <1>15, <1>17, <1>19, <1>20, <1>21, <1>22

-----------------------------------------------------------------------------
(***************************************************************************)
(* set_scene_state, lp_setup_update_state, lp_setup_flush_and_restart       *)
(***************************************************************************)

\* What a call of setup may do that does not paint: what is shown stays, the scene
\* may have been flushed, and the bins hold commands of no queries but those of X
\* and those that they held before, and these only in the same scene.
Keeps(s, u, X) ==
  /\ u.fb = s.fb /\ u.tex = s.tex /\ u.ver = s.ver /\ FencesKept(s, u)
  /\ \A f \in Framebuffers \ {s.fb}, t \in Tiles : u.mem[f][t] = s.mem[f][t]
  /\ \A t \in Tiles : u.mem[s.fb][t] = s.mem[s.fb][t] \/ u.mem[s.fb][t] = Shown(s, t)
  /\ \A t \in Tiles : Shown(u, t) = Shown(s, t)
  /\ \A q : Holds(u, q) => q \in X \/ (Holds(s, q) /\ u.fence = s.fence)

\* Two calls that keep what is shown do so together.
LEMMA KeepsTrans ==
  ASSUME NEW s, NEW u, NEW w, NEW X, Keeps(s, u, X), Keeps(u, w, X)
  PROVE  Keeps(s, w, X)
  <1>1. w.fb = s.fb /\ w.tex = s.tex /\ w.ver = s.ver /\ FencesKept(s, w)
    BY DEF Keeps, FencesKept
  <1>2. \A f \in Framebuffers \ {s.fb}, t \in Tiles : w.mem[f][t] = s.mem[f][t]
    BY DEF Keeps
  <1>3. \A t \in Tiles : Shown(w, t) = Shown(s, t)
    BY DEF Keeps
  <1>4. \A t \in Tiles : w.mem[s.fb][t] = s.mem[s.fb][t] \/ w.mem[s.fb][t] = Shown(s, t)
    BY DEF Keeps
  <1>5. \A q : Holds(w, q) => q \in X \/ (Holds(s, q) /\ w.fence = s.fence)
    BY DEF Keeps
  <1> QED BY <1>1, <1>2, <1>3, <1>4, <1>5 DEF Keeps

\* Keeps allows more queries when more are named.
LEMMA KeepsMore ==
  ASSUME NEW s, NEW u, NEW X, NEW Y, Keeps(s, u, X), X \subseteq Y PROVE Keeps(s, u, Y)
  BY DEF Keeps

\* What does nothing keeps everything.
LEMMA KeepsSelf ==
  ASSUME NEW s, NEW X PROVE Keeps(s, s, X)
  BY DEF Keeps, FencesKept

\* Only ok has changed.
LEMMA OkKeeps ==
  ASSUME NEW s, Scene(s), NEW o \in BOOLEAN, NEW u, u = [s EXCEPT !.ok = o]
  PROVE  /\ Scene(u) /\ u.ok = o /\ Keeps(s, u, {}) /\ u.state = s.state
         /\ \A n : Good(s, n) => Good(u, n)
         /\ u.scenes = s.scenes /\ u.fence = s.fence /\ u.active = s.active
         /\ u.stored = s.stored
  <1>1. s \in LpStates /\ Referenced(s) /\ Phases(s)
    BY DEF Scene
  <1>2. /\ u \in LpStates /\ SameScene(s, u) /\ u.ok = o /\ u.bins = s.bins
        /\ u.tail = s.tail /\ u.last_state = s.last_state /\ u.used = s.used
    BY <1>1, OkEffect
  <1>3. \A t \in Tiles : Run(u, t).tile = Run(s, t).tile /\ Run(u, t).tex = Run(s, t).tex
    BY <1>1, <1>2, SameSceneAlike
  <1>4. Referenced(u)
    BY <1>1, <1>2 DEF Referenced, SameScene
  <1>5. Phases(u)
    BY <1>1, <1>2 DEF Phases, SameScene, Empty
  <1>6. Keeps(s, u, {})
    <2>1. \A t \in Tiles : Shown(u, t) = Shown(s, t)
      BY <1>2, <1>3 DEF Shown, SameScene
    <2>2. \A q : Holds(u, q) => Holds(s, q) /\ u.fence = s.fence
      BY <1>2 DEF Holds, SameScene
    <2>3. u.fb = s.fb /\ u.tex = s.tex /\ u.ver = s.ver /\ u.mem = s.mem /\ u.queries = s.queries
      BY <1>2 DEF SameScene
    <2> QED BY <2>1, <2>2, <2>3 DEF Keeps, FencesKept
  <1>7. ASSUME NEW n, Good(s, n) PROVE Good(u, n)
    <2>1. StatesMatch(u)
      BY <1>2, <1>3, <1>7 DEF Good, StatesMatch
    <2>2. Numbers(u, n)
      BY <1>2, <1>7 DEF Good, Numbers, SameScene
    <2> QED BY <1>2, <1>4, <1>5, <2>1, <2>2 DEF Good, Scene
  <1>8. /\ u.scenes = s.scenes /\ u.fence = s.fence /\ u.active = s.active
        /\ u.stored = s.stored /\ u.state = s.state
    BY <1>2 DEF SameScene
  <1> QED BY <1>2, <1>4, <1>5, <1>6, <1>7, <1>8 DEF Scene

\* Into the ACTIVE state.
LEMMA ActiveEffect ==
  ASSUME NEW s, Scene(s), NEW u, u = SetSceneState(s, "ACTIVE")
  PROVE  /\ u.ok /\ Scene(u) /\ u.state = "ACTIVE" /\ Keeps(s, u, {})
         /\ u.active = s.active
         /\ s.state = "ACTIVE" => \A n : Good(s, n) => Good(u, n)
         /\ s.state # "ACTIVE" =>
              (\A n : Good(u, n)) /\ u.stored.tex = s.tex /\ u.scenes = s.scenes + 1
         /\ s.state = "ACTIVE" => /\ u.scenes = s.scenes /\ u.stored = s.stored
         /\ s.state = "FLUSHED" => Fresh(u)
  <1>1. CASE s.state = "ACTIVE"
    <2>1. u = [s EXCEPT !.ok = TRUE]
      BY <1>1 DEF SetSceneState
    <2> QED BY <1>1, <2>1, OkKeeps
  <1>2. CASE s.state # "ACTIVE"
    <2> DEFINE a == BeginBinning(s)
    <2>1. /\ \A n : Body(a, n)
          /\ a.ok /\ a.clear = NoClear /\ a.stored # Null /\ a.stored.tex = s.tex
          /\ a.fence = s.scenes + 1 /\ a.scenes = s.scenes + 1
          /\ a.state = s.state /\ a.fb = s.fb /\ a.tex = s.tex /\ a.active = s.active
          /\ a.done = s.done /\ a.queries = s.queries /\ a.ver = s.ver /\ a.mem = s.mem
          /\ \A q : ~ Holds(a, q)
          /\ \A t \in Tiles : Run(a, t).tile = Shown(s, t)
          /\ s.clear = NoClear => Fresh(a)
      BY <1>2, BeginBinningEffect
    <2>2. u = [a EXCEPT !.state = "ACTIVE"]
      BY <1>2, <2>1 DEF SetSceneState
    <2> HIDE DEF a
    <2>3. a \in LpStates
      BY <2>1 DEF Body
    <2>4. u \in LpStates
      BY <2>2, <2>3 DEF LpStates
    <2>5. /\ u.state = "ACTIVE" /\ u.ok = a.ok /\ u.fb = a.fb /\ u.ver = a.ver
          /\ u.disabled = a.disabled /\ u.mem = a.mem /\ u.bins = a.bins
          /\ u.last_state = a.last_state /\ u.refs = a.refs /\ u.stored = a.stored
      BY <2>2, <2>3 DEF LpStates
    <2>6. /\ u.tail = a.tail /\ u.used = a.used /\ u.clear = a.clear /\ u.fence = a.fence
          /\ u.scenes = a.scenes /\ u.tex = a.tex /\ u.active = a.active /\ u.done = a.done
          /\ u.queries = a.queries
      BY <2>2, <2>3 DEF LpStates
    <2>7. \A n : Body(u, n)
      BY <2>1, <2>4, <2>5, BodyKept
    <2>8. \A t \in Tiles : Run(u, t).tile = Run(a, t).tile
      BY <2>1, <2>4, <2>5, BodyKept
    <2>9. \A q : ~ Holds(u, q)
      BY <2>1, <2>5 DEF Holds
    <2>10. s.done <= s.scenes /\ s.done \in Nat /\ s.scenes \in Nat
           /\ (s.state = "FLUSHED" => s.clear = NoClear)
      BY <1>2 DEF Scene, Phases, LpStates
    <2>11. Phases(u)
      <3>1. u.done < u.scenes
        BY <2>1, <2>6, <2>10
      <3>2. DOMAIN u.clear \subseteq BuffersOf(u.fb)
        BY <2>1, <2>6, NullTyped
      <3> QED BY <2>1, <2>5, <2>6, <3>1, <3>2 DEF Phases
    <2>12. \A t \in Tiles : Shown(u, t) = Shown(s, t)
      <3> SUFFICES ASSUME NEW t \in Tiles PROVE Shown(u, t) = Shown(s, t)
        OBVIOUS
      <3>1. Run(u, t).tile \in Pictures /\ NoClear \in ClearValues
        BY <2>4, AfterTyped, NullTyped DEF TileStates
      <3>2. PaintClear(Run(u, t).tile, NoClear) = Run(u, t).tile
        BY <3>1, PaintClearFacts
      <3> QED BY <2>1, <2>6, <2>8, <3>2 DEF Shown
    <2>13. Keeps(s, u, {})
      BY <2>1, <2>5, <2>6, <2>9, <2>12 DEF Keeps, FencesKept
    <2>14. (\A n : Good(u, n)) /\ Scene(u)
      BY <2>7, <2>11 DEF Body, Good, Scene
    <2>15. s.state = "FLUSHED" => Fresh(u)
      BY <2>1, <2>5, <2>6, <2>10 DEF Fresh
    <2>16. u.ok /\ u.active = s.active /\ u.scenes = s.scenes + 1 /\ u.stored.tex = s.tex
      BY <2>1, <2>5, <2>6
    <2> QED BY <1>2, <2>5, <2>13, <2>14, <2>15, <2>16
  <1> QED BY <1>1, <1>2

\* A flush: everything is in memory and the scene is empty.
LEMMA FlushEffect ==
  ASSUME NEW s, Scene(s), NEW u, u = SetupFlush(s)
  PROVE  /\ u.ok /\ Scene(u) /\ (\A n : Good(u, n)) /\ u.state = "FLUSHED" /\ Keeps(s, u, {})
         /\ u.active = s.active /\ u.scenes >= s.scenes
         /\ \A t \in Tiles : u.mem[s.fb][t] = Shown(s, t)
         /\ \A q : ~ Holds(u, q)
         /\ s.state # "FLUSHED" => u.done = u.scenes
  <1>0. s \in LpStates /\ Referenced(s) /\ Phases(s) /\ s.scenes \in Nat /\ s.done \in Nat
    BY DEF Scene, LpStates
  <1>1. CASE s.state = "FLUSHED"
    <2>1. u = [s EXCEPT !.ok = TRUE]
      BY <1>1 DEF SetupFlush, SetSceneState
    <2>2. Scene(u) /\ u.ok /\ Keeps(s, u, {}) /\ u.state = s.state /\ u.scenes = s.scenes /\ u.active = s.active
      BY <2>1, OkKeeps
    <2>3. u \in LpStates /\ Empty(u) /\ u.clear = NoClear
      BY <1>1, <2>2 DEF Scene, Phases
    <2>4. u.disabled = {} /\ \A t \in Tiles : u.bins[t] = <<>> /\ u.last_state[t] = Null
      BY <2>3 DEF Empty
    <2>5. \A n : StatesMatch(u) /\ Numbers(u, n)
      BY <2>3, <2>4, EmptyBins
    <2>6. (\A q : ~ Holds(u, q)) /\ \A t \in Tiles : Run(u, t).tile = u.mem[u.fb][t]
      BY <2>3, <2>4, EmptyBins
    <2>7. \A t \in Tiles : u.mem[s.fb][t] = Shown(s, t)
      <3> SUFFICES ASSUME NEW t \in Tiles PROVE u.mem[s.fb][t] = Shown(s, t)
        OBVIOUS
      <3>1. Run(u, t).tile \in Pictures /\ NoClear \in ClearValues
        BY <2>3, AfterTyped, NullTyped DEF TileStates
      <3>2. Shown(u, t) = Run(u, t).tile
        BY <2>3, <3>1, PaintClearFacts DEF Shown
      <3>3. u.fb = s.fb /\ Shown(u, t) = Shown(s, t)
        BY <2>2 DEF Keeps
      <3> QED BY <2>6, <3>2, <3>3
    <2>8. \A n : Good(u, n)
      BY <2>2, <2>5 DEF Good
    <2>9. u.scenes >= s.scenes
      BY <1>0, <2>2
    <2> QED BY <1>1, <2>2, <2>6, <2>7, <2>8, <2>9
  <1>2. CASE s.state # "FLUSHED"
    <2> DEFINE a == IF s.state = "CLEARED" THEN BeginBinning(s) ELSE [s EXCEPT !.ok = TRUE]
               r == RasterizeScene(a)
    <2>1. /\ a \in LpStates /\ Referenced(a) /\ a.ok /\ a.fence = a.scenes /\ a.scenes >= s.scenes
          /\ a.fb = s.fb /\ a.tex = s.tex /\ a.active = s.active /\ a.ver = s.ver
          /\ a.mem = s.mem /\ FencesKept(s, a) /\ a.clear = NoClear
          /\ \A t \in Tiles : Run(a, t).tile = Shown(s, t)
      <3>1. CASE s.state = "CLEARED"
        <4>1. s.state # "ACTIVE" /\ a = BeginBinning(s)
          BY <3>1
        <4> HIDE DEF a
        <4>2. /\ \A n : Body(a, n)
              /\ a.ok /\ a.clear = NoClear /\ a.fence = s.scenes + 1 /\ a.scenes = s.scenes + 1
              /\ a.fb = s.fb /\ a.tex = s.tex /\ a.active = s.active
              /\ a.queries = s.queries /\ a.ver = s.ver /\ a.mem = s.mem
              /\ \A t \in Tiles : Run(a, t).tile = Shown(s, t)
          BY <4>1, BeginBinningEffect
        <4>3. a.scenes >= s.scenes
          BY <1>0, <4>2
        <4>4. FencesKept(s, a) /\ a \in LpStates /\ Referenced(a)
          BY <4>2 DEF FencesKept, Body
        <4> QED BY <4>2, <4>3, <4>4
      <3>2. CASE s.state # "CLEARED"
        <4>1. s.state = "ACTIVE"
          BY <1>0, <1>2, <3>2 DEF LpStates
        <4>2. a = [s EXCEPT !.ok = TRUE]
          BY <3>2
        <4> HIDE DEF a
        <4>3. Scene(a) /\ a.ok = TRUE /\ Keeps(s, a, {}) /\ a.scenes = s.scenes /\ a.fence = s.fence
              /\ a.active = s.active
          BY <4>2, OkKeeps
        <4>4. /\ a \in LpStates /\ SameScene(s, a) /\ a.bins = s.bins
          BY <1>0, <4>2, OkEffect
        <4>5. \A t \in Tiles : Run(a, t).tile = Run(s, t).tile
          BY <1>0, <4>4, SameSceneAlike
        <4>6. \A t \in Tiles : Run(a, t).tile = Shown(s, t)
          <5> SUFFICES ASSUME NEW t \in Tiles PROVE Run(a, t).tile = Shown(s, t)
            OBVIOUS
          <5>1. Run(s, t).tile \in Pictures /\ NoClear \in ClearValues
            BY <1>0, AfterTyped, NullTyped DEF TileStates
          <5>2. s.clear = NoClear
            BY <1>0, <4>1 DEF Phases
          <5> QED BY <4>5, <5>1, <5>2, PaintClearFacts DEF Shown
        <4>7. s.fence = s.scenes /\ s.clear = NoClear
          BY <1>0, <4>1 DEF Phases
        <4>8. a.scenes >= s.scenes
          BY <1>0, <4>3
        <4>9. /\ a.fb = s.fb /\ a.tex = s.tex /\ a.ver = s.ver /\ a.mem = s.mem
              /\ a.clear = s.clear
          BY <4>4 DEF SameScene
        <4>10. FencesKept(s, a) /\ Referenced(a)
          BY <4>3 DEF Keeps, Scene
        <4> QED BY <4>3, <4>4, <4>6, <4>7, <4>8, <4>9, <4>10
      <3> QED BY <3>1, <3>2
    <2>2. r.ok => u = [r EXCEPT !.state = "FLUSHED"]
      BY <1>2, <2>1 DEF SetupFlush, SetSceneState, Then
    <2> HIDE DEF a
    <2>3. /\ r \in LpStates /\ Empty(r) /\ r.clear = NoClear /\ r.done = a.fence /\ r.ok
          /\ r.fb = a.fb /\ r.tex = a.tex /\ r.active = a.active
          /\ r.ver = a.ver /\ r.scenes = a.scenes /\ FencesKept(a, r)
          /\ \A f \in Framebuffers, k \in Tiles :
               r.mem[f][k] = IF f = a.fb THEN Run(a, k).tile ELSE a.mem[f][k]
      BY <2>1, RasterizeSceneEffect
    <2>4. u = [r EXCEPT !.state = "FLUSHED"]
      BY <2>2, <2>3
    <2> HIDE DEF r
    <2>5. u \in LpStates
      BY <2>3, <2>4 DEF LpStates
    <2>6. /\ u.state = "FLUSHED" /\ u.ok = r.ok /\ u.fb = r.fb /\ u.ver = r.ver
          /\ u.disabled = r.disabled /\ u.mem = r.mem /\ u.bins = r.bins
          /\ u.last_state = r.last_state /\ u.refs = r.refs /\ u.stored = r.stored
      BY <2>3, <2>4 DEF LpStates
    <2>7. /\ u.tail = r.tail /\ u.used = r.used /\ u.clear = r.clear
          /\ u.scenes = r.scenes /\ u.tex = r.tex /\ u.active = r.active /\ u.done = r.done
          /\ u.queries = r.queries
      BY <2>3, <2>4 DEF LpStates
    <2>8. Empty(u)
      BY <2>3, <2>6, <2>7 DEF Empty
    <2>9. u.disabled = {} /\ u.stored = Null /\ \A t \in Tiles : u.bins[t] = <<>> /\ u.last_state[t] = Null
      BY <2>8 DEF Empty
    <2>10. u.stored.tex \in u.refs \cup {NoTexture}
      BY <2>9 DEF Null
    <2>11. /\ \A n : StatesMatch(u) /\ Numbers(u, n)
           /\ \A q : ~ Holds(u, q)
           /\ Referenced(u)
           /\ \A t \in Tiles : Run(u, t).tile = u.mem[u.fb][t]
      BY <2>5, <2>9, <2>10, EmptyBins
    <2>12. Phases(u)
      <3>1. u.done <= u.scenes
        BY <1>0, <2>1, <2>3, <2>5, <2>7 DEF LpStates
      <3>2. DOMAIN u.clear \subseteq BuffersOf(u.fb)
        BY <2>3, <2>7, NullTyped
      <3> QED BY <2>3, <2>6, <2>7, <2>8, <3>1, <3>2 DEF Phases
    <2>13. Scene(u) /\ \A n : Good(u, n)
      BY <2>5, <2>11, <2>12 DEF Scene, Good
    <2>14. \A t \in Tiles : u.mem[s.fb][t] = Shown(s, t)
      <3>1. s.fb \in Framebuffers
        BY <1>0 DEF LpStates
      <3> QED BY <2>1, <2>3, <2>6, <3>1
    <2>15. \A t \in Tiles : Shown(u, t) = Shown(s, t)
      <3> SUFFICES ASSUME NEW t \in Tiles PROVE Shown(u, t) = Shown(s, t)
        OBVIOUS
      <3>1. Run(u, t).tile \in Pictures /\ NoClear \in ClearValues
        BY <2>5, AfterTyped, NullTyped DEF TileStates
      <3>2. Shown(u, t) = Run(u, t).tile
        BY <2>3, <2>7, <3>1, PaintClearFacts DEF Shown
      <3>3. u.fb = s.fb
        BY <2>1, <2>3, <2>6
      <3> QED BY <2>11, <2>14, <3>2, <3>3
    <2>16. FencesKept(s, u)
      BY <2>1, <2>3, <2>7 DEF FencesKept
    <2>17. Keeps(s, u, {})
      <3>1. \A f \in Framebuffers \ {s.fb}, t \in Tiles : u.mem[f][t] = s.mem[f][t]
        BY <2>1, <2>3, <2>6
      <3>2. u.fb = s.fb /\ u.tex = s.tex /\ u.ver = s.ver
        BY <2>1, <2>3, <2>6, <2>7
      <3> QED BY <2>11, <2>14, <2>15, <2>16, <3>1, <3>2 DEF Keeps
    <2>18. u.done = u.scenes /\ u.scenes >= s.scenes /\ u.active = s.active
      BY <2>1, <2>3, <2>7
    <2> QED BY <2>3, <2>6, <2>11, <2>13, <2>14, <2>17, <2>18
  <1> QED BY <1>1, <1>2

\* A change of what is not in the scene.
LEMMA EditEffect ==
  ASSUME NEW s, Scene(s), NEW u \in LpStates, u.state = s.state, u.fb = s.fb,
         u.stored = s.stored, u.clear = s.clear, u.bins = s.bins, u.tail = s.tail,
         u.last_state = s.last_state, u.used = s.used, u.refs = s.refs, u.fence = s.fence,
         u.disabled = s.disabled, u.scenes = s.scenes, u.done = s.done, u.ver = s.ver,
         u.mem = s.mem
  PROVE  /\ Scene(u)
         /\ \A n : Good(s, n) => Good(u, n)
         /\ \A t \in Tiles : Shown(u, t) = Shown(s, t) /\ Run(u, t).tile = Run(s, t).tile
         /\ \A q : Holds(u, q) <=> Holds(s, q)
         /\ u.tex = s.tex /\ FencesKept(s, u) => \A X : Keeps(s, u, X)
         /\ Fresh(s) => Fresh(u)
  <1>1. s \in LpStates /\ Referenced(s) /\ Phases(s)
    BY DEF Scene
  <1>2. \A t \in Tiles : Run(u, t).tile = Run(s, t).tile /\ Run(u, t).tex = Run(s, t).tex
    BY <1>1, SameRun
  <1>3. Referenced(u) /\ Phases(u)
    BY <1>1 DEF Referenced, Phases, Empty
  <1>4. \A t \in Tiles : Shown(u, t) = Shown(s, t)
    BY <1>2 DEF Shown
  <1>5. \A q : Holds(u, q) <=> Holds(s, q)
    BY DEF Holds
  <1>6. u.tex = s.tex /\ FencesKept(s, u) => \A X : Keeps(s, u, X)
    BY <1>4, <1>5 DEF Keeps
  <1>7. ASSUME NEW n, Good(s, n) PROVE Good(u, n)
    <2>1. StatesMatch(u)
      BY <1>2, <1>7 DEF Good, StatesMatch
    <2>2. Numbers(u, n)
      BY <1>7 DEF Good, Numbers
    <2> QED BY <1>3, <2>1, <2>2 DEF Good, Scene
  <1>8. Fresh(s) => Fresh(u)
    BY DEF Fresh
  <1> QED BY <1>2, <1>3, <1>4, <1>5, <1>6, <1>7, <1>8 DEF Scene

\* try_update_scene_state in an ACTIVE scene.
LEMMA TryUpdateKeeps ==
  ASSUME NEW s, Scene(s), s.state = "ACTIVE", NEW u, u = TryUpdateSceneState(s)
  PROVE  /\ Scene(u) /\ u.state = "ACTIVE" /\ Keeps(s, u, {}) /\ u.ok \in BOOLEAN
         /\ \A n : Good(s, n) => Good(u, n)
         /\ u.ok => u.stored.tex = s.tex
         /\ s.stored.tex = s.tex => u.ok /\ (Fresh(s) => Fresh(u))
         /\ u.active = s.active /\ u.scenes = s.scenes
  <1>1. s \in LpStates /\ Referenced(s) /\ Phases(s) /\ s.stored # Null
    BY DEF Scene, Phases
  <1>2. /\ u \in LpStates /\ SameButState(s, u) /\ Referenced(u) /\ u.ok \in BOOLEAN
        /\ u.ok => /\ u.stored # Null /\ u.stored.tex = s.tex
        /\ s.stored # Null => u.stored # Null
        /\ s.stored # Null /\ s.stored.tex = s.tex => u.ok /\ u.used = s.used
    BY <1>1, TryUpdateEffect
  <1>3. /\ u.state = s.state /\ u.fb = s.fb /\ u.tex = s.tex /\ u.clear = s.clear
        /\ u.bins = s.bins /\ u.tail = s.tail /\ u.active = s.active
        /\ u.last_state = s.last_state /\ u.fence = s.fence /\ u.disabled = s.disabled
        /\ u.scenes = s.scenes /\ u.done = s.done
        /\ u.queries = s.queries /\ u.ver = s.ver /\ u.mem = s.mem
    BY <1>2 DEF SameButState
  <1>4. \A t \in Tiles : Run(u, t).tile = Run(s, t).tile /\ Run(u, t).tex = Run(s, t).tex
    BY <1>1, <1>2, <1>3, SameRun
  <1>5. Phases(u)
    BY <1>1, <1>2, <1>3 DEF Phases
  <1>6. Keeps(s, u, {})
    <2>1. \A t \in Tiles : Shown(u, t) = Shown(s, t)
      BY <1>3, <1>4 DEF Shown
    <2>2. \A q : Holds(u, q) => Holds(s, q)
      BY <1>3 DEF Holds
    <2> QED BY <1>3, <2>1, <2>2 DEF Keeps, FencesKept
  <1>7. ASSUME NEW n, Good(s, n) PROVE Good(u, n)
    <2>1. StatesMatch(u)
      BY <1>3, <1>4, <1>7 DEF Good, StatesMatch
    <2>2. Numbers(u, n)
      BY <1>3, <1>7 DEF Good, Numbers
    <2> QED BY <1>2, <1>5, <2>1, <2>2 DEF Good, Scene
  <1>8. s.stored.tex = s.tex => u.ok /\ (Fresh(s) => Fresh(u))
    BY <1>1, <1>2, <1>3 DEF Fresh
  <1> QED BY <1>2, <1>3, <1>5, <1>6, <1>7, <1>8 DEF Scene

\* lp_setup_update_state always gets an ACTIVE scene with the state.
LEMMA UpdateEffect ==
  ASSUME NEW s, NEW n, Good(s, n), NEW u, u = UpdateState(s)
  PROVE  /\ u.ok /\ Good(u, n) /\ u.state = "ACTIVE" /\ u.stored.tex = s.tex
         /\ Keeps(s, u, {}) /\ u.active = s.active
         /\ s.state = "FLUSHED" => Fresh(u)
  <1> DEFINE a == SetSceneState(s, "ACTIVE")
             b == TryUpdateSceneState(a)
             f == SetupFlush(b)
             c == SetSceneState(f, "ACTIVE")
             d == TryUpdateSceneState(c)
  <1>0. Scene(s)
    BY DEF Good
  <1>1. /\ a.ok /\ Scene(a) /\ a.state = "ACTIVE" /\ Keeps(s, a, {})
        /\ a.active = s.active
        /\ s.state = "ACTIVE" => \A m : Good(s, m) => Good(a, m)
        /\ s.state # "ACTIVE" => (\A m : Good(a, m)) /\ a.stored.tex = s.tex
        /\ s.state = "FLUSHED" => Fresh(a)
    BY <1>0, ActiveEffect
  <1>2. Good(a, n) /\ a.tex = s.tex
    BY <1>1 DEF Keeps
  <1> HIDE DEF a
  <1>3. /\ Scene(b) /\ b.state = "ACTIVE" /\ Keeps(a, b, {}) /\ b.ok \in BOOLEAN
        /\ \A m : Good(a, m) => Good(b, m)
        /\ b.ok => b.stored.tex = a.tex
        /\ a.stored.tex = a.tex => b.ok /\ (Fresh(a) => Fresh(b))
        /\ b.active = a.active
    BY <1>1, TryUpdateKeeps
  <1>4. Keeps(s, b, {}) /\ b.tex = s.tex
    BY <1>1, <1>3, KeepsTrans DEF Keeps
  <1> HIDE DEF b
  <1>5. CASE b.ok
    <2>1. u = b
      BY <1>1, <1>5 DEF UpdateState, a, b
    <2>2. s.state = "FLUSHED" => Fresh(u)
      BY <1>1, <1>2, <1>3, <2>1
    <2> QED BY <1>1, <1>2, <1>3, <1>4, <1>5, <2>1, <2>2
  <1>6. CASE ~ b.ok
    <2>1. /\ f.ok /\ Scene(f) /\ f.state = "FLUSHED" /\ Keeps(b, f, {}) /\ f.active = b.active
      BY <1>3, FlushEffect
    <2> HIDE DEF f
    <2>2. /\ c.ok /\ Scene(c) /\ c.state = "ACTIVE" /\ Keeps(f, c, {}) /\ c.active = f.active
          /\ (\A m : Good(c, m)) /\ c.stored.tex = f.tex /\ Fresh(c)
      BY <2>1, ActiveEffect
    <2> HIDE DEF c
    <2>3. c.tex = f.tex
      BY <2>2 DEF Keeps
    <2>4. /\ d.ok /\ d.state = "ACTIVE" /\ Keeps(c, d, {}) /\ Good(d, n) /\ Fresh(d)
          /\ d.stored.tex = c.tex /\ d.active = c.active
      BY <2>2, <2>3, TryUpdateKeeps
    <2>5. u = d
      BY <1>1, <1>6, <2>1, <2>2 DEF UpdateState, Then, a, b, c, d, f
    <2> HIDE DEF d
    <2>6. Keeps(s, f, {}) /\ f.tex = s.tex
      BY <1>4, <2>1, KeepsTrans DEF Keeps
    <2>7. Keeps(s, c, {})
      BY <2>2, <2>6, KeepsTrans
    <2>8. Keeps(s, d, {})
      BY <2>4, <2>7, KeepsTrans
    <2> QED BY <1>1, <1>3, <2>1, <2>2, <2>3, <2>4, <2>5, <2>6, <2>8
  <1> QED BY <1>5, <1>6

\* lp_setup_flush_and_restart.
LEMMA RestartEffect ==
  ASSUME NEW s, Scene(s), NEW u, u = FlushAndRestart(s)
  PROVE  /\ u.ok /\ (\A n : Good(u, n)) /\ u.state = "ACTIVE" /\ u.stored.tex = s.tex
         /\ Keeps(s, u, {}) /\ u.active = s.active /\ Fresh(u)
         /\ \A q : ~ Holds(u, q)
  <1> DEFINE f == SetupFlush(s)
  <1>1. /\ f.ok /\ (\A n : Good(f, n)) /\ f.state = "FLUSHED" /\ Keeps(s, f, {})
        /\ f.active = s.active
    BY FlushEffect
  <1>2. u = UpdateState(f)
    BY <1>1 DEF FlushAndRestart, Then
  <1>3. f.tex = s.tex
    BY <1>1 DEF Keeps
  <1> HIDE DEF f
  <1>4. \A n : /\ u.ok /\ Good(u, n) /\ u.state = "ACTIVE" /\ u.stored.tex = f.tex
               /\ Keeps(f, u, {}) /\ u.active = f.active /\ Fresh(u)
    BY <1>1, <1>2, UpdateEffect
  <1>5. Keeps(s, u, {})
    BY <1>1, <1>4, KeepsTrans
  <1>6. \A q : ~ Holds(u, q)
    <2>1. u \in LpStates
      BY <1>4 DEF Good, Scene
    <2> QED BY <1>4, <2>1, EmptyBins DEF Fresh
  <1> QED BY <1>1, <1>3, <1>4, <1>5, <1>6

-----------------------------------------------------------------------------
(***************************************************************************)
(* lp_setup_clear                                                           *)
(***************************************************************************)

\* What every call of setup keeps: the binding, the versions of the textures, the
\* memory of other framebuffers, and the queries in the bins as in Keeps.
Moves(s, u, X) ==
  /\ u.fb = s.fb /\ u.ver = s.ver /\ FencesKept(s, u)
  /\ \A f \in Framebuffers \ {s.fb}, t \in Tiles : u.mem[f][t] = s.mem[f][t]
  /\ \A q : Holds(u, q) => q \in X \/ (Holds(s, q) /\ u.fence = s.fence)

\* A framebuffer without depth and stencil has nothing there.
Plain(s) ==
  \A f \in Framebuffers \ ZsBound, t \in Tiles, b \in ZsBuffers :
    s.mem[f][t][b] = <<>> /\ (f = s.fb => Shown(s, t)[b] = <<>>)

\* What two calls in a row leave alone.
LEMMA MovesTrans ==
  ASSUME NEW s, NEW u, NEW w, NEW X, Moves(s, u, X), Moves(u, w, X)
  PROVE  Moves(s, w, X)
  <1>1. w.fb = s.fb /\ w.ver = s.ver /\ FencesKept(s, w)
    BY DEF Moves, FencesKept
  <1>2. \A f \in Framebuffers \ {s.fb}, t \in Tiles : w.mem[f][t] = s.mem[f][t]
    BY DEF Moves
  <1>3. \A q : Holds(w, q) => q \in X \/ (Holds(s, q) /\ w.fence = s.fence)
    BY DEF Moves
  <1> QED BY <1>1, <1>2, <1>3 DEF Moves

\* A call that keeps what is shown does what every call may do.
LEMMA KeepsMoves ==
  ASSUME NEW s, NEW u, NEW X, Keeps(s, u, X)
  PROVE  Moves(s, u, X) /\ (Plain(s) => Plain(u))
  <1>1. Moves(s, u, X)
    BY DEF Keeps, Moves
  <1>2. ASSUME Plain(s), NEW f \in Framebuffers \ ZsBound, NEW t \in Tiles, NEW b \in ZsBuffers
        PROVE  u.mem[f][t][b] = <<>> /\ (f = u.fb => Shown(u, t)[b] = <<>>)
    <2>1. CASE f = s.fb
      BY <1>2, <2>1 DEF Keeps, Plain
    <2>2. CASE f # s.fb
      BY <1>2, <2>2 DEF Keeps, Plain
    <2> QED BY <2>1, <2>2
  <1> QED BY <1>1, <1>2 DEF Plain

\* Binning in the same scene.
LEMMA SameSceneMoves ==
  ASSUME NEW s, NEW u, NEW X, SameScene(s, u), \A q : Holds(u, q) => Holds(s, q) \/ q \in X
  PROVE  Moves(s, u, X)
  BY DEF SameScene, Moves, FencesKept

\* A clear or a query command in all bins of an ACTIVE scene: what is shown then, also
\* when it did not fit.
LEMMA EverywhereGood ==
  ASSUME NEW s, NEW n, Good(s, n), s.state = "ACTIVE",
         NEW cmd \in ClearCommands \cup QueryCommands, NEW u, u = BinEverywhere(s, cmd)
  PROVE  /\ Good(u, n) /\ u.state = "ACTIVE" /\ SameScene(s, u) /\ u.ok \in BOOLEAN
         /\ \A q : Holds(u, q) => Holds(s, q) \/ (cmd \in QueryCommands /\ q = cmd.arg)
         /\ cmd \in QueryCommands => \A t \in Tiles : Shown(u, t) = Shown(s, t)
         /\ cmd \in ClearCommands =>
              \A t \in Tiles : \/ Shown(u, t) = PaintClear(Shown(s, t), cmd.arg)
                               \/ ~ u.ok /\ Shown(u, t) = Shown(s, t)
         /\ s.used + NumTiles <= Room => u.ok
  <1>1. Body(s, n) /\ Phases(s) /\ s.clear = NoClear /\ s \in LpStates
    BY DEF Good, Scene, Body, Phases
  <1>2. /\ Body(u, n) /\ SameScene(s, u)
        /\ \A q : Holds(u, q) => Holds(s, q) \/ (cmd \in QueryCommands /\ q = cmd.arg)
    BY <1>1, EverywhereBody
  <1>3. cmd \in QueryCommands => \A t \in Tiles : Run(u, t).tile = Run(s, t).tile
    BY <1>1, EverywhereBody
  <1>4. cmd \in ClearCommands =>
          \A t \in Tiles : \/ Run(u, t).tile = PaintClear(Run(s, t).tile, cmd.arg)
                           \/ ~ u.ok /\ Run(u, t).tile = Run(s, t).tile
    BY <1>1, EverywhereBody
  <1>5. u \in LpStates /\ u.state = "ACTIVE" /\ u.clear = NoClear
    BY <1>1, <1>2 DEF Body, SameScene
  <1>6. \A t \in Tiles : Shown(u, t) = Run(u, t).tile /\ Shown(s, t) = Run(s, t).tile
    <2> SUFFICES ASSUME NEW t \in Tiles
                 PROVE  Shown(u, t) = Run(u, t).tile /\ Shown(s, t) = Run(s, t).tile
      OBVIOUS
    <2>1. Run(u, t).tile \in Pictures /\ Run(s, t).tile \in Pictures /\ NoClear \in ClearValues
      BY <1>1, <1>5, AfterTyped, NullTyped DEF TileStates
    <2> QED BY <1>1, <1>5, <2>1, PaintClearFacts DEF Shown
  <1>7. Phases(u)
    BY <1>1, <1>2, <1>5 DEF Phases, SameScene
  <1>8. Good(u, n)
    BY <1>2, <1>7 DEF Body, Good, Scene
  <1>9. s.used + NumTiles <= Room => u.ok
    <2>1. cmd \in CommandTypes
      BY DEF CommandTypes
    <2>2. Spread(s, u, cmd, NumTiles)
      BY <1>1, <2>1, EverywhereEffect
    <2> QED BY <1>1, <2>1, <2>2, EverywhereFits
  <1>10. u.ok \in BOOLEAN
    BY <1>5 DEF LpStates
  <1> QED BY <1>2, <1>3, <1>4, <1>5, <1>6, <1>8, <1>9, <1>10

\* A clear of an ACTIVE scene, which may be in some bins only.
LEMMA TryClearActive ==
  ASSUME NEW s, NEW n, Good(s, n), s.state = "ACTIVE", NEW vals \in ClearValues,
         NEW u, u = TryClear(s, vals)
  PROVE  /\ Good(u, n) /\ Moves(s, u, {}) /\ u.ok \in BOOLEAN /\ u.mem = s.mem /\ u.tex = s.tex
         /\ \A t \in Tiles : \/ Shown(u, t) = PaintClear(Shown(s, t), vals)
                             \/ ~ u.ok /\ Shown(u, t) = Shown(s, t)
  <1> DEFINE r == IF "c" \in DOMAIN vals THEN SceneAlloc(s) ELSE [s EXCEPT !.ok = TRUE]
             cmd == [op |-> "clear", arg |-> vals]
  <1>1. Body(s, n) /\ Phases(s) /\ s \in LpStates /\ Scene(s)
    BY DEF Good, Scene, Body
  <1>2. /\ Good(r, n) /\ r.state = "ACTIVE" /\ SameScene(s, r) /\ r.ok \in BOOLEAN
        /\ \A t \in Tiles : Shown(r, t) = Shown(s, t)
        /\ \A q : Holds(r, q) => Holds(s, q)
    <2>1. CASE "c" \in DOMAIN vals
      <3>1. r = SceneAlloc(s)
        BY <2>1
      <3> HIDE DEF r
      <3>2. /\ Body(r, n) /\ SameScene(s, r)
            /\ \A q : Holds(r, q) => Holds(s, q)
            /\ \A t \in Tiles : Run(r, t).tile = Run(s, t).tile
        BY <1>1, <3>1, AllocBody
      <3>3. r.state = "ACTIVE" /\ r.clear = s.clear /\ r.ok \in BOOLEAN
        BY <3>2 DEF SameScene, Body, LpStates
      <3>4. Phases(r)
        BY <1>1, <3>2, <3>3 DEF Phases, SameScene
      <3>5. \A t \in Tiles : Shown(r, t) = Shown(s, t)
        BY <3>2, <3>3 DEF Shown
      <3> QED BY <3>2, <3>3, <3>4, <3>5 DEF Good, Scene, Body
    <2>2. CASE "c" \notin DOMAIN vals
      <3>1. r = [s EXCEPT !.ok = TRUE]
        BY <2>2
      <3> HIDE DEF r
      <3>2. r.ok = TRUE /\ Keeps(s, r, {}) /\ r.state = s.state /\ Good(r, n)
        BY <1>1, <3>1, OkKeeps
      <3>3. SameScene(s, r)
        BY <1>1, <3>1, OkEffect
      <3> QED BY <3>2, <3>3 DEF Keeps
    <2> QED BY <2>1, <2>2
  <1>3. u = IF r.ok THEN BinEverywhere(r, cmd) ELSE r
    BY DEF TryClear, Then
  <1>4. cmd \in ClearCommands \cup QueryCommands /\ cmd \in ClearCommands /\ cmd.arg = vals
    BY DEF ClearCommands
  <1>5. cmd \notin QueryCommands
    BY DEF QueryCommands
  <1> HIDE DEF r, cmd
  <1>6. CASE ~ r.ok
    <2>1. u = r
      BY <1>3, <1>6
    <2>2. Moves(s, u, {})
      BY <1>2, <2>1, SameSceneMoves
    <2>3. u.mem = s.mem /\ u.tex = s.tex
      BY <1>2, <2>1 DEF SameScene
    <2> QED BY <1>2, <1>6, <2>1, <2>2, <2>3
  <1>7. CASE r.ok
    <2>1. u = BinEverywhere(r, cmd)
      BY <1>3, <1>7
    <2>2. /\ Good(u, n) /\ SameScene(r, u) /\ u.ok \in BOOLEAN
          /\ \A q : Holds(u, q) => Holds(r, q) \/ (cmd \in QueryCommands /\ q = cmd.arg)
      BY <1>2, <1>4, <2>1, EverywhereGood
    <2>3. \A t \in Tiles : \/ Shown(u, t) = PaintClear(Shown(r, t), cmd.arg)
                           \/ ~ u.ok /\ Shown(u, t) = Shown(r, t)
      BY <1>2, <1>4, <2>1, EverywhereGood
    <2>4. SameScene(s, u)
      BY <1>2, <2>2, SameSceneTrans
    <2>5. Moves(s, u, {})
      BY <1>2, <1>5, <2>2, <2>4, SameSceneMoves
    <2>6. u.mem = s.mem /\ u.tex = s.tex
      BY <2>4 DEF SameScene
    <2> QED BY <1>2, <1>4, <2>2, <2>3, <2>5, <2>6
  <1> QED BY <1>6, <1>7

\* A clear that is held back.
LEMMA TryClearPending ==
  ASSUME NEW s, NEW n, Good(s, n), s.state # "ACTIVE", NEW vals \in ClearValues,
         DOMAIN vals \subseteq BuffersOf(s.fb), NEW u, u = TryClear(s, vals)
  PROVE  /\ Good(u, n) /\ Moves(s, u, {}) /\ u.ok /\ u.mem = s.mem /\ u.tex = s.tex
         /\ \A t \in Tiles : Shown(u, t) = PaintClear(Shown(s, t), vals)
  <1> DEFINE new == Merge(vals, s.clear)
             r == SetSceneState(s, "CLEARED")
  <1>1. s \in LpStates /\ Referenced(s) /\ Phases(s) /\ StatesMatch(s) /\ Numbers(s, n) /\ Body(s, n)
    BY DEF Good, Scene, Body
  <1>2. s.clear \in ClearValues /\ s.state \in {"CLEARED", "FLUSHED"}
    BY <1>1 DEF LpStates
  <1>3. u = [r EXCEPT !.clear = Merge(vals, @), !.ok = TRUE]
    BY DEF TryClear
  <1>4. u = [s EXCEPT !.state = "CLEARED", !.clear = new, !.ok = TRUE]
    <2>1. CASE s.state = "CLEARED"
      <3>1. r = [s EXCEPT !.ok = TRUE]
        BY <2>1 DEF SetSceneState
      <3>2. u = [s EXCEPT !.clear = new, !.ok = TRUE]
        BY <1>1, <1>3, <3>1 DEF LpStates
      <3> QED BY <1>1, <2>1, <3>2 DEF LpStates
    <2>2. CASE s.state # "CLEARED"
      <3>1. [s EXCEPT !.ok = TRUE].ok
        BY <1>1 DEF LpStates
      <3>2. r = [[s EXCEPT !.ok = TRUE] EXCEPT !.state = "CLEARED"]
        BY <2>2, <3>1 DEF SetSceneState
      <3>3. r.clear = s.clear
        BY <1>1, <3>2 DEF LpStates
      <3>4. u = [r EXCEPT !.clear = new, !.ok = TRUE]
        BY <1>3, <3>3
      <3> QED BY <1>1, <3>2, <3>4 DEF LpStates
    <2> QED BY <2>1, <2>2
  <1>5. new \in ClearValues /\ DOMAIN new = DOMAIN vals \cup DOMAIN s.clear
    <2>1. \A w \in ClearValues :
            Merge(vals, w) \in ClearValues /\ DOMAIN Merge(vals, w) = DOMAIN vals \cup DOMAIN w
      BY PaintClearFacts, PicturesInhabited
    <2> QED BY <1>2, <2>1
  <1> HIDE DEF new, r
  <1>6. u \in LpStates
    BY <1>1, <1>4, <1>5 DEF LpStates
  <1>7. /\ u.state = "CLEARED" /\ u.clear = new /\ u.ok = TRUE /\ u.fb = s.fb /\ u.tex = s.tex
        /\ u.ver = s.ver /\ u.queries = s.queries /\ u.mem = s.mem /\ u.fence = s.fence
        /\ u.scenes = s.scenes /\ u.done = s.done
    BY <1>1, <1>4 DEF LpStates
  <1>8. /\ u.bins = s.bins /\ u.tail = s.tail /\ u.last_state = s.last_state
        /\ u.used = s.used /\ u.refs = s.refs /\ u.disabled = s.disabled /\ u.stored = s.stored
    BY <1>1, <1>4 DEF LpStates
  <1>9. /\ Body(u, n)
        /\ \A t \in Tiles : Run(u, t).tile = Run(s, t).tile
        /\ \A q : Holds(u, q) <=> Holds(s, q)
    BY <1>1, <1>6, <1>7, <1>8, BodyKept
  <1>10. Phases(u)
    <2>1. Empty(s) /\ s.done <= s.scenes /\ DOMAIN s.clear \subseteq BuffersOf(s.fb)
      BY <1>1 DEF Phases
    <2>2. Empty(u)
      BY <1>8, <2>1 DEF Empty
    <2> QED BY <1>5, <1>7, <2>1, <2>2 DEF Phases
  <1>11. Moves(s, u, {})
    BY <1>7, <1>9 DEF Moves, FencesKept
  <1>12. ASSUME NEW t \in Tiles PROVE Shown(u, t) = PaintClear(Shown(s, t), vals)
    <2>1. Run(s, t).tile \in Pictures
      BY <1>1, AfterTyped DEF TileStates
    <2>2. PaintClear(PaintClear(Run(s, t).tile, s.clear), vals) = PaintClear(Run(s, t).tile, new)
      <3>1. \A p \in Pictures, w \in ClearValues :
              PaintClear(PaintClear(p, w), vals) = PaintClear(p, Merge(vals, w))
        BY PaintClearFacts
      <3> QED BY <1>2, <2>1, <3>1 DEF new
    <2> QED BY <1>7, <1>9, <2>2 DEF Shown
  <1> QED BY <1>7, <1>9, <1>10, <1>11, <1>12 DEF Good, Scene, Body

\* Clears keep to the buffers there are.
LEMMA ClearPlain ==
  ASSUME NEW s, Plain(s), NEW vals, DOMAIN vals \subseteq BuffersOf(s.fb), NEW u,
         u.fb = s.fb, u.mem = s.mem,
         \A t \in Tiles : Shown(u, t) = PaintClear(Shown(s, t), vals) \/ Shown(u, t) = Shown(s, t)
  PROVE  Plain(u)
  <1> SUFFICES ASSUME NEW f \in Framebuffers \ ZsBound, NEW t \in Tiles, NEW b \in ZsBuffers
               PROVE  u.mem[f][t][b] = <<>> /\ (f = u.fb => Shown(u, t)[b] = <<>>)
    BY DEF Plain
  <1>1. u.mem[f][t][b] = <<>>
    BY DEF Plain
  <1>2. ASSUME f = u.fb PROVE Shown(u, t)[b] = <<>>
    <2>1. b \notin DOMAIN vals /\ b \in Buffers
      BY <1>2 DEF BuffersOf, ZsBuffers, Buffers
    <2>2. PaintClear(Shown(s, t), vals)[b] = Shown(s, t)[b]
      BY <2>1 DEF PaintClear
    <2> QED BY <1>2, <2>2 DEF Plain
  <1> QED BY <1>1, <1>2

\* What is shown of a tile is a picture.
LEMMA ShownTyped ==
  ASSUME NEW s \in LpStates, NEW t \in Tiles PROVE Shown(s, t) \in Pictures
  <1>1. Run(s, t).tile \in Pictures /\ s.clear \in ClearValues
    BY AfterTyped DEF TileStates, LpStates
  <1> QED BY <1>1, PaintTyped DEF Shown

\* lp_setup_clear of one part: the clear is shown, the retry after a flush included.
LEMMA RetryClearEffect ==
  ASSUME NEW s, NEW n, Good(s, n), Plain(s), NEW vals \in ClearValues,
         DOMAIN vals \subseteq BuffersOf(s.fb), NEW u, u = RetryClear(s, vals)
  PROVE  /\ Good(u, n) /\ Plain(u) /\ Moves(s, u, {})
         /\ \A t \in Tiles : Shown(u, t) = PaintClear(Shown(s, t), vals)
  <1> DEFINE a == TryClear(s, vals)
             f == SetupFlush(a)
  <1>1. /\ Good(a, n) /\ Moves(s, a, {}) /\ a.ok \in BOOLEAN /\ a.mem = s.mem
        /\ \A t \in Tiles : \/ Shown(a, t) = PaintClear(Shown(s, t), vals)
                            \/ ~ a.ok /\ Shown(a, t) = Shown(s, t)
    <2>1. CASE s.state = "ACTIVE"
      BY <2>1, TryClearActive
    <2>2. CASE s.state # "ACTIVE"
      BY <2>2, TryClearPending
    <2> QED BY <2>1, <2>2
  <1>2. u = IF a.ok THEN a ELSE TryClear(f, vals)
    BY DEF RetryClear
  <1> HIDE DEF a
  <1>3. a.fb = s.fb
    BY <1>1 DEF Moves
  <1>4. Plain(a)
    BY <1>1, <1>3, ClearPlain
  <1>5. CASE a.ok
    BY <1>1, <1>2, <1>4, <1>5
  <1>6. CASE ~ a.ok
    <2>1. /\ (\A m : Good(f, m)) /\ f.state = "FLUSHED" /\ Keeps(a, f, {})
      BY <1>1, FlushEffect DEF Good
    <2>2. u = TryClear(f, vals)
      BY <1>2, <1>6
    <2> HIDE DEF f
    <2>3. Moves(a, f, {}) /\ Plain(f)
      BY <1>4, <2>1, KeepsMoves
    <2>4. f.fb = s.fb /\ \A t \in Tiles : Shown(f, t) = Shown(a, t)
      BY <1>3, <2>1 DEF Keeps
    <2>5. DOMAIN vals \subseteq BuffersOf(f.fb)
      BY <2>4
    <2>6. /\ Good(u, n) /\ Moves(f, u, {}) /\ u.mem = f.mem
          /\ \A t \in Tiles : Shown(u, t) = PaintClear(Shown(f, t), vals)
      BY <2>1, <2>2, <2>5, TryClearPending
    <2>7. Moves(s, u, {})
      <3>1. Moves(s, f, {})
        BY <1>1, <2>3, MovesTrans
      <3> QED BY <2>6, <3>1, MovesTrans
    <2>8. Plain(u)
      <3>1. u.fb = f.fb
        BY <2>6 DEF Moves
      <3> QED BY <2>3, <2>5, <2>6, <3>1, ClearPlain
    <2>9. ASSUME NEW t \in Tiles PROVE Shown(u, t) = PaintClear(Shown(s, t), vals)
      <3>1. Shown(s, t) \in Pictures
        BY ShownTyped DEF Good, Scene
      <3>2. PaintClear(PaintClear(Shown(s, t), vals), vals) = PaintClear(Shown(s, t), vals)
        BY <3>1, PaintClearFacts
      <3> QED BY <1>1, <2>4, <2>6, <3>2
    <2> QED BY <2>6, <2>7, <2>8, <2>9
  <1> QED BY <1>5, <1>6

\* A clear of bufs to the same value.
ClearTo(bufs, k) == [b \in bufs |-> k]

\* The same for a part that may be empty.
LEMMA ClearPartEffect ==
  ASSUME NEW s, NEW n, Good(s, n), Plain(s), NEW bufs \in SUBSET Buffers, NEW k \in Nat,
         bufs \subseteq BuffersOf(s.fb), NEW u, u = ClearPart(s, bufs, k)
  PROVE  /\ Good(u, n) /\ Plain(u) /\ Moves(s, u, {})
         /\ \A t \in Tiles : Shown(u, t) = PaintClear(Shown(s, t), ClearTo(bufs, k))
  <1> DEFINE vals == ClearTo(bufs, k)
  <1>1. vals \in [bufs -> Nat] /\ DOMAIN vals = bufs
    BY DEF ClearTo
  <1>2. vals \in ClearValues
    BY <1>1 DEF ClearValues
  <1>3. u = IF bufs = {} THEN s ELSE RetryClear(s, vals)
    BY DEF ClearPart, ClearTo
  <1> HIDE DEF vals
  <1>4. CASE bufs = {}
    <2>1. u = s
      BY <1>3, <1>4
    <2>2. Moves(s, s, {})
      BY DEF Moves, FencesKept
    <2>3. \A t \in Tiles : PaintClear(Shown(s, t), vals) = Shown(s, t)
      BY <1>1, <1>2, <1>4, ShownTyped, PaintClearFacts DEF Good, Scene
    <2> QED BY <2>1, <2>2, <2>3 DEF vals
  <1>5. CASE bufs # {}
    <2>1. u = RetryClear(s, vals)
      BY <1>3, <1>5
    <2>2. /\ Good(u, n) /\ Plain(u) /\ Moves(s, u, {})
          /\ \A t \in Tiles : Shown(u, t) = PaintClear(Shown(s, t), vals)
      BY <1>1, <1>2, <2>1, RetryClearEffect
    <2> QED BY <2>2 DEF vals
  <1> QED BY <1>4, <1>5

\* lp_setup_clear shows the buffers cleared and all else as it was.
LEMMA ClearEffect ==
  ASSUME NEW s, NEW n, Good(s, n), Plain(s), NEW bufs \in SUBSET Buffers, NEW k \in Nat,
         bufs \subseteq BuffersOf(s.fb), NEW u, u = SetupClear(s, bufs, k)
  PROVE  /\ Good(u, n) /\ Plain(u) /\ Moves(s, u, {})
         /\ \A t \in Tiles : Shown(u, t) = PaintClear(Shown(s, t), ClearTo(bufs, k))
  <1> DEFINE zs == bufs \cap ZsBuffers
             col == bufs \cap {"c"}
             a == ClearPart(s, zs, k)
  <1>1. /\ zs \in SUBSET Buffers /\ col \in SUBSET Buffers
        /\ zs \subseteq BuffersOf(s.fb) /\ col \subseteq BuffersOf(s.fb)
    OBVIOUS
  <1>2. u = ClearPart(a, col, k)
    BY DEF SetupClear
  <1>3. ASSUME NEW p
        PROVE  PaintClear(PaintClear(p, ClearTo(zs, k)), ClearTo(col, k))
                 = PaintClear(p, ClearTo(bufs, k))
    BY DEF ClearTo, PaintClear, Buffers, ZsBuffers
  <1> HIDE DEF zs, col
  <1>4. /\ Good(a, n) /\ Plain(a) /\ Moves(s, a, {})
        /\ \A t \in Tiles : Shown(a, t) = PaintClear(Shown(s, t), ClearTo(zs, k))
    BY <1>1, ClearPartEffect
  <1> HIDE DEF a
  <1>5. col \subseteq BuffersOf(a.fb)
    BY <1>1, <1>4 DEF Moves
  <1>6. /\ Good(u, n) /\ Plain(u) /\ Moves(a, u, {})
        /\ \A t \in Tiles : Shown(u, t) = PaintClear(Shown(a, t), ClearTo(col, k))
    BY <1>1, <1>2, <1>4, <1>5, ClearPartEffect
  <1>7. Moves(s, u, {})
    BY <1>4, <1>6, MovesTrans
  <1> QED BY <1>3, <1>4, <1>6, <1>7

-----------------------------------------------------------------------------
(***************************************************************************)
(* lp_setup_begin_query and lp_setup_end_query                              *)
(***************************************************************************)

\* The command of a query gets into the bins, of a new scene if need be, and nothing
\* that is shown changes.
LEMMA BinOrRestartEffect ==
  ASSUME NEW s, NEW n, Good(s, n), s.state = "ACTIVE", NEW cmd \in QueryCommands,
         NEW u, u = BinOrRestart(s, cmd)
  PROVE  /\ u.ok /\ Good(u, n) /\ u.state = "ACTIVE" /\ Keeps(s, u, {cmd.arg})
  <1> DEFINE a == BinEverywhere(s, cmd)
             r == FlushAndRestart(a)
             c == BinEverywhere(r, cmd)
  <1>0. cmd \in ClearCommands \cup QueryCommands
    OBVIOUS
  <1>1. /\ Good(a, n) /\ a.state = "ACTIVE" /\ SameScene(s, a) /\ a.ok \in BOOLEAN
        /\ \A q : Holds(a, q) => Holds(s, q) \/ (cmd \in QueryCommands /\ q = cmd.arg)
        /\ \A t \in Tiles : Shown(a, t) = Shown(s, t)
    BY <1>0, EverywhereGood
  <1>2. Keeps(s, a, {cmd.arg})
    BY <1>1 DEF Keeps, SameScene, FencesKept
  <1>3. u = IF a.ok THEN a ELSE Then(r, LAMBDA x : BinEverywhere(x, cmd))
    BY DEF BinOrRestart
  <1> HIDE DEF a
  <1>4. CASE a.ok
    BY <1>1, <1>2, <1>3, <1>4
  <1>5. CASE ~ a.ok
    <2>1. /\ r.ok /\ Good(r, n) /\ r.state = "ACTIVE" /\ Keeps(a, r, {}) /\ Fresh(r)
      BY <1>1, RestartEffect DEF Good
    <2>2. u = c
      BY <1>3, <1>5, <2>1 DEF Then
    <2> HIDE DEF r
    <2>3. r.used + NumTiles <= Room
      <3>1. r.used \in Nat /\ r.used <= 1
        BY <2>1, Constants DEF Fresh, Good, Scene, LpStates
      <3> QED BY <3>1, Constants
    <2>4. /\ c.ok /\ Good(c, n) /\ c.state = "ACTIVE" /\ SameScene(r, c)
          /\ \A q : Holds(c, q) => Holds(r, q) \/ (cmd \in QueryCommands /\ q = cmd.arg)
          /\ \A t \in Tiles : Shown(c, t) = Shown(r, t)
      BY <1>0, <2>1, <2>3, EverywhereGood
    <2> HIDE DEF c
    <2>5. Keeps(r, c, {cmd.arg})
      BY <2>4 DEF Keeps, SameScene, FencesKept
    <2>6. Keeps(a, r, {cmd.arg})
      BY <2>1, KeepsMore
    <2>7. Keeps(s, r, {cmd.arg})
      BY <1>2, <2>6, KeepsTrans
    <2>8. Keeps(s, c, {cmd.arg})
      BY <2>5, <2>7, KeepsTrans
    <2> QED BY <2>2, <2>4, <2>8
  <1> QED BY <1>4, <1>5

\* lp_setup_begin_query changes nothing that is shown.
LEMMA BeginQueryEffect ==
  ASSUME NEW s, NEW n, Good(s, n), NEW q \in Queries, NEW u, u = SetupBeginQuery(s, q)
  PROVE  Good(u, n) /\ Keeps(s, u, {q})
  <1> DEFINE a == SetSceneState(s, "ACTIVE")
             act == a.active \cup {q}
             e == [a EXCEPT !.active = act]
             cmd == [op |-> "begin", arg |-> q]
             b == BinOrRestart(e, cmd)
  <1>0. Scene(s) /\ s.state \in {"FLUSHED", "CLEARED", "ACTIVE"}
    BY DEF Good, Scene, LpStates
  <1>1. /\ Scene(a) /\ a.state = "ACTIVE" /\ Keeps(s, a, {}) /\ Good(a, n)
    BY <1>0, ActiveEffect
  <1>2. cmd \in QueryCommands /\ cmd.arg = q
    BY DEF QueryCommands
  <1>3. u = Then(b, LAMBDA r : [r EXCEPT !.had_queries = TRUE])
    BY DEF SetupBeginQuery
  <1> HIDE DEF a, cmd
  <1>4. a \in LpStates /\ act \in SUBSET Queries
    BY <1>1 DEF Scene, LpStates
  <1> HIDE DEF act
  <1>5. e \in LpStates
    BY <1>4 DEF LpStates
  <1>6. /\ e.state = a.state /\ e.fb = a.fb /\ e.stored = a.stored /\ e.clear = a.clear
        /\ e.bins = a.bins /\ e.tail = a.tail /\ e.last_state = a.last_state
        /\ e.used = a.used /\ e.refs = a.refs /\ e.fence = a.fence
    BY <1>4 DEF LpStates
  <1>7. /\ e.disabled = a.disabled /\ e.scenes = a.scenes /\ e.done = a.done
        /\ e.ver = a.ver /\ e.mem = a.mem /\ e.tex = a.tex /\ e.queries = a.queries
    BY <1>4 DEF LpStates
  <1> HIDE DEF e
  <1>8. Good(e, n) /\ \A X : Keeps(a, e, X)
    <2>1. FencesKept(a, e)
      BY <1>7 DEF FencesKept
    <2> QED BY <1>1, <1>5, <1>6, <1>7, <2>1, EditEffect
  <1>9. b.ok /\ Good(b, n) /\ Keeps(e, b, {q})
    BY <1>1, <1>2, <1>6, <1>8, BinOrRestartEffect
  <1>10. u = [b EXCEPT !.had_queries = TRUE]
    BY <1>3, <1>9 DEF Then
  <1> HIDE DEF b
  <1>11. b \in LpStates /\ Scene(b)
    BY <1>9 DEF Good, Scene
  <1>12. u \in LpStates
    BY <1>10, <1>11 DEF LpStates
  <1>13. /\ u.state = b.state /\ u.fb = b.fb /\ u.stored = b.stored /\ u.clear = b.clear
         /\ u.bins = b.bins /\ u.tail = b.tail /\ u.last_state = b.last_state
         /\ u.used = b.used /\ u.refs = b.refs /\ u.fence = b.fence
    BY <1>10, <1>11 DEF LpStates
  <1>14. /\ u.disabled = b.disabled /\ u.scenes = b.scenes /\ u.done = b.done
         /\ u.ver = b.ver /\ u.mem = b.mem /\ u.tex = b.tex /\ u.queries = b.queries
    BY <1>10, <1>11 DEF LpStates
  <1>15. Good(u, n) /\ Keeps(b, u, {q})
    <2>1. FencesKept(b, u)
      BY <1>14 DEF FencesKept
    <2> QED BY <1>9, <1>11, <1>12, <1>13, <1>14, <2>1, EditEffect
  <1>16. Keeps(s, a, {q}) /\ Keeps(a, e, {q})
    BY <1>1, <1>8, KeepsMore
  <1>17. Keeps(s, e, {q})
    BY <1>16, KeepsTrans
  <1>18. Keeps(s, b, {q})
    BY <1>9, <1>17, KeepsTrans
  <1> QED BY <1>15, <1>18, KeepsTrans

\* Only the fence of q is a new one.
LEMMA EndQueryEffect ==
  ASSUME NEW s, NEW n, Good(s, n), NEW q \in Queries, NEW u, u = SetupEndQuery(s, q)
  PROVE  /\ Good(u, n) /\ (Plain(s) => Plain(u)) /\ u.fb = s.fb /\ u.ver = s.ver
         /\ \A f \in Framebuffers \ {s.fb}, t \in Tiles : u.mem[f][t] = s.mem[f][t]
         /\ \A t \in Tiles : Shown(u, t) = Shown(s, t)
         /\ \A p \in Queries \ {q} : u.queries[p].fence = s.queries[p].fence
         /\ \A p : Holds(u, p) => p = q \/ (Holds(s, p) /\ u.fence = s.fence)
  <1> DEFINE a == SetSceneState(s, "ACTIVE")
             qs == [a.queries EXCEPT ![q] = [a.queries[q] EXCEPT !.fence = a.fence]]
             e == [a EXCEPT !.queries = qs]
             cmd == [op |-> "end", arg |-> q]
             b == BinOrRestart(e, cmd)
             c == [b EXCEPT !.had_queries = TRUE]
             act == c.active \ {q}
  <1>0. Scene(s) /\ s.state \in {"FLUSHED", "CLEARED", "ACTIVE"}
    BY DEF Good, Scene, LpStates
  <1>1. /\ Scene(a) /\ a.state = "ACTIVE" /\ Keeps(s, a, {}) /\ Good(a, n)
    BY <1>0, ActiveEffect
  <1>2. cmd \in QueryCommands /\ cmd.arg = q
    BY DEF QueryCommands
  <1>3. b.ok => u = [c EXCEPT !.active = act]
    BY DEF SetupEndQuery, Then
  <1> HIDE DEF a, cmd
  <1>4. a \in LpStates /\ a.queries \in [Queries -> QueryTypes] /\ a.fence \in Nat
    BY <1>1 DEF Scene, LpStates
  <1>5. qs \in [Queries -> QueryTypes] /\ \A p \in Queries \ {q} : qs[p] = a.queries[p]
    BY <1>4 DEF QueryTypes
  <1> HIDE DEF qs
  <1>6. e \in LpStates
    BY <1>4, <1>5 DEF LpStates
  <1>7. /\ e.state = a.state /\ e.fb = a.fb /\ e.stored = a.stored /\ e.clear = a.clear
        /\ e.bins = a.bins /\ e.tail = a.tail /\ e.last_state = a.last_state
        /\ e.used = a.used /\ e.refs = a.refs /\ e.fence = a.fence
    BY <1>4 DEF LpStates
  <1>8. /\ e.disabled = a.disabled /\ e.scenes = a.scenes /\ e.done = a.done
        /\ e.ver = a.ver /\ e.mem = a.mem /\ e.tex = a.tex /\ e.queries = qs
    BY <1>4 DEF LpStates
  <1> HIDE DEF e
  <1>9. /\ Good(e, n)
        /\ \A t \in Tiles : Shown(e, t) = Shown(a, t)
        /\ \A p : Holds(e, p) <=> Holds(a, p)
    BY <1>1, <1>6, <1>7, <1>8, EditEffect
  <1>10. b.ok /\ Good(b, n) /\ Keeps(e, b, {q})
    BY <1>1, <1>2, <1>7, <1>9, BinOrRestartEffect
  <1>11. u = [c EXCEPT !.active = act]
    BY <1>3, <1>10
  <1> HIDE DEF b
  <1>12. b \in LpStates /\ Scene(b)
    BY <1>10 DEF Good, Scene
  <1>13. act \in SUBSET Queries
    BY <1>12 DEF LpStates
  <1> HIDE DEF act
  <1>14. u = [b EXCEPT !.had_queries = TRUE, !.active = act]
    BY <1>11, <1>12 DEF LpStates
  <1>15. u \in LpStates
    BY <1>12, <1>13, <1>14 DEF LpStates
  <1>16. /\ u.state = b.state /\ u.fb = b.fb /\ u.stored = b.stored /\ u.clear = b.clear
         /\ u.bins = b.bins /\ u.tail = b.tail /\ u.last_state = b.last_state
         /\ u.used = b.used /\ u.refs = b.refs /\ u.fence = b.fence
    BY <1>12, <1>14 DEF LpStates
  <1>17. /\ u.disabled = b.disabled /\ u.scenes = b.scenes /\ u.done = b.done
         /\ u.ver = b.ver /\ u.mem = b.mem /\ u.tex = b.tex /\ u.queries = b.queries
    BY <1>12, <1>14 DEF LpStates
  <1>18. Good(u, n) /\ Keeps(b, u, {q})
    <2>1. FencesKept(b, u)
      BY <1>17 DEF FencesKept
    <2> QED BY <1>10, <1>12, <1>15, <1>16, <1>17, <2>1, EditEffect
  <1>19. Keeps(e, u, {q})
    BY <1>10, <1>18, KeepsTrans
  <1>20. Plain(s) => Plain(u)
    <2>1. Plain(s) => Plain(a)
      BY <1>1, KeepsMoves
    <2>2. Plain(a) => Plain(e)
      BY <1>7, <1>8, <1>9 DEF Plain
    <2>3. Plain(e) => Plain(u)
      BY <1>19, KeepsMoves
    <2> QED BY <2>1, <2>2, <2>3
  <1>21. u.fb = s.fb /\ u.ver = s.ver
    BY <1>1, <1>7, <1>8, <1>19 DEF Keeps
  <1>22. \A f \in Framebuffers \ {s.fb}, t \in Tiles : u.mem[f][t] = s.mem[f][t]
    BY <1>1, <1>7, <1>8, <1>19 DEF Keeps
  <1>23. \A t \in Tiles : Shown(u, t) = Shown(s, t)
    BY <1>1, <1>9, <1>19 DEF Keeps
  <1>24. \A p \in Queries \ {q} : u.queries[p].fence = s.queries[p].fence
    BY <1>1, <1>5, <1>8, <1>19 DEF Keeps, FencesKept
  <1>25. \A p : Holds(u, p) => p = q \/ (Holds(s, p) /\ u.fence = s.fence)
    BY <1>1, <1>7, <1>9, <1>19 DEF Keeps
  <1> QED BY <1>18, <1>20, <1>21, <1>22, <1>23, <1>24, <1>25

-----------------------------------------------------------------------------
(***************************************************************************)
(* A triangle in its bins (lp_setup_tri.c)                                  *)
(***************************************************************************)

\* The bin of tile t has nothing of call n.
NoDraw(s, t, n) ==
  \A i \in 1 .. Len(s.bins[t]) : s.bins[t][i] \in DrawCommands => s.bins[t][i].arg.n # n

DrawOf(d, n) == [op |-> "draw", arg |-> [draw |-> d, n |-> n]]
StateOf(s) == [op |-> "state", arg |-> s.stored.tex]

\* The command of a triangle is a draw command.
LEMMA DrawTyped ==
  ASSUME NEW d \in Triangles, NEW n \in Nat
  PROVE  /\ DrawOf(d, n) \in DrawCommands /\ DrawOf(d, n) \in CommandTypes
         /\ DrawOf(d, n).arg.n = n /\ DrawOf(d, n).arg.draw = d
         /\ DrawOf(d, n) \notin StateCommands /\ DrawOf(d, n) \notin QueryCommands
  <1>1. DrawOf(d, n) \in DrawCommands
    BY DEF DrawOf, DrawCommands
  <1>2. DrawOf(d, n).op = "draw" /\ DrawOf(d, n).arg.n = n /\ DrawOf(d, n).arg.draw = d
    BY DEF DrawOf
  <1>3. DrawOf(d, n) \in CommandTypes
    BY <1>1 DEF CommandTypes
  <1> QED BY <1>1, <1>2, <1>3, CommandKinds

\* The command for a new state is a state command.
LEMMA StateTyped ==
  ASSUME NEW s \in LpStates
  PROVE  /\ StateOf(s) \in StateCommands /\ StateOf(s) \in CommandTypes
         /\ StateOf(s).arg = s.stored.tex
         /\ StateOf(s) \notin DrawCommands /\ StateOf(s) \notin QueryCommands
  <1>1. StateOf(s) \in StateCommands /\ StateOf(s).op = "state" /\ StateOf(s).arg = s.stored.tex
    BY DEF StateOf, StateCommands, LpStates, RastStates
  <1>2. StateOf(s) \in CommandTypes
    BY <1>1 DEF CommandTypes
  <1> QED BY <1>1, <1>2, CommandKinds

\* A triangle is disabled.
LEMMA DisableEffect ==
  ASSUME NEW s \in LpStates, NEW n \in Nat, NEW u, u = Disable(s, n)
  PROVE  /\ u \in LpStates /\ u.disabled = s.disabled \cup {n}
         /\ u.state = s.state /\ u.fb = s.fb /\ u.tex = s.tex /\ u.stored = s.stored
         /\ u.clear = s.clear /\ u.active = s.active /\ u.ok = s.ok /\ u.bins = s.bins
         /\ u.tail = s.tail /\ u.last_state = s.last_state /\ u.used = s.used
         /\ u.refs = s.refs /\ u.fence = s.fence /\ u.had_queries = s.had_queries
         /\ u.scenes = s.scenes /\ u.done = s.done /\ u.queries = s.queries
         /\ u.ver = s.ver /\ u.mem = s.mem
  <1> DEFINE new == s.disabled \cup {n}
  <1>1. u = [s EXCEPT !.disabled = new]
    BY DEF Disable
  <1>2. new \in SUBSET Nat
    BY DEF LpStates
  <1> HIDE DEF new
  <1>3. u \in LpStates /\ u.disabled = new
    BY <1>1, <1>2 DEF LpStates
  <1>4. /\ u.state = s.state /\ u.fb = s.fb /\ u.tex = s.tex /\ u.stored = s.stored
        /\ u.clear = s.clear /\ u.active = s.active /\ u.ok = s.ok /\ u.bins = s.bins
        /\ u.tail = s.tail /\ u.last_state = s.last_state /\ u.used = s.used
    BY <1>1 DEF LpStates
  <1>5. /\ u.refs = s.refs /\ u.fence = s.fence /\ u.had_queries = s.had_queries
        /\ u.scenes = s.scenes /\ u.done = s.done /\ u.queries = s.queries
        /\ u.ver = s.ver /\ u.mem = s.mem
    BY <1>1 DEF LpStates
  <1> QED BY <1>3, <1>4, <1>5 DEF new

\* Disabling a triangle changes nothing in the bins that do not have it.
LEMMA DisabledAlike ==
  ASSUME NEW s \in LpStates, Referenced(s), NEW n \in Nat, NEW u, u = Disable(s, n)
  PROVE  /\ u \in LpStates /\ Referenced(u)
         /\ \A t \in Tiles : NoDraw(s, t, n) =>
              Run(u, t).tile = Run(s, t).tile /\ Run(u, t).tex = Run(s, t).tex
  <1>1. /\ u \in LpStates /\ u.disabled = s.disabled \cup {n}
        /\ u.fb = s.fb /\ u.stored = s.stored /\ u.bins = s.bins
        /\ u.refs = s.refs /\ u.ver = s.ver /\ u.mem = s.mem
    BY DisableEffect
  <1>2. Referenced(u)
    BY <1>1 DEF Referenced
  <1>3. ASSUME NEW t \in Tiles, NoDraw(s, t, n)
        PROVE  Run(u, t).tile = Run(s, t).tile /\ Run(u, t).tex = Run(s, t).tex
    <2>1. Len(s.bins[t]) \in Nat
      BY BinTyped
    <2>2. \A i \in 1 .. Len(s.bins[t]) :
            s.bins[t][i] \in StateCommands => s.bins[t][i].arg \in s.refs \cup {NoTexture}
      BY DEF Referenced
    <2>3. \A i \in 1 .. Len(s.bins[t]) : s.bins[t][i] \in DrawCommands =>
            (s.bins[t][i].arg.n \in s.disabled <=> s.bins[t][i].arg.n \in u.disabled)
      BY <1>1, <1>3 DEF NoDraw
    <2>4. Alike(s, u, t, Len(s.bins[t]))
      BY <1>1, <2>1, <2>2, <2>3 DEF Alike
    <2> QED BY <1>1, <2>1, <2>4, AfterAlike DEF Run
  <1> QED BY <1>1, <1>2, <1>3

\* What one more command paints.
LEMMA StateAppended ==
  ASSUME NEW s \in LpStates, NEW u \in LpStates, Referenced(s), SameScene(s, u),
         NEW t \in Tiles, u.bins[t] = Append(s.bins[t], StateOf(s))
  PROVE  Run(u, t).tile = Run(s, t).tile /\ Run(u, t).tex = s.stored.tex
  <1>1. StateOf(s) \in CommandTypes /\ StateOf(s) \in StateCommands /\ StateOf(s).arg = s.stored.tex
    BY StateTyped
  <1>2. PICK x \in TileStates : /\ x.tile = Run(s, t).tile /\ x.tex = Run(s, t).tex
                                /\ Run(u, t) = Execute(u, t, x, StateOf(s))
    BY <1>1, SameSceneAppend
  <1> QED BY <1>1, <1>2, ExecuteParts

\* A triangle at the end of a bin is painted with the state that came before it, unless
\* it is disabled.
LEMMA DrawAppended ==
  ASSUME NEW s \in LpStates, NEW u \in LpStates, Referenced(s), SameScene(s, u),
         NEW t \in Tiles, NEW d \in Triangles, NEW n \in Nat,
         u.bins[t] = Append(s.bins[t], DrawOf(d, n))
  PROVE  /\ Run(u, t).tex = Run(s, t).tex
         /\ n \in s.disabled => Run(u, t).tile = Run(s, t).tile
         /\ n \notin s.disabled =>
              Run(u, t).tile =
                PaintDraw(Run(s, t).tile, BuffersOf(s.fb), d.cover[t] = "whole", d.opaque,
                          Paint(n, Run(s, t).tex, s.ver[Run(s, t).tex]))
  <1> DEFINE cmd == DrawOf(d, n)
  <1>1. cmd \in CommandTypes /\ cmd \in DrawCommands /\ cmd.arg.n = n /\ cmd.arg.draw = d
    BY DrawTyped
  <1> HIDE DEF cmd
  <1>2. PICK x \in TileStates : /\ x.tile = Run(s, t).tile /\ x.tex = Run(s, t).tex
                                /\ Run(u, t) = Execute(u, t, x, cmd)
    BY <1>1, SameSceneAppend DEF cmd
  <1>3. u.fb = s.fb /\ u.ver = s.ver /\ u.disabled = s.disabled
    BY DEF SameScene
  <1>4. /\ Execute(u, t, x, cmd).tile =
             IF cmd.arg.n \in u.disabled THEN x.tile
             ELSE PaintDraw(x.tile, BuffersOf(u.fb), cmd.arg.draw.cover[t] = "whole",
                            cmd.arg.draw.opaque, Paint(cmd.arg.n, x.tex, u.ver[x.tex]))
        /\ Execute(u, t, x, cmd).tex = x.tex
    BY <1>1, ExecuteParts
  <1> QED BY <1>1, <1>2, <1>3, <1>4

\* Only the bin of tile t has changed, and it has nothing new of a query or of a call
\* after the n-th.
OneBin(v, w, t, n) ==
  /\ w \in LpStates /\ SameScene(v, w) /\ Referenced(w)
  /\ \A k \in Tiles \ {t} : /\ w.bins[k] = v.bins[k] /\ w.tail[k] = v.tail[k]
                            /\ w.last_state[k] = v.last_state[k]
  /\ \A q : Holds(w, q) => Holds(v, q)
  /\ Numbers(v, n) => Numbers(w, n)

\* Two steps in the same bin leave the others alone.
LEMMA OneBinTrans ==
  ASSUME NEW s, NEW v, NEW w, NEW t, NEW n, OneBin(s, v, t, n), OneBin(v, w, t, n)
  PROVE  OneBin(s, w, t, n)
  <1>1. SameScene(s, w)
    BY SameSceneTrans DEF OneBin
  <1> QED BY <1>1 DEF OneBin

\* A command more in one bin keeps what has to hold of the scene.
LEMMA OneBinMore ==
  ASSUME NEW v \in LpStates, Referenced(v), NEW w \in LpStates, SameScene(v, w),
         NEW t \in Tiles, NEW n \in Nat, NEW cmd \in CommandTypes,
         cmd \in StateCommands => cmd.arg \in v.refs \cup {NoTexture},
         cmd \in DrawCommands => cmd.arg.n <= n, cmd \notin QueryCommands,
         w.bins[t] = v.bins[t] \/ w.bins[t] = Append(v.bins[t], cmd),
         \A k \in Tiles \ {t} : /\ w.bins[k] = v.bins[k] /\ w.tail[k] = v.tail[k]
                                /\ w.last_state[k] = v.last_state[k]
  PROVE  OneBin(v, w, t, n)
  <1>1. ASSUME NEW k \in Tiles, NEW i \in 1 .. Len(w.bins[k])
        PROVE  w.bins[k][i] = cmd \/ (i \in 1 .. Len(v.bins[k]) /\ w.bins[k][i] = v.bins[k][i])
    <2>0. \A j \in 1 .. Len(w.bins[t]) :
            w.bins[t][j] = cmd \/ (j \in 1 .. Len(v.bins[t]) /\ w.bins[t][j] = v.bins[t][j])
      BY OneMore
    <2>1. CASE k = t
      BY <1>1, <2>0, <2>1
    <2>2. CASE k # t
      BY <2>2
    <2> QED BY <2>1, <2>2
  <1>2. w.refs = v.refs /\ w.stored = v.stored /\ w.disabled = v.disabled
    BY DEF SameScene
  <1>3. Referenced(w)
    BY <1>1, <1>2 DEF Referenced
  <1>4. ASSUME NEW q, Holds(w, q) PROVE Holds(v, q)
    <2>1. PICK k \in Tiles : \E i \in 1 .. Len(w.bins[k]) :
            w.bins[k][i] \in QueryCommands /\ w.bins[k][i].arg = q
      BY <1>4 DEF Holds
    <2>2. PICK i \in 1 .. Len(w.bins[k]) :
            w.bins[k][i] \in QueryCommands /\ w.bins[k][i].arg = q
      BY <2>1
    <2> QED BY <1>1, <2>2 DEF Holds
  <1>5. Numbers(v, n) => Numbers(w, n)
    BY <1>1, <1>2 DEF Numbers
  <1> QED BY <1>3, <1>4, <1>5 DEF OneBin

\* A state that is new to the bin of tile t.
Known(s, t) == [s EXCEPT !.last_state = [s.last_state EXCEPT ![t] = s.stored]]

\* Remembering the state of a bin changes nothing else.
LEMMA KnownEffect ==
  ASSUME NEW s \in LpStates, NEW t \in Tiles, NEW u, u = Known(s, t)
  PROVE  /\ u \in LpStates /\ SameScene(s, u) /\ u.bins = s.bins /\ u.tail = s.tail
         /\ u.used = s.used /\ u.last_state[t] = s.stored
         /\ \A k \in Tiles \ {t} : u.last_state[k] = s.last_state[k]
  <1> DEFINE new == [s.last_state EXCEPT ![t] = s.stored]
  <1>1. s.last_state \in [Tiles -> RastStates] /\ s.stored \in RastStates
    BY DEF LpStates
  <1>2. /\ new \in [Tiles -> RastStates] /\ new[t] = s.stored
        /\ \A k \in Tiles \ {t} : new[k] = s.last_state[k]
    BY <1>1
  <1>3. u = [s EXCEPT !.last_state = new]
    BY DEF Known
  <1> HIDE DEF new
  <1>4. u \in LpStates /\ u.last_state = new
    BY <1>2, <1>3 DEF LpStates
  <1>5. /\ u.state = s.state /\ u.fb = s.fb /\ u.tex = s.tex /\ u.stored = s.stored
        /\ u.clear = s.clear /\ u.active = s.active /\ u.bins = s.bins
        /\ u.tail = s.tail /\ u.used = s.used
    BY <1>3 DEF LpStates
  <1>6. /\ u.refs = s.refs /\ u.fence = s.fence /\ u.had_queries = s.had_queries
        /\ u.scenes = s.scenes /\ u.done = s.done /\ u.queries = s.queries
        /\ u.ver = s.ver /\ u.mem = s.mem /\ u.disabled = s.disabled
    BY <1>3 DEF LpStates
  <1> QED BY <1>2, <1>4, <1>5, <1>6 DEF SameScene

\* The first part of lp_scene_bin_cmd_with_state.
StateIn(v, t) ==
  IF v.last_state[t] = v.stored THEN [v EXCEPT !.ok = TRUE]
  ELSE BinCommand(Known(v, t), t, StateOf(v))

\* The change of state goes into the bin where it has to, and paints nothing.
LEMMA StateEffect ==
  ASSUME NEW v \in LpStates, Referenced(v), NEW t \in Tiles, NEW n \in Nat, NoDraw(v, t, n),
         v.stored # Null, v.last_state[t] # Null => Run(v, t).tex = v.last_state[t].tex,
         NEW a, a = StateIn(v, t)
  PROVE  /\ OneBin(v, a, t, n) /\ NoDraw(a, t, n) /\ Run(a, t).tile = Run(v, t).tile
         /\ a.ok => Run(a, t).tex = v.stored.tex /\ a.last_state[t] = v.stored
         /\ v.tail[t] = CmdBlockMax /\ v.used < Room =>
              /\ a.ok /\ a.used <= v.used + 1
              /\ a.tail[t] = CmdBlockMax => a.used = v.used
  <1>1. /\ StateOf(v) \in StateCommands /\ StateOf(v) \in CommandTypes
        /\ StateOf(v).arg = v.stored.tex
        /\ StateOf(v) \notin DrawCommands /\ StateOf(v) \notin QueryCommands
    BY StateTyped
  <1>2. v.stored.tex \in v.refs \cup {NoTexture}
    BY DEF Referenced
  <1>3. v.used \in Nat /\ v.tail[t] \in Nat
    BY Constants DEF LpStates
  <1>4. CASE v.last_state[t] = v.stored
    <2>1. a = [v EXCEPT !.ok = TRUE]
      BY <1>4 DEF StateIn
    <2>2. /\ a \in LpStates /\ SameScene(v, a) /\ a.ok = TRUE /\ a.bins = v.bins
          /\ a.tail = v.tail /\ a.last_state = v.last_state /\ a.used = v.used
      BY <2>1, OkEffect
    <2>3. OneBin(v, a, t, n)
      BY <1>1, <1>2, <2>2, OneBinMore
    <2>4. Run(a, t).tile = Run(v, t).tile /\ Run(a, t).tex = Run(v, t).tex
      BY <2>2, SameSceneAlike
    <2>5. NoDraw(a, t, n)
      BY <2>2 DEF NoDraw
    <2>6. a.used <= v.used + 1
      BY <1>3, <2>2
    <2> QED BY <1>4, <2>2, <2>3, <2>4, <2>5, <2>6
  <1>5. CASE v.last_state[t] # v.stored
    <2> DEFINE b == Known(v, t)
    <2>1. /\ b \in LpStates /\ SameScene(v, b) /\ b.bins = v.bins /\ b.tail = v.tail
          /\ b.used = v.used /\ b.last_state[t] = v.stored
          /\ \A k \in Tiles \ {t} : b.last_state[k] = v.last_state[k]
      BY KnownEffect
    <2>2. a = BinCommand(b, t, StateOf(v))
      BY <1>5 DEF StateIn
    <2> HIDE DEF b
    <2>9. StateOf(v) \in CommandTypes /\ b \in LpStates
      BY <1>1, <2>1
    <2>3. /\ a \in LpStates /\ SameScene(b, a) /\ a.last_state = b.last_state
          /\ \A k \in Tiles \ {t} : a.bins[k] = b.bins[k] /\ a.tail[k] = b.tail[k]
          /\ a.ok => /\ a.bins[t] = Append(b.bins[t], StateOf(v))
                     /\ a.tail[t] = IF b.tail[t] < CmdBlockMax THEN b.tail[t] + 1 ELSE 1
                     /\ a.used = IF b.tail[t] < CmdBlockMax THEN b.used ELSE b.used + 1
          /\ ~ a.ok => /\ a.bins[t] = b.bins[t] /\ a.tail[t] = b.tail[t] /\ a.used = b.used
                       /\ b.tail[t] = CmdBlockMax /\ b.used = Room
      BY <2>2, <2>9, BinCommandEffect
    <2>4. SameScene(v, a)
      BY <2>1, <2>3, SameSceneTrans
    <2>5. OneBin(v, a, t, n)
      BY <1>1, <1>2, <2>1, <2>3, <2>4, OneBinMore
    <2>6. Run(a, t).tile = Run(v, t).tile /\ (a.ok => Run(a, t).tex = v.stored.tex)
      <3>1. CASE a.ok
        BY <3>1, <2>1, <2>3, <2>4, StateAppended
      <3>2. CASE ~ a.ok
        BY <3>2, <2>1, <2>3, <2>4, SameSceneAlike
      <3> QED BY <3>1, <3>2
    <2>7. NoDraw(a, t, n)
      <3>1. a.bins[t] = v.bins[t] \/ a.bins[t] = Append(v.bins[t], StateOf(v))
        BY <2>1, <2>3
      <3>2. \A i \in 1 .. Len(a.bins[t]) :
              a.bins[t][i] = StateOf(v) \/ (i \in 1 .. Len(v.bins[t]) /\ a.bins[t][i] = v.bins[t][i])
        BY <1>1, <2>3, <3>1, OneMore
      <3> QED BY <1>1, <3>2 DEF NoDraw
    <2>8. v.tail[t] = CmdBlockMax /\ v.used < Room =>
            /\ a.ok /\ a.used <= v.used + 1
            /\ a.tail[t] = CmdBlockMax => a.used = v.used
      BY <1>3, <2>1, <2>3, Constants
    <2> QED BY <2>1, <2>3, <2>5, <2>6, <2>7, <2>8
  <1> QED BY <1>4, <1>5

\* The same binning in a scene whose n-th call is disabled.
LEMMA DisabledSame ==
  ASSUME NEW v \in LpStates, NEW w \in LpStates, SameScene(v, w), NEW n \in Nat
  PROVE  /\ Disable(v, n) \in LpStates /\ Disable(w, n) \in LpStates
         /\ SameScene(Disable(v, n), Disable(w, n))
         /\ Disable(v, n).bins = v.bins /\ Disable(w, n).bins = w.bins
         /\ n \in Disable(v, n).disabled
  <1> DEFINE a == Disable(v, n)
             b == Disable(w, n)
  <1>1. /\ a \in LpStates /\ a.disabled = v.disabled \cup {n}
        /\ a.state = v.state /\ a.fb = v.fb /\ a.tex = v.tex /\ a.stored = v.stored
        /\ a.clear = v.clear /\ a.active = v.active /\ a.bins = v.bins
        /\ a.refs = v.refs /\ a.fence = v.fence /\ a.had_queries = v.had_queries
        /\ a.scenes = v.scenes /\ a.done = v.done /\ a.queries = v.queries
        /\ a.ver = v.ver /\ a.mem = v.mem
    BY DisableEffect
  <1>2. /\ b \in LpStates /\ b.disabled = w.disabled \cup {n}
        /\ b.state = w.state /\ b.fb = w.fb /\ b.tex = w.tex /\ b.stored = w.stored
        /\ b.clear = w.clear /\ b.active = w.active /\ b.bins = w.bins
        /\ b.refs = w.refs /\ b.fence = w.fence /\ b.had_queries = w.had_queries
        /\ b.scenes = w.scenes /\ b.done = w.done /\ b.queries = w.queries
        /\ b.ver = w.ver /\ b.mem = w.mem
    BY DisableEffect
  <1> HIDE DEF a, b
  <1>3. SameScene(a, b)
    BY <1>1, <1>2 DEF SameScene
  <1> QED BY <1>1, <1>2, <1>3 DEF a, b

\* What is left of a scene when the n-th call is disabled in it.
Without(s, t, n) == Run(Disable(s, n), t).tile

\* With the n-th call disabled a bin paints as if that call were not in it.
LEMMA WithoutFacts ==
  ASSUME NEW v \in LpStates, Referenced(v), NEW w \in LpStates, SameScene(v, w),
         NEW n \in Nat, NEW t \in Tiles
  PROVE  /\ NoDraw(v, t, n) => Without(v, t, n) = Run(v, t).tile
         /\ w.bins[t] = v.bins[t] => Without(w, t, n) = Without(v, t, n)
         /\ \A d \in Triangles :
              w.bins[t] = Append(v.bins[t], DrawOf(d, n)) => Without(w, t, n) = Without(v, t, n)
  <1> DEFINE a == Disable(v, n)
             b == Disable(w, n)
  <1>1. /\ a \in LpStates /\ b \in LpStates /\ SameScene(a, b) /\ a.bins = v.bins
        /\ b.bins = w.bins /\ n \in a.disabled
    BY DisabledSame
  <1>2. Referenced(a) /\ (NoDraw(v, t, n) => Run(a, t).tile = Run(v, t).tile)
    BY DisabledAlike
  <1>3. Without(v, t, n) = Run(a, t).tile /\ Without(w, t, n) = Run(b, t).tile
    BY DEF Without
  <1> HIDE DEF a, b
  <1>4. w.bins[t] = v.bins[t] => Run(b, t).tile = Run(a, t).tile
    <2>1. SUFFICES ASSUME w.bins[t] = v.bins[t] PROVE Run(b, t).tile = Run(a, t).tile
      OBVIOUS
    <2>2. b.bins[t] = a.bins[t]
      BY <1>1, <2>1
    <2> QED BY <1>1, <1>2, <2>2, SameSceneAlike
  <1>5. ASSUME NEW d \in Triangles, w.bins[t] = Append(v.bins[t], DrawOf(d, n))
        PROVE  Run(b, t).tile = Run(a, t).tile
    <2>1. b.bins[t] = Append(a.bins[t], DrawOf(d, n))
      BY <1>1, <1>5
    <2> QED BY <1>1, <1>2, <2>1, DrawAppended
  <1> QED BY <1>2, <1>3, <1>4, <1>5

\* lp_scene_bin_cmd_with_state, for a triangle.
LEMMA WithStateEffect ==
  ASSUME NEW v \in LpStates, Referenced(v), NEW t \in Tiles, NEW d \in Triangles, NEW n \in Nat,
         NoDraw(v, t, n), n \notin v.disabled,
         v.stored # Null, v.last_state[t] # Null => Run(v, t).tex = v.last_state[t].tex,
         NEW w, w = BinWithState(v, t, DrawOf(d, n))
  PROVE  /\ OneBin(v, w, t, n) /\ Without(w, t, n) = Run(v, t).tile
         /\ w.ok => /\ Run(w, t).tex = v.stored.tex /\ w.last_state[t] = v.stored
                    /\ Run(w, t).tile =
                         PaintDraw(Run(v, t).tile, BuffersOf(v.fb), d.cover[t] = "whole", d.opaque,
                                   Paint(n, v.stored.tex, v.ver[v.stored.tex]))
         /\ v.tail[t] = CmdBlockMax /\ v.used < Room => w.ok /\ w.used <= v.used + 1
  <1> DEFINE a == StateIn(v, t)
             cmd == DrawOf(d, n)
  <1>1. w = IF a.ok THEN BinCommand(a, t, cmd) ELSE a
    BY DEF BinWithState, Then, StateIn, Known, StateOf
  <1>2. /\ OneBin(v, a, t, n) /\ NoDraw(a, t, n) /\ Run(a, t).tile = Run(v, t).tile
        /\ a.ok => Run(a, t).tex = v.stored.tex /\ a.last_state[t] = v.stored
        /\ v.tail[t] = CmdBlockMax /\ v.used < Room =>
             /\ a.ok /\ a.used <= v.used + 1
             /\ a.tail[t] = CmdBlockMax => a.used = v.used
    BY StateEffect
  <1>3. /\ cmd \in CommandTypes /\ cmd \in DrawCommands /\ cmd.arg.n = n /\ cmd.arg.draw = d
        /\ cmd \notin StateCommands /\ cmd \notin QueryCommands
    BY DrawTyped
  <1> HIDE DEF a, cmd
  <1>4. a \in LpStates /\ Referenced(a) /\ SameScene(v, a)
    BY <1>2 DEF OneBin
  <1>5. Without(a, t, n) = Run(v, t).tile
    BY <1>2, <1>4, WithoutFacts DEF SameScene
  <1>6. CASE ~ a.ok
    BY <1>1, <1>2, <1>5, <1>6
  <1>7. CASE a.ok
    <2>1. w = BinCommand(a, t, cmd)
      BY <1>1, <1>7
    <2>2. /\ w \in LpStates /\ SameScene(a, w) /\ w.last_state = a.last_state
          /\ \A k \in Tiles \ {t} : w.bins[k] = a.bins[k] /\ w.tail[k] = a.tail[k]
          /\ w.ok => /\ w.bins[t] = Append(a.bins[t], cmd)
                     /\ w.tail[t] = IF a.tail[t] < CmdBlockMax THEN a.tail[t] + 1 ELSE 1
                     /\ w.used = IF a.tail[t] < CmdBlockMax THEN a.used ELSE a.used + 1
          /\ ~ w.ok => /\ w.bins[t] = a.bins[t] /\ w.tail[t] = a.tail[t] /\ w.used = a.used
                       /\ a.tail[t] = CmdBlockMax /\ a.used = Room
      BY <1>3, <1>4, <2>1, BinCommandEffect
    <2>3. w.bins[t] = a.bins[t] \/ w.bins[t] = Append(a.bins[t], cmd)
      BY <2>2
    <2>4. OneBin(a, w, t, n)
      BY <1>3, <1>4, <2>2, <2>3, OneBinMore
    <2>5. OneBin(v, w, t, n)
      BY <1>2, <2>4, OneBinTrans
    <2>6. Without(w, t, n) = Run(v, t).tile
      BY <1>4, <1>5, <2>2, <2>3, WithoutFacts DEF cmd
    <2>7. ASSUME w.ok
          PROVE  /\ Run(w, t).tex = v.stored.tex /\ w.last_state[t] = v.stored
                 /\ Run(w, t).tile =
                      PaintDraw(Run(v, t).tile, BuffersOf(v.fb), d.cover[t] = "whole", d.opaque,
                                Paint(n, v.stored.tex, v.ver[v.stored.tex]))
      <3>1. w.bins[t] = Append(a.bins[t], DrawOf(d, n))
        BY <2>2, <2>7 DEF cmd
      <3>2. n \notin a.disabled /\ a.fb = v.fb /\ a.ver = v.ver
        BY <1>4 DEF SameScene
      <3>3. /\ Run(w, t).tex = Run(a, t).tex
            /\ n \notin a.disabled =>
                 Run(w, t).tile =
                   PaintDraw(Run(a, t).tile, BuffersOf(a.fb), d.cover[t] = "whole", d.opaque,
                             Paint(n, Run(a, t).tex, a.ver[Run(a, t).tex]))
        BY <1>4, <2>2, <3>1, DrawAppended
      <3> QED BY <1>2, <1>7, <2>2, <3>2, <3>3
    <2>8. v.tail[t] = CmdBlockMax /\ v.used < Room => w.ok /\ w.used <= v.used + 1
      <3>1. v.used \in 0 .. Room /\ a.used \in 0 .. Room /\ a.tail[t] \in 0 .. CmdBlockMax
        BY <1>4 DEF LpStates
      <3> QED BY <1>2, <2>2, <3>1, Constants
    <2> QED BY <2>5, <2>6, <2>7, <2>8
  <1> QED BY <1>6, <1>7

\* lp_scene_bin_reset.
LEMMA ResetEffect ==
  ASSUME NEW v \in LpStates, Referenced(v), NEW t \in Tiles, NEW n \in Nat,
         NEW w, w = BinReset(v, t)
  PROVE  /\ OneBin(v, w, t, n) /\ NoDraw(w, t, n) /\ Run(w, t).tile = v.mem[v.fb][t]
         /\ w.last_state[t] = Null /\ w.used = v.used
         /\ v.bins[t] = <<>> /\ v.tail[t] = CmdBlockMax => w.tail[t] = CmdBlockMax
  <1> DEFINE empty == <<>>
             bins == [v.bins EXCEPT ![t] = empty]
             l == IF NoBlock(v, t) THEN v.tail[t] ELSE 0
             tail == [v.tail EXCEPT ![t] = l]
             last == [v.last_state EXCEPT ![t] = Null]
  <1>1. w = [v EXCEPT !.bins = bins, !.tail = tail, !.last_state = last]
    BY DEF BinReset
  <1>2. /\ v.bins \in [Tiles -> Seq(CommandTypes)] /\ v.tail \in [Tiles -> 0 .. CmdBlockMax]
        /\ v.last_state \in [Tiles -> RastStates]
    BY DEF LpStates
  <1>3. empty \in Seq(CommandTypes) /\ Len(empty) = 0
    OBVIOUS
  <1>4. l \in 0 .. CmdBlockMax /\ (v.bins[t] = empty /\ v.tail[t] = CmdBlockMax => l = CmdBlockMax)
    BY <1>2, Constants DEF NoBlock
  <1> HIDE DEF empty, l
  <1>5. bins \in [Tiles -> Seq(CommandTypes)] /\ bins[t] = empty
        /\ \A k \in Tiles \ {t} : bins[k] = v.bins[k]
    BY <1>2, <1>3
  <1>6. tail \in [Tiles -> 0 .. CmdBlockMax] /\ tail[t] = l
        /\ \A k \in Tiles \ {t} : tail[k] = v.tail[k]
    BY <1>2, <1>4
  <1>7. last \in [Tiles -> RastStates] /\ last[t] = Null
        /\ \A k \in Tiles \ {t} : last[k] = v.last_state[k]
    BY <1>2, NullTyped
  <1> HIDE DEF bins, tail, last
  <1>8. w \in LpStates
    BY <1>1, <1>5, <1>6, <1>7 DEF LpStates
  <1>9. /\ w.bins = bins /\ w.tail = tail /\ w.last_state = last /\ w.used = v.used
        /\ w.state = v.state /\ w.fb = v.fb /\ w.tex = v.tex /\ w.stored = v.stored
        /\ w.clear = v.clear /\ w.active = v.active
    BY <1>1 DEF LpStates
  <1>10. /\ w.refs = v.refs /\ w.fence = v.fence /\ w.had_queries = v.had_queries
         /\ w.scenes = v.scenes /\ w.done = v.done /\ w.queries = v.queries
         /\ w.ver = v.ver /\ w.mem = v.mem /\ w.disabled = v.disabled
    BY <1>1 DEF LpStates
  <1>11. SameScene(v, w)
    BY <1>9, <1>10 DEF SameScene
  <1>12. ASSUME NEW k \in Tiles, NEW i \in 1 .. Len(w.bins[k])
         PROVE  i \in 1 .. Len(v.bins[k]) /\ w.bins[k][i] = v.bins[k][i] /\ k # t
    <2>1. CASE k = t
      <3>1. Len(w.bins[k]) = 0
        BY <1>3, <1>5, <1>9, <2>1
      <3> QED BY <1>12, <3>1
    <2>2. CASE k # t
      BY <1>5, <1>9, <2>2
    <2> QED BY <2>1, <2>2
  <1>13. Referenced(w) /\ (Numbers(v, n) => Numbers(w, n)) /\ NoDraw(w, t, n)
    <2>1. Referenced(w)
      BY <1>9, <1>10, <1>12 DEF Referenced
    <2>2. Numbers(v, n) => Numbers(w, n)
      BY <1>10, <1>12 DEF Numbers
    <2>3. NoDraw(w, t, n)
      BY <1>12 DEF NoDraw
    <2> QED BY <2>1, <2>2, <2>3
  <1>14. \A q : Holds(w, q) => Holds(v, q)
    BY <1>12 DEF Holds
  <1>15. OneBin(v, w, t, n)
    BY <1>5, <1>6, <1>7, <1>8, <1>9, <1>11, <1>13, <1>14 DEF OneBin
  <1>16. Run(w, t).tile = v.mem[v.fb][t]
    <2>1. Len(w.bins[t]) = 0
      BY <1>3, <1>5, <1>9
    <2>2. Run(w, t) = TileBegin(w, t)
      BY <2>1, AfterUnfold DEF Run
    <2> QED BY <1>9, <1>10, <2>2 DEF TileBegin
  <1> QED BY <1>4, <1>6, <1>7, <1>9, <1>13, <1>15, <1>16 DEF empty

\* A triangle that hides what is below it, but for depth and stencil there are not.
Covered(s, t, d) == d.opaque /\ d.cover[t] = "whole" /\ s.fb \notin ZsBound

\* What the n-th call, a triangle, makes of the picture p of a tile.
DrawOn(s, p, t, d, n) ==
  IF d.cover[t] = "none" THEN p
  ELSE PaintDraw(p, BuffersOf(s.fb), d.cover[t] = "whole", d.opaque,
                 Paint(n, s.stored.tex, s.ver[s.stored.tex]))

\* A bin holds nothing for depth and stencil there are not.
Flat(s, t) ==
  s.fb \notin ZsBound => \A b \in ZsBuffers : Run(s, t).tile[b] = s.mem[s.fb][t][b]

\* A triangle that hides what is below it paints the same over anything.
LEMMA CoveredPaint ==
  ASSUME NEW s, NEW t, NEW d, NEW n, Covered(s, t, d), NEW p, NEW r,
         \A b \in ZsBuffers : p[b] = r[b]
  PROVE  DrawOn(s, p, t, d, n) = DrawOn(s, r, t, d, n)
  <1> DEFINE paint == Paint(n, s.stored.tex, s.ver[s.stored.tex])
             whole == d.cover[t] = "whole"
             bufs == BuffersOf(s.fb)
  <1>1. /\ DrawOn(s, p, t, d, n) = PaintDraw(p, bufs, whole, d.opaque, paint)
        /\ DrawOn(s, r, t, d, n) = PaintDraw(r, bufs, whole, d.opaque, paint)
    BY DEF DrawOn, Covered
  <1>2. bufs = {"c"} /\ whole /\ d.opaque
    BY DEF Covered, BuffersOf
  <1> HIDE DEF paint, whole, bufs
  <1>3. \A b \in Buffers : b \notin bufs => b \in ZsBuffers
    BY <1>2 DEF Buffers
  <1> QED BY <1>1, <1>2, <1>3 DEF PaintDraw

\* lp_setup_bin_triangle for one tile.
LEMMA TileEffect ==
  ASSUME NEW v \in LpStates, Referenced(v), NEW t \in Tiles, NEW d \in Triangles, NEW n \in Nat,
         NoDraw(v, t, n), n \notin v.disabled, v.ok, v.stored # Null,
         v.last_state[t] # Null => Run(v, t).tex = v.last_state[t].tex,
         NEW w, w = BinTile(v, t, d, n)
  PROVE  /\ OneBin(v, w, t, n)
         /\ \/ Without(w, t, n) = Run(v, t).tile
            \/ Covered(v, t, d) /\ Without(w, t, n) = v.mem[v.fb][t]
         /\ w.ok => /\ w.last_state[t] # Null => Run(w, t).tex = w.last_state[t].tex
                    /\ Flat(v, t) => Run(w, t).tile = DrawOn(v, Run(v, t).tile, t, d, n)
         /\ v.bins[t] = <<>> /\ v.tail[t] = CmdBlockMax /\ v.used < Room =>
              w.ok /\ w.used <= v.used + 1
  <1>0. v.used \in Nat
    BY Constants DEF LpStates
  <1>1. CASE d.cover[t] = "none"
    <2>1. w = v
      BY <1>1 DEF BinTile
    <2>2. OneBin(v, v, t, n)
      BY DEF OneBin, SameScene
    <2>3. SameScene(v, v)
      BY DEF SameScene
    <2>4. Without(v, t, n) = Run(v, t).tile
      BY <2>3, WithoutFacts
    <2>5. DrawOn(v, Run(v, t).tile, t, d, n) = Run(v, t).tile
      BY <1>1 DEF DrawOn
    <2> QED BY <1>0, <2>1, <2>2, <2>4, <2>5
  <1>2. CASE d.cover[t] # "none" /\ ~ (d.opaque /\ d.cover[t] = "whole" /\ MayReset(v))
    <2>1. w = BinWithState(v, t, DrawOf(d, n))
      BY <1>2 DEF BinTile, DrawOf
    <2>2. /\ OneBin(v, w, t, n) /\ Without(w, t, n) = Run(v, t).tile
          /\ w.ok => /\ Run(w, t).tex = v.stored.tex /\ w.last_state[t] = v.stored
                     /\ Run(w, t).tile =
                          PaintDraw(Run(v, t).tile, BuffersOf(v.fb), d.cover[t] = "whole", d.opaque,
                                    Paint(n, v.stored.tex, v.ver[v.stored.tex]))
          /\ v.tail[t] = CmdBlockMax /\ v.used < Room => w.ok /\ w.used <= v.used + 1
      BY <2>1, WithStateEffect
    <2>3. w.ok => Run(w, t).tile = DrawOn(v, Run(v, t).tile, t, d, n)
      BY <1>2, <2>2 DEF DrawOn
    <2> QED BY <2>2, <2>3
  <1>3. CASE d.cover[t] # "none" /\ d.opaque /\ d.cover[t] = "whole" /\ MayReset(v)
    <2> DEFINE r == BinReset(v, t)
    <2>1. w = BinWithState(r, t, DrawOf(d, n))
      BY <1>3 DEF BinTile, DrawOf
    <2>2. /\ OneBin(v, r, t, n) /\ NoDraw(r, t, n) /\ Run(r, t).tile = v.mem[v.fb][t]
          /\ r.last_state[t] = Null /\ r.used = v.used
          /\ v.bins[t] = <<>> /\ v.tail[t] = CmdBlockMax => r.tail[t] = CmdBlockMax
      BY ResetEffect
    <2> HIDE DEF r
    <2>3. /\ r \in LpStates /\ Referenced(r) /\ r.stored = v.stored /\ r.disabled = v.disabled
          /\ r.fb = v.fb /\ r.ver = v.ver
      BY <2>2 DEF OneBin, SameScene
    <2>4. /\ OneBin(r, w, t, n) /\ Without(w, t, n) = Run(r, t).tile
          /\ w.ok => /\ Run(w, t).tex = r.stored.tex /\ w.last_state[t] = r.stored
                     /\ Run(w, t).tile =
                          PaintDraw(Run(r, t).tile, BuffersOf(r.fb), d.cover[t] = "whole", d.opaque,
                                    Paint(n, r.stored.tex, r.ver[r.stored.tex]))
          /\ r.tail[t] = CmdBlockMax /\ r.used < Room => w.ok /\ w.used <= r.used + 1
      BY <2>1, <2>2, <2>3, WithStateEffect
    <2>5. OneBin(v, w, t, n)
      BY <2>2, <2>4, OneBinTrans
    <2>6. Covered(v, t, d)
      BY <1>3 DEF Covered, MayReset
    <2>7. ASSUME w.ok, Flat(v, t) PROVE Run(w, t).tile = DrawOn(v, Run(v, t).tile, t, d, n)
      <3>1. Run(w, t).tile = DrawOn(v, v.mem[v.fb][t], t, d, n)
        BY <1>3, <2>2, <2>3, <2>4, <2>7 DEF DrawOn
      <3>2. \A b \in ZsBuffers : v.mem[v.fb][t][b] = Run(v, t).tile[b]
        BY <2>6, <2>7 DEF Flat, Covered
      <3> QED BY <2>6, <3>1, <3>2, CoveredPaint
    <2> QED BY <2>2, <2>3, <2>4, <2>5, <2>6, <2>7
  <1> QED BY <1>1, <1>2, <1>3

\* After k tiles of the n-th call, a triangle: it is in the first k bins, or there was
\* no memory for one of them.  Disabled, it leaves no trace but where it would have
\* hidden what was there.
Binned(s, w, d, n, k) ==
  /\ w \in LpStates /\ SameScene(s, w) /\ Referenced(w) /\ Numbers(w, n)
  /\ \A q : Holds(w, q) => Holds(s, q)
  /\ \A t \in Tiles : ~ (t <= k) =>
       w.bins[t] = s.bins[t] /\ w.tail[t] = s.tail[t] /\ w.last_state[t] = s.last_state[t]
  /\ w.ok => \A t \in Tiles : t <= k =>
               /\ w.last_state[t] # Null => Run(w, t).tex = w.last_state[t].tex
               /\ Run(w, t).tile = DrawOn(s, Run(s, t).tile, t, d, n)
  /\ \A t \in Tiles : \/ Without(w, t, n) = Run(s, t).tile
                      \/ Covered(s, t, d) /\ Without(w, t, n) = s.mem[s.fb][t]
  /\ (\A t \in Tiles : s.bins[t] = <<>> /\ s.tail[t] = CmdBlockMax)
       /\ s.used + NumTiles <= Room => w.ok /\ w.used <= s.used + k

\* A scene that the n-th call may be binned in.
ReadyFor(s, n) ==
  /\ Body(s, n) /\ s.ok /\ s.stored # Null /\ n \notin s.disabled
  /\ \A t \in Tiles : NoDraw(s, t, n) /\ Flat(s, t)

\* A round of lp_setup_bin_triangle: one bin more has the triangle, with its state and
\* after a reset where it may, unless there is no memory for it.
LEMMA BinnedNext ==
  ASSUME NEW s, NEW n \in Nat, ReadyFor(s, n), NEW d \in Triangles, NEW m \in 0 .. NumTiles - 1,
         NEW u, Binned(s, u, d, n, m), NEW w, w = BinTileNext(<<d, n>>, u, m + 1)
  PROVE  Binned(s, w, d, n, m + 1)
  <1> DEFINE t == m + 1
  <1>0. /\ s \in LpStates /\ Referenced(s) /\ s.stored # Null /\ n \notin s.disabled
        /\ NumTiles \in Nat
    BY Constants DEF ReadyFor, Body
  <1>1. m \in Nat /\ t \in Tiles /\ Tiles \subseteq Nat /\ ~ (t <= m)
    BY Constants DEF Tiles
  <1>2. /\ u \in LpStates /\ SameScene(s, u) /\ Referenced(u) /\ Numbers(u, n)
        /\ \A q : Holds(u, q) => Holds(s, q)
        /\ \A k \in Tiles : ~ (k <= m) =>
             u.bins[k] = s.bins[k] /\ u.tail[k] = s.tail[k] /\ u.last_state[k] = s.last_state[k]
    BY DEF Binned
  <1>3. u.ok => \A k \in Tiles : k <= m =>
                  /\ u.last_state[k] # Null => Run(u, k).tex = u.last_state[k].tex
                  /\ Run(u, k).tile = DrawOn(s, Run(s, k).tile, k, d, n)
    BY DEF Binned
  <1>4. \A k \in Tiles : \/ Without(u, k, n) = Run(s, k).tile
                         \/ Covered(s, k, d) /\ Without(u, k, n) = s.mem[s.fb][k]
    BY DEF Binned
  <1>5. (\A k \in Tiles : s.bins[k] = <<>> /\ s.tail[k] = CmdBlockMax)
          /\ s.used + NumTiles <= Room => u.ok /\ u.used <= s.used + m
    BY DEF Binned
  <1>6. s.used \in Nat /\ u.used \in Nat /\ u.ok \in BOOLEAN
    BY <1>0, <1>2, Constants DEF LpStates
  <1>7. CASE ~ u.ok
    <2>1. w = u
      BY <1>7 DEF BinTileNext, Then
    <2>2. \A k \in Tiles : ~ (k <= m + 1) => ~ (k <= m)
      BY <1>1
    <2>3. ~ ((\A k \in Tiles : s.bins[k] = <<>> /\ s.tail[k] = CmdBlockMax)
               /\ s.used + NumTiles <= Room)
      BY <1>5, <1>7
    <2> QED BY <1>2, <1>4, <1>7, <2>1, <2>2, <2>3 DEF Binned
  <1>8. CASE u.ok
    <2>1. w = BinTile(u, t, d, n)
      BY <1>8 DEF BinTileNext, Then
    <2>2. /\ u.bins[t] = s.bins[t] /\ u.tail[t] = s.tail[t] /\ u.last_state[t] = s.last_state[t]
      BY <1>1, <1>2
    <2>3. Run(u, t).tile = Run(s, t).tile /\ Run(u, t).tex = Run(s, t).tex
      BY <1>0, <1>1, <1>2, <2>2, SameSceneAlike
    <2>4. /\ u.fb = s.fb /\ u.stored = s.stored /\ u.ver = s.ver /\ u.mem = s.mem
          /\ u.disabled = s.disabled
      BY <1>2 DEF SameScene
    <2>5. NoDraw(u, t, n) /\ Flat(u, t)
          /\ (u.last_state[t] # Null => Run(u, t).tex = u.last_state[t].tex)
      <3>1. NoDraw(s, t, n) /\ Flat(s, t)
            /\ (s.last_state[t] # Null => Run(s, t).tex = s.last_state[t].tex)
        BY <1>1 DEF ReadyFor, Body, StatesMatch
      <3>2. NoDraw(u, t, n)
        BY <2>2, <3>1 DEF NoDraw
      <3>3. Flat(u, t)
        BY <2>3, <2>4, <3>1 DEF Flat
      <3> QED BY <2>2, <2>3, <3>1, <3>2, <3>3
    <2>6. /\ OneBin(u, w, t, n)
          /\ \/ Without(w, t, n) = Run(u, t).tile
             \/ Covered(u, t, d) /\ Without(w, t, n) = u.mem[u.fb][t]
          /\ w.ok => /\ w.last_state[t] # Null => Run(w, t).tex = w.last_state[t].tex
                     /\ Flat(u, t) => Run(w, t).tile = DrawOn(u, Run(u, t).tile, t, d, n)
          /\ u.bins[t] = <<>> /\ u.tail[t] = CmdBlockMax /\ u.used < Room =>
               w.ok /\ w.used <= u.used + 1
      BY <1>0, <1>1, <1>2, <1>8, <2>1, <2>4, <2>5, TileEffect
    <2> HIDE DEF t
    <2>7. /\ w \in LpStates /\ SameScene(u, w) /\ Referenced(w) /\ Numbers(w, n)
          /\ \A q : Holds(w, q) => Holds(s, q)
          /\ \A k \in Tiles \ {t} : /\ w.bins[k] = u.bins[k] /\ w.tail[k] = u.tail[k]
                                    /\ w.last_state[k] = u.last_state[k]
      BY <1>2, <2>6 DEF OneBin
    <2>8. SameScene(s, w)
      BY <1>2, <2>7, SameSceneTrans
    <2>9. ASSUME NEW k \in Tiles \ {t}
          PROVE  /\ Run(w, k).tile = Run(u, k).tile /\ Run(w, k).tex = Run(u, k).tex
                 /\ Without(w, k, n) = Without(u, k, n)
      <3>1. k \in Tiles /\ w.bins[k] = u.bins[k]
        BY <2>7, <2>9
      <3>2. Run(w, k).tile = Run(u, k).tile /\ Run(w, k).tex = Run(u, k).tex
        BY <1>2, <2>7, <3>1, SameSceneAlike
      <3>3. Without(w, k, n) = Without(u, k, n)
        BY <1>2, <2>7, <3>1, WithoutFacts
      <3> QED BY <3>2, <3>3
    <2>10. DrawOn(u, Run(u, t).tile, t, d, n) = DrawOn(s, Run(s, t).tile, t, d, n)
      BY <2>3, <2>4 DEF DrawOn
    <2>11. \A k \in Tiles : \/ Without(w, k, n) = Run(s, k).tile
                            \/ Covered(s, k, d) /\ Without(w, k, n) = s.mem[s.fb][k]
      <3> SUFFICES ASSUME NEW k \in Tiles
                   PROVE  \/ Without(w, k, n) = Run(s, k).tile
                          \/ Covered(s, k, d) /\ Without(w, k, n) = s.mem[s.fb][k]
        OBVIOUS
      <3>1. CASE k = t
        BY <2>3, <2>4, <2>6, <3>1 DEF Covered
      <3>2. CASE k # t
        BY <1>4, <2>9, <3>2
      <3> QED BY <3>1, <3>2
    <2>12. ASSUME w.ok, NEW k \in Tiles, k <= m + 1
           PROVE  /\ w.last_state[k] # Null => Run(w, k).tex = w.last_state[k].tex
                  /\ Run(w, k).tile = DrawOn(s, Run(s, k).tile, k, d, n)
      <3>1. CASE k = t
        BY <2>5, <2>6, <2>10, <2>12, <3>1
      <3>2. CASE k # t
        <4>1. k <= m
          BY <1>1, <2>12, <3>2 DEF t
        <4> QED BY <1>3, <1>8, <2>7, <2>9, <3>2, <4>1
      <3> QED BY <3>1, <3>2
    <2>13. ASSUME NEW k \in Tiles, ~ (k <= m + 1)
           PROVE  w.bins[k] = s.bins[k] /\ w.tail[k] = s.tail[k] /\ w.last_state[k] = s.last_state[k]
      <3>1. k # t /\ ~ (k <= m)
        BY <1>1, <2>13 DEF t
      <3> QED BY <1>2, <2>7, <3>1
    <2>14. ASSUME \A k \in Tiles : s.bins[k] = <<>> /\ s.tail[k] = CmdBlockMax,
                  s.used + NumTiles <= Room
           PROVE  w.ok /\ w.used <= s.used + (m + 1)
      <3>1. u.used <= s.used + m
        BY <1>5, <2>14
      <3>2. u.used < Room
        <4>1. m < NumTiles
          BY <1>0
        <4> QED BY <1>0, <1>1, <1>6, <2>14, <3>1, <4>1, Constants
      <3>3. u.bins[t] = <<>> /\ u.tail[t] = CmdBlockMax
        BY <1>1, <2>2, <2>14
      <3>4. w.ok /\ w.used <= u.used + 1
        BY <2>6, <3>2, <3>3
      <3>5. w.used \in Nat
        BY <2>7, Constants DEF LpStates
      <3> QED BY <1>1, <1>6, <3>1, <3>4, <3>5
    <2> QED BY <2>7, <2>8, <2>11, <2>12, <2>13, <2>14 DEF Binned
  <1> QED BY <1>7, <1>8

\* All tiles of a triangle.
LEMMA TilesEffect ==
  ASSUME NEW s, NEW n \in Nat, ReadyFor(s, n), NEW d \in Triangles, NEW w,
         w = AllTiles!Iterate(<<d, n>>, s, NumTiles)
  PROVE  Binned(s, w, d, n, NumTiles)
  <1> DEFINE Upto(k) == AllTiles!Iterate(<<d, n>>, s, k)
             S == {k \in Nat : k <= NumTiles => Binned(s, Upto(k), d, n, k)}
  <1>1. 0 \in S
    <2>1. Upto(0) = s
      BY AllTiles!Unfold
    <2>2. PICK zero \in Nat : zero = 0
      OBVIOUS
    <2>3. s \in LpStates /\ Referenced(s) /\ Numbers(s, n) /\ SameScene(s, s) /\ s.ok
      BY DEF ReadyFor, Body, SameScene
    <2>4. \A t \in Tiles : ~ (t <= zero)
      BY <2>2, Constants
    <2>5. \A t \in Tiles : Without(s, t, n) = Run(s, t).tile
      BY <2>3, WithoutFacts DEF ReadyFor
    <2>6. s.used <= s.used + zero
      BY <2>2, <2>3 DEF LpStates
    <2>7. Binned(s, s, d, n, zero)
      BY <2>3, <2>4, <2>5, <2>6 DEF Binned
    <2> QED BY <2>1, <2>2, <2>7
  <1>2. ASSUME NEW k \in 0 .. NumTiles - 1, k \in S PROVE k + 1 \in S
    <2>1. k \in Nat /\ k <= NumTiles
      BY Constants
    <2>2. Upto(k + 1) = BinTileNext(<<d, n>>, Upto(k), k + 1)
      BY <2>1, AllTiles!Unfold
    <2>3. Binned(s, Upto(k), d, n, k)
      BY <1>2, <2>1
    <2>4. Binned(s, Upto(k + 1), d, n, k + 1)
      BY <2>2, <2>3, BinnedNext
    <2> QED BY <2>1, <2>4
  <1> HIDE DEF S
  <1>3. NumTiles \in S
    BY <1>1, <1>2, AllTiles!Induction, Constants
  <1> QED BY <1>3, Constants DEF S

\* An ACTIVE scene has no clears that are held back.
LEMMA ActiveShown ==
  ASSUME NEW s, Scene(s), s.state = "ACTIVE", NEW t \in Tiles
  PROVE  Shown(s, t) = Run(s, t).tile
  <1>1. s \in LpStates /\ s.clear = NoClear
    BY DEF Scene, Phases
  <1>2. Run(s, t).tile \in Pictures
    BY <1>1, AfterTyped DEF TileStates
  <1> QED BY <1>1, <1>2, PaintClearFacts, NullTyped DEF Shown

\* The phase of a scene depends on these fields alone.
LEMMA ActivePhase ==
  ASSUME NEW s, Phases(s), s.state = "ACTIVE", NEW u, u.state = s.state, u.stored = s.stored,
         u.clear = s.clear, u.fence = s.fence, u.scenes = s.scenes, u.done = s.done, u.fb = s.fb
  PROVE  Phases(u)
  BY DEF Phases

\* A scene of the calls up to the m-th is one that the next call may be binned in.
LEMMA ReadyNext ==
  ASSUME NEW s, NEW m \in Nat, Good(s, m), s.state = "ACTIVE", Plain(s),
         NEW r, r = SceneAlloc(s), r.ok
  PROVE  ReadyFor(r, m + 1)
  <1> DEFINE n == m + 1
  <1>1. s \in LpStates /\ Scene(s) /\ s.stored # Null /\ Body(s, m)
    BY DEF Good, Scene, Phases, Body
  <1>2. /\ Body(r, m) /\ SameScene(s, r) /\ \A t \in Tiles : Run(r, t).tile = Run(s, t).tile
    BY <1>1, AllocBody
  <1>3. r \in LpStates /\ Numbers(r, m)
    BY <1>2 DEF Body
  <1>4. /\ r.stored = s.stored /\ r.fb = s.fb /\ r.mem = s.mem /\ r.disabled \in SUBSET Nat
    BY <1>2, <1>3 DEF SameScene, LpStates
  <1>5. n \notin r.disabled
    BY <1>3, <1>4 DEF Numbers
  <1>6. ASSUME NEW t \in Tiles, NEW i \in 1 .. Len(r.bins[t]), r.bins[t][i] \in DrawCommands
        PROVE  r.bins[t][i].arg.n # n /\ r.bins[t][i].arg.n <= n
    <2>1. r.bins[t][i].arg.n \in Nat /\ r.bins[t][i].arg.n <= m
      BY <1>3, <1>6 DEF Numbers, DrawCommands
    <2> QED BY <2>1
  <1>7. \A k \in r.disabled : k <= n
    BY <1>3, <1>4 DEF Numbers
  <1>8. Numbers(r, n)
    BY <1>6, <1>7 DEF Numbers
  <1>9. Body(r, n)
    BY <1>2, <1>8 DEF Body
  <1>10. \A t \in Tiles : NoDraw(r, t, n)
    BY <1>6 DEF NoDraw
  <1>11. ASSUME NEW t \in Tiles PROVE Flat(r, t)
    <2>1. Run(r, t).tile = Shown(s, t)
      BY <1>1, <1>2, ActiveShown
    <2>2. s.fb \in Framebuffers
      BY <1>1 DEF LpStates
    <2>3. s.fb \notin ZsBound => \A b \in ZsBuffers : s.mem[s.fb][t][b] = <<>> /\ Shown(s, t)[b] = <<>>
      BY <2>2 DEF Plain
    <2> QED BY <1>4, <2>1, <2>3 DEF Flat
  <1> QED BY <1>1, <1>4, <1>5, <1>9, <1>10, <1>11 DEF ReadyFor

\* A triangle leaves depth and stencil alone that there are not.
LEMMA DrawPlain ==
  ASSUME NEW s, NEW p, NEW t, NEW d, NEW n, s.fb \notin ZsBound, NEW b \in ZsBuffers
  PROVE  DrawOn(s, p, t, d, n)[b] = p[b]
  <1>1. BuffersOf(s.fb) = {"c"} /\ b \in Buffers /\ b \notin {"c"}
    BY DEF BuffersOf, Buffers, ZsBuffers
  <1>2. ASSUME NEW w, NEW o, NEW x PROVE PaintDraw(p, {"c"}, w, o, x)[b] = p[b]
    BY <1>1 DEF PaintDraw
  <1> QED BY <1>1, <1>2 DEF DrawOn

\* do_triangle_ccw.
LEMMA DoTriangleEffect ==
  ASSUME NEW s, NEW m \in Nat, Good(s, m), s.state = "ACTIVE", Plain(s),
         NEW d \in Triangles, NEW n, n = m + 1, NEW u, u = DoTriangle(s, d, n)
  PROVE  /\ Scene(u) /\ u.state = "ACTIVE" /\ Moves(s, u, {}) /\ u.mem = s.mem
         /\ u.tex = s.tex /\ u.ok \in BOOLEAN
         /\ u.ok => /\ Good(u, n)
                    /\ \A t \in Tiles : Shown(u, t) = DrawOn(s, Shown(s, t), t, d, n)
         /\ ~ u.ok => \A t \in Tiles : \/ Shown(u, t) = Shown(s, t)
                                       \/ Covered(s, t, d) /\ Shown(u, t) = s.mem[s.fb][t]
         /\ Fresh(s) => u.ok
  <1> DEFINE r == SceneAlloc(s)
             a == AllTiles!Iterate(<<d, n>>, r, NumTiles)
  <1>0. u = IF r.ok THEN (IF a.ok THEN a ELSE Disable(a, n)) ELSE r
    BY DEF DoTriangle, BinTriangle, Then
  <1>1. s \in LpStates /\ Scene(s) /\ Phases(s) /\ Body(s, m) /\ n \in Nat
    BY DEF Good, Scene, Body
  <1>2. /\ Body(r, m) /\ SameScene(s, r) /\ r.tail = s.tail
        /\ (r.ok => r.used = s.used + 1) /\ (~ r.ok => s.used = Room)
        /\ \A q : Holds(r, q) => Holds(s, q)
        /\ \A t \in Tiles : Run(r, t).tile = Run(s, t).tile
    BY <1>1, AllocBody
  <1>3. r.ok => ReadyFor(r, n)
    BY ReadyNext
  <1>4. r.bins = s.bins /\ r \in LpStates /\ Referenced(r)
    BY <1>1, <1>2, AllocEffect DEF Body
  <1>5. /\ r.state = s.state /\ r.stored = s.stored /\ r.clear = s.clear /\ r.fence = s.fence
        /\ r.scenes = s.scenes /\ r.done = s.done /\ r.fb = s.fb /\ r.mem = s.mem
        /\ r.tex = s.tex /\ r.ver = s.ver /\ r.queries = s.queries
    BY <1>2 DEF SameScene
  <1>6. \A t \in Tiles : Shown(s, t) = Run(s, t).tile
    BY <1>1, ActiveShown
  <1>7. s.used \in Nat /\ r.ok \in BOOLEAN
    BY <1>1, <1>4, Constants DEF LpStates
  <1>8. Fresh(s) => r.ok
    BY <1>2, <1>7, Constants DEF Fresh
  <1>9. CASE ~ r.ok
    <2>1. u = r
      BY <1>0, <1>9
    <2> HIDE DEF r
    <2>2. Phases(r)
      BY <1>1, <1>5, ActivePhase
    <2>3. Scene(r)
      BY <1>4, <2>2 DEF Scene
    <2>4. \A t \in Tiles : Shown(r, t) = Shown(s, t)
      BY <1>2, <1>5, <1>6, <2>3, ActiveShown
    <2>5. Moves(s, r, {})
      BY <1>2, SameSceneMoves
    <2> QED BY <1>5, <1>7, <1>8, <1>9, <2>1, <2>3, <2>4, <2>5
  <1>10. CASE r.ok
    <2>1. Binned(r, a, d, n, NumTiles)
      BY <1>1, <1>3, <1>10, TilesEffect
    <2>2. u = IF a.ok THEN a ELSE Disable(a, n)
      BY <1>0, <1>10
    <2> HIDE DEF r, a
    <2>3. /\ a \in LpStates /\ SameScene(r, a) /\ Referenced(a) /\ Numbers(a, n)
          /\ \A q : Holds(a, q) => Holds(r, q)
      BY <2>1 DEF Binned
    <2>4. \A t \in Tiles : t <= NumTiles
      BY Constants
    <2>5. SameScene(s, a)
      BY <1>2, <2>3, SameSceneTrans
    <2>6. /\ a.state = s.state /\ a.stored = s.stored /\ a.clear = s.clear /\ a.fence = s.fence
          /\ a.scenes = s.scenes /\ a.done = s.done /\ a.fb = s.fb /\ a.mem = s.mem
          /\ a.tex = s.tex /\ a.ver = s.ver /\ a.queries = s.queries
      BY <2>5 DEF SameScene
    <2>7. Phases(a)
      BY <1>1, <2>6, ActivePhase
    <2>8. Scene(a) /\ a.ok \in BOOLEAN
      BY <2>3, <2>7 DEF Scene, LpStates
    <2>9. Fresh(s) => a.ok
      <3>1. SUFFICES ASSUME Fresh(s) PROVE a.ok
        OBVIOUS
      <3>2. \A t \in Tiles : r.bins[t] = <<>> /\ r.tail[t] = CmdBlockMax
        BY <1>2, <1>4, <3>1 DEF Fresh
      <3>3. r.used + NumTiles <= Room
        BY <1>2, <1>7, <1>10, <3>1, Constants DEF Fresh
      <3> QED BY <2>1, <3>2, <3>3 DEF Binned
    <2>10. CASE a.ok
      <3>1. u = a
        BY <2>2, <2>10
      <3>2. \A t \in Tiles : /\ a.last_state[t] # Null => Run(a, t).tex = a.last_state[t].tex
                             /\ Run(a, t).tile = DrawOn(r, Run(r, t).tile, t, d, n)
        BY <2>1, <2>4, <2>10 DEF Binned
      <3>3. Good(a, n)
        BY <2>3, <2>8, <3>2 DEF Good, StatesMatch
      <3>4. ASSUME NEW t \in Tiles PROVE Shown(a, t) = DrawOn(s, Shown(s, t), t, d, n)
        <4>1. Shown(a, t) = Run(a, t).tile
          BY <2>6, <2>8, ActiveShown
        <4>2. DrawOn(r, Run(r, t).tile, t, d, n) = DrawOn(s, Run(s, t).tile, t, d, n)
          BY <1>2, <1>5 DEF DrawOn
        <4> QED BY <1>6, <3>2, <4>1, <4>2
      <3>5. Moves(s, a, {})
        BY <1>2, <2>3, <2>5, SameSceneMoves
      <3> QED BY <2>6, <2>8, <2>10, <3>1, <3>3, <3>4, <3>5
    <2>11. CASE ~ a.ok
      <3> DEFINE b == Disable(a, n)
      <3>1. u = b
        BY <2>2, <2>11
      <3>2. /\ b \in LpStates /\ b.ok = a.ok /\ b.bins = a.bins
            /\ b.state = a.state /\ b.stored = a.stored /\ b.clear = a.clear
            /\ b.fence = a.fence /\ b.scenes = a.scenes /\ b.done = a.done /\ b.fb = a.fb
            /\ b.mem = a.mem /\ b.tex = a.tex /\ b.ver = a.ver /\ b.queries = a.queries
        BY <1>1, <2>3, DisableEffect
      <3>3. Referenced(b)
        BY <1>1, <2>3, DisabledAlike
      <3>4. \A t \in Tiles : \/ Run(b, t).tile = Run(r, t).tile
                             \/ Covered(r, t, d) /\ Run(b, t).tile = r.mem[r.fb][t]
        BY <2>1 DEF Binned, Without
      <3> HIDE DEF b
      <3>5. Phases(b)
        BY <2>6, <2>7, <3>2, ActivePhase
      <3>6. Scene(b)
        BY <3>2, <3>3, <3>5 DEF Scene
      <3>7. ASSUME NEW t \in Tiles
            PROVE  \/ Shown(b, t) = Shown(s, t)
                   \/ Covered(s, t, d) /\ Shown(b, t) = s.mem[s.fb][t]
        <4>1. Shown(b, t) = Run(b, t).tile
          BY <2>6, <3>2, <3>6, ActiveShown
        <4>2. Covered(r, t, d) => Covered(s, t, d)
          BY <1>5 DEF Covered
        <4> QED BY <1>2, <1>5, <1>6, <3>4, <4>1, <4>2
      <3>8. \A q : Holds(b, q) => Holds(s, q)
        <4>1. \A q : Holds(b, q) => Holds(a, q)
          BY <3>2 DEF Holds
        <4> QED BY <1>2, <2>3, <4>1
      <3>9. Moves(s, b, {})
        BY <2>6, <3>2, <3>8 DEF Moves, FencesKept
      <3>10. b.state = "ACTIVE" /\ b.mem = s.mem /\ b.tex = s.tex
        BY <2>6, <3>2
      <3>11. b.ok \in BOOLEAN /\ ~ b.ok /\ ~ Fresh(s)
        BY <2>8, <2>9, <2>11, <3>2
      <3> QED BY <3>1, <3>6, <3>7, <3>9, <3>10, <3>11
    <2> QED BY <2>8, <2>10, <2>11
  <1> QED BY <1>7, <1>9, <1>10

\* What the n-th call makes of the picture p of a tile, a triangle with its own texture.
DrawnOn(s, p, t, d, n) ==
  IF d.cover[t] = "none" THEN p
  ELSE PaintDraw(p, BuffersOf(s.fb), d.cover[t] = "whole", d.opaque,
                 Paint(n, d.tex, s.ver[d.tex]))

\* Plain is about what is in memory and what is shown.
LEMMA PlainKept ==
  ASSUME NEW s, Plain(s), s.fb \in Framebuffers, NEW u, u.fb = s.fb,
         \A f \in Framebuffers, t \in Tiles : u.mem[f][t] = s.mem[f][t],
         \A t \in Tiles : \/ Shown(u, t) = Shown(s, t)
                          \/ Shown(u, t) = s.mem[s.fb][t]
                          \/ \E x, d, n : x.fb = s.fb /\ Shown(u, t) = DrawOn(x, Shown(s, t), t, d, n)
  PROVE  Plain(u)
  <1> SUFFICES ASSUME NEW f \in Framebuffers \ ZsBound, NEW t \in Tiles, NEW b \in ZsBuffers
               PROVE  u.mem[f][t][b] = <<>> /\ (f = u.fb => Shown(u, t)[b] = <<>>)
    BY DEF Plain
  <1>1. s.mem[f][t][b] = <<>> /\ (f = s.fb => Shown(s, t)[b] = <<>>)
    BY DEF Plain
  <1>2. ASSUME f = u.fb PROVE Shown(u, t)[b] = <<>>
    <2>1. CASE Shown(u, t) = Shown(s, t) \/ Shown(u, t) = s.mem[s.fb][t]
      BY <1>1, <1>2, <2>1
    <2>2. CASE \E x, d, n : x.fb = s.fb /\ Shown(u, t) = DrawOn(x, Shown(s, t), t, d, n)
      <3>1. PICK x, d, n : x.fb = s.fb /\ Shown(u, t) = DrawOn(x, Shown(s, t), t, d, n)
        BY <2>2
      <3>2. x.fb \notin ZsBound
        BY <1>2, <3>1
      <3>3. DrawOn(x, Shown(s, t), t, d, n)[b] = Shown(s, t)[b]
        BY <3>2, DrawPlain
      <3> QED BY <1>1, <1>2, <3>1, <3>3
    <2> QED BY <2>1, <2>2
  <1> QED BY <1>1, <1>2

\* The same triangle with the state of the scene.
LEMMA DrawnState ==
  ASSUME NEW s, NEW x, x.fb = s.fb, x.ver = s.ver, NEW d, x.stored.tex = d.tex
  PROVE  \A p, t, n : DrawOn(x, p, t, d, n) = DrawnOn(s, p, t, d, n)
  BY DEF DrawOn, DrawnOn

\* A triangle: in the scene there was, or in a new one.
LEMMA DrawEffect ==
  ASSUME NEW s, NEW m \in Nat, Good(s, m), Plain(s), NEW d \in Triangles, NEW n, n = m + 1,
         NEW u, u = DrawTriangle(s, d, n)
  PROVE  /\ Good(u, n) /\ Plain(u) /\ Moves(s, u, {})
         /\ \A t \in Tiles : Shown(u, t) = DrawnOn(s, Shown(s, t), t, d, n)
  <1> DEFINE tex == d.tex
             e == [s EXCEPT !.tex = tex]
             r == UpdateState(e)
             a == DoTriangle(r, d, n)
             x == FlushAndRestart(a)
             y == DoTriangle(x, d, n)
  <1>0. u = IF r.ok THEN (IF a.ok THEN a ELSE (IF x.ok THEN y ELSE x)) ELSE r
    BY DEF DrawTriangle, Then
  <1>1. s \in LpStates /\ Scene(s) /\ s.fb \in Framebuffers
    BY DEF Good, Scene, LpStates
  <1>2. tex \in TexOrNone
    BY DEF Triangles, TexOrNone
  <1> HIDE DEF tex
  <1>3. e \in LpStates /\ e.tex = tex
    BY <1>1, <1>2 DEF LpStates
  <1>4. /\ e.state = s.state /\ e.fb = s.fb /\ e.stored = s.stored /\ e.clear = s.clear
        /\ e.bins = s.bins /\ e.tail = s.tail /\ e.last_state = s.last_state
        /\ e.used = s.used /\ e.refs = s.refs /\ e.fence = s.fence
    BY <1>1, <1>2 DEF LpStates
  <1>5. /\ e.disabled = s.disabled /\ e.scenes = s.scenes /\ e.done = s.done
        /\ e.ver = s.ver /\ e.mem = s.mem /\ e.queries = s.queries
    BY <1>1, <1>2 DEF LpStates
  <1> HIDE DEF e
  <1>6. /\ Scene(e) /\ Good(e, m) /\ \A t \in Tiles : Shown(e, t) = Shown(s, t)
        /\ \A q : Holds(e, q) <=> Holds(s, q)
    BY <1>1, <1>3, <1>4, <1>5, EditEffect
  <1>7. Plain(e)
    BY <1>1, <1>4, <1>5, <1>6, PlainKept
  <1>8. Moves(s, e, {})
    BY <1>4, <1>5, <1>6 DEF Moves, FencesKept
  <1>9. /\ r.ok /\ Good(r, m) /\ r.state = "ACTIVE" /\ r.stored.tex = e.tex /\ Keeps(e, r, {})
    BY <1>6, UpdateEffect
  <1>10. u = IF a.ok THEN a ELSE (IF x.ok THEN y ELSE x)
    BY <1>0, <1>9
  <1> HIDE DEF r
  <1>11. Moves(e, r, {}) /\ Plain(r)
    BY <1>7, <1>9, KeepsMoves
  <1>12. Moves(s, r, {})
    BY <1>8, <1>11, MovesTrans
  <1>13. /\ r.fb = s.fb /\ r.ver = s.ver /\ r.tex = tex /\ r.stored.tex = d.tex
         /\ \A t \in Tiles : Shown(r, t) = Shown(s, t)
    BY <1>3, <1>4, <1>5, <1>6, <1>9 DEF Keeps, tex
  <1>14. /\ Scene(a) /\ a.state = "ACTIVE" /\ Moves(r, a, {}) /\ a.mem = r.mem
         /\ a.tex = r.tex /\ a.ok \in BOOLEAN
         /\ a.ok => /\ Good(a, n)
                    /\ \A t \in Tiles : Shown(a, t) = DrawOn(r, Shown(r, t), t, d, n)
         /\ ~ a.ok => \A t \in Tiles : \/ Shown(a, t) = Shown(r, t)
                                       \/ Covered(r, t, d) /\ Shown(a, t) = r.mem[r.fb][t]
    BY <1>9, <1>11, DoTriangleEffect
  <1> HIDE DEF a
  <1>15. Moves(s, a, {}) /\ a.fb = s.fb /\ a.ver = s.ver
    BY <1>12, <1>14, MovesTrans DEF Moves
  <1>16. Plain(a)
    <2>1. \A t \in Tiles :
            \/ Shown(a, t) = Shown(r, t) \/ Shown(a, t) = r.mem[r.fb][t]
            \/ \E z, c, k : z.fb = r.fb /\ Shown(a, t) = DrawOn(z, Shown(r, t), t, c, k)
      BY <1>14
    <2>2. r.fb \in Framebuffers /\ a.fb = r.fb
      BY <1>1, <1>13, <1>15
    <2> QED BY <1>11, <1>14, <2>1, <2>2, PlainKept
  <1>17. CASE a.ok
    <2>1. u = a
      BY <1>10, <1>17
    <2>2. \A t \in Tiles : Shown(a, t) = DrawnOn(s, Shown(s, t), t, d, n)
      BY <1>13, <1>14, <1>17, DrawnState
    <2> QED BY <1>14, <1>15, <1>16, <1>17, <2>1, <2>2
  <1>18. CASE ~ a.ok
    <2>1. /\ x.ok /\ (\A k : Good(x, k)) /\ x.state = "ACTIVE" /\ x.stored.tex = a.tex
          /\ Keeps(a, x, {}) /\ Fresh(x)
      BY <1>14, RestartEffect
    <2>2. u = y
      BY <1>10, <1>18, <2>1
    <2> HIDE DEF x
    <2>3. Moves(a, x, {}) /\ Plain(x)
      BY <1>16, <2>1, KeepsMoves
    <2>4. Moves(s, x, {}) /\ x.fb = s.fb /\ x.ver = s.ver
      BY <1>15, <2>3, MovesTrans DEF Moves
    <2>5. Good(x, m)
      BY <2>1
    <2>6. /\ Moves(x, y, {}) /\ y.mem = x.mem /\ y.ok /\ Good(y, n)
          /\ \A t \in Tiles : Shown(y, t) = DrawOn(x, Shown(x, t), t, d, n)
      BY <2>1, <2>3, <2>5, DoTriangleEffect
    <2> HIDE DEF y
    <2>7. Moves(s, y, {})
      BY <2>4, <2>6, MovesTrans
    <2>8. Plain(y)
      <3>1. \A t \in Tiles :
              \E z, c, k : z.fb = x.fb /\ Shown(y, t) = DrawOn(z, Shown(x, t), t, c, k)
        BY <2>6
      <3>2. x.fb \in Framebuffers /\ y.fb = x.fb
        BY <1>1, <2>4, <2>6 DEF Moves
      <3> QED BY <2>3, <2>6, <3>1, <3>2, PlainKept
    <2>9. ASSUME NEW t \in Tiles PROVE Shown(y, t) = DrawnOn(s, Shown(s, t), t, d, n)
      <3>1. Shown(x, t) = Shown(a, t)
        BY <2>1 DEF Keeps
      <3>2. \A p : DrawOn(x, p, t, d, n) = DrawnOn(s, p, t, d, n)
        BY <1>13, <1>14, <2>1, <2>4, DrawnState DEF tex
      <3>3. DrawOn(x, Shown(a, t), t, d, n) = DrawOn(x, Shown(r, t), t, d, n)
        <4>1. CASE Shown(a, t) = Shown(r, t)
          BY <4>1
        <4>2. CASE Covered(r, t, d) /\ Shown(a, t) = r.mem[r.fb][t]
          <5>1. Covered(x, t, d)
            BY <1>13, <2>4, <4>2 DEF Covered
          <5>2. \A b \in ZsBuffers : Shown(a, t)[b] = Shown(r, t)[b]
            BY <1>1, <1>11, <1>13, <4>2 DEF Plain, Covered
          <5> QED BY <5>1, <5>2, CoveredPaint
        <4> QED BY <1>14, <1>18, <4>1, <4>2
      <3> QED BY <1>13, <2>6, <3>1, <3>2, <3>3
    <2> QED BY <2>2, <2>6, <2>7, <2>8, <2>9
  <1> QED BY <1>14, <1>17, <1>18

-----------------------------------------------------------------------------
(***************************************************************************)
(* The invariant                                                            *)
(***************************************************************************)

\* The bound framebuffer is shown as p has it, and the others are in memory.
Pictured(s, p) ==
  /\ \A t \in Tiles : Shown(s, t) = p[s.fb][t]
  /\ \A f \in Framebuffers \ {s.fb}, t \in Tiles : s.mem[f][t] = p[f][t]

\* Which queries the bins may hold commands of, by their phases.
Lived(s, ph, lt) ==
  \A q \in Queries :
    /\ ph[q] = "new" => ~ Holds(s, q)
    /\ ph[q] = "ended" /\ q \notin lt /\ Holds(s, q) => s.queries[q].fence = s.fence
    /\ ph[q] = "freed" /\ q \notin lt => ~ Holds(s, q)

Memories == [Framebuffers -> [Tiles -> Pictures]]

\* The inductive invariant.
Inv ==
  /\ ops \in Nat /\ Good(lp, ops) /\ Plain(lp)
  /\ pic \in Memories /\ Pictured(lp, pic)
  /\ phase \in [Queries -> {"new", "active", "ended", "freed"}]
  /\ Lived(lp, phase, late)

\* A call that keeps what is shown keeps the picture.
LEMMA PicturedKept ==
  ASSUME NEW s, NEW u, NEW X, Keeps(s, u, X), NEW p, Pictured(s, p)
  PROVE  Pictured(u, p)
  BY DEF Keeps, Pictured

\* A call that brings no query into the bins keeps the queries in them alive.
LEMMA LivedMoves ==
  ASSUME NEW s, NEW u, NEW ph, NEW lt, Lived(s, ph, lt), Moves(s, u, {})
  PROVE  Lived(u, ph, lt)
  <1> SUFFICES ASSUME NEW q \in Queries
               PROVE  /\ ph[q] = "new" => ~ Holds(u, q)
                      /\ ph[q] = "ended" /\ q \notin lt /\ Holds(u, q) => u.queries[q].fence = u.fence
                      /\ ph[q] = "freed" /\ q \notin lt => ~ Holds(u, q)
    BY DEF Lived
  <1>1. Holds(u, q) => Holds(s, q) /\ u.fence = s.fence
    BY DEF Moves
  <1>2. u.queries[q].fence = s.queries[q].fence
    BY DEF Moves, FencesKept
  <1> QED BY <1>1, <1>2 DEF Lived

\* What is right for n calls is right for one more.
LEMMA GoodMore ==
  ASSUME NEW s, NEW n \in Nat, Good(s, n) PROVE Good(s, n + 1)
  <1>1. s \in LpStates /\ Numbers(s, n) /\ s.disabled \in SUBSET Nat
    BY DEF Good, Scene, LpStates
  <1>2. \A k \in s.disabled : k <= n + 1
    BY <1>1 DEF Numbers
  <1>3. ASSUME NEW t \in Tiles, NEW i \in 1 .. Len(s.bins[t]), s.bins[t][i] \in DrawCommands
        PROVE  s.bins[t][i].arg.n <= n + 1
    <2>1. s.bins[t][i].arg.n \in Nat /\ s.bins[t][i].arg.n <= n
      BY <1>1, <1>3 DEF Numbers, DrawCommands
    <2> QED BY <2>1
  <1>4. Numbers(s, n + 1)
    BY <1>2, <1>3 DEF Numbers
  <1> QED BY <1>4 DEF Good

\* A flush, or none.
LEMMA MaybeFlush ==
  ASSUME NEW s, NEW n, Good(s, n), Plain(s), NEW u, u = s \/ u = SetupFlush(s)
  PROVE  /\ Good(u, n) /\ Plain(u) /\ Keeps(s, u, {}) /\ Moves(s, u, {})
         /\ u # s => u.state = "FLUSHED"
  <1>1. Scene(s)
    BY DEF Good
  <1>2. CASE u = s
    <2>1. Keeps(s, u, {})
      BY <1>2, KeepsSelf
    <2> QED BY <1>2, <2>1, KeepsMoves
  <1>3. CASE u = SetupFlush(s)
    <2>1. Good(u, n) /\ Keeps(s, u, {}) /\ u.state = "FLUSHED"
      BY <1>1, <1>3, FlushEffect
    <2> QED BY <2>1, KeepsMoves
  <1> QED BY <1>2, <1>3

\* Only an ACTIVE scene has commands of queries.
LEMMA HoldsActive ==
  ASSUME NEW s, Scene(s), NEW q, Holds(s, q)
  PROVE  s.state = "ACTIVE" /\ s.fence = s.scenes /\ s.done < s.scenes
  <1>1. s.state = "ACTIVE"
    <2>1. SUFFICES ASSUME s.state # "ACTIVE" PROVE FALSE
      OBVIOUS
    <2>2. s.bins = [t \in Tiles |-> <<>>]
      BY <2>1 DEF Scene, Phases, Empty
    <2>3. \A t \in Tiles : Len(s.bins[t]) = 0
      BY <2>2
    <2> QED BY <2>3 DEF Holds
  <1> QED BY <1>1 DEF Scene, Phases

\* lp_setup_create establishes the invariant.
LEMMA InvInit == Init => Inv
  <1> SUFFICES ASSUME Init PROVE Inv
    OBVIOUS
  <1> DEFINE empty == <<>>
             zero == 0
             mem == [f \in Framebuffers |-> [t \in Tiles |-> EmptyTile]]
             bins == [t \in Tiles |-> empty]
             tail == [t \in Tiles |-> CmdBlockMax]
             last == [t \in Tiles |-> Null]
             queries == [q \in Queries |-> NewQuery]
             ver == [x \in Textures \cup {NoTexture} |-> zero]
  <1>1. PICK fb \in Framebuffers :
          lp = [state |-> "FLUSHED", fb |-> fb, tex |-> NoTexture, stored |-> Null,
                clear |-> NoClear, active |-> {}, ok |-> TRUE,
                bins |-> bins, tail |-> tail, last_state |-> last, used |-> zero, refs |-> {},
                fence |-> zero, disabled |-> {}, had_queries |-> FALSE,
                scenes |-> zero, done |-> zero, queries |-> queries, ver |-> ver, mem |-> mem]
    BY DEF Init
  <1>2. EmptyTile \in Pictures /\ EmptyTile = [b \in Buffers |-> <<>>]
    BY PicturesInhabited DEF EmptyTile
  <1>3. NewQuery \in QueryTypes
    BY DEF NewQuery, QueryTypes
  <1>4. /\ bins \in [Tiles -> Seq(CommandTypes)] /\ tail \in [Tiles -> 0 .. CmdBlockMax]
        /\ last \in [Tiles -> RastStates] /\ queries \in [Queries -> QueryTypes]
        /\ ver \in [TexOrNone -> Nat] /\ mem \in Memories
    <2>1. empty \in Seq(CommandTypes) /\ zero \in Nat /\ CmdBlockMax \in 0 .. CmdBlockMax
      BY Constants
    <2> QED BY <1>2, <1>3, <2>1, NullTyped DEF TexOrNone, Memories
  <1>5. /\ bins = [t \in Tiles |-> <<>>] /\ tail = [t \in Tiles |-> CmdBlockMax]
        /\ last = [t \in Tiles |-> Null] /\ \A f \in Framebuffers, t \in Tiles : mem[f][t] = EmptyTile
    OBVIOUS
  <1>6. pic = mem /\ ops = 0 /\ phase = [q \in Queries |-> "new"]
    BY DEF Init
  <1>7. zero \in Nat /\ zero \in 0 .. Room /\ zero = 0
    BY Constants
  <1> HIDE DEF empty, zero, mem, bins, tail, last, queries, ver
  <1>8. Null \in RastStates /\ NoClear \in ClearValues /\ NoTexture \in TexOrNone
    BY NullTyped DEF TexOrNone
  <1>9. lp \in LpStates
    BY <1>1, <1>4, <1>7, <1>8 DEF LpStates, Memories
  <1>10. /\ lp.state = "FLUSHED" /\ lp.fb = fb /\ lp.stored = Null /\ lp.clear = NoClear
         /\ lp.bins = bins /\ lp.tail = tail /\ lp.last_state = last /\ lp.used = zero
         /\ lp.refs = {}
    BY <1>1
  <1>11. /\ lp.disabled = {} /\ lp.fence = zero /\ lp.scenes = zero /\ lp.done = zero /\ lp.mem = mem
    BY <1>1
  <1>12. Empty(lp)
    BY <1>5, <1>7, <1>10, <1>11 DEF Empty
  <1>13. Phases(lp)
    <2>1. DOMAIN lp.clear \subseteq BuffersOf(lp.fb)
      BY <1>10, NullTyped
    <2>2. lp.done <= lp.scenes
      BY <1>7, <1>11
    <2> QED BY <1>10, <1>12, <2>1, <2>2 DEF Phases
  <1>14. \A t \in Tiles : lp.bins[t] = <<>> /\ lp.last_state[t] = Null
    BY <1>5, <1>10
  <1>15. lp.stored.tex \in lp.refs \cup {NoTexture}
    BY <1>10 DEF Null
  <1>16. /\ StatesMatch(lp) /\ Numbers(lp, ops) /\ (\A q : ~ Holds(lp, q)) /\ Referenced(lp)
         /\ \A t \in Tiles : Run(lp, t).tile = lp.mem[lp.fb][t]
    BY <1>9, <1>11, <1>14, <1>15, EmptyBins
  <1>17. Good(lp, ops)
    BY <1>9, <1>13, <1>16 DEF Good, Scene
  <1>18. ASSUME NEW t \in Tiles PROVE Shown(lp, t) = EmptyTile
    <2>1. Run(lp, t).tile = EmptyTile
      BY <1>5, <1>10, <1>11, <1>16
    <2> QED BY <1>2, <1>8, <1>10, <2>1, PaintClearFacts DEF Shown
  <1>19. Pictured(lp, pic)
    BY <1>5, <1>6, <1>10, <1>11, <1>18 DEF Pictured
  <1>20. Plain(lp)
    <2>1. \A b \in ZsBuffers : EmptyTile[b] = <<>>
      BY <1>2 DEF Buffers
    <2> QED BY <1>5, <1>11, <1>18, <2>1 DEF Plain
  <1>21. Lived(lp, phase, late)
    BY <1>6, <1>16 DEF Lived
  <1>22. phase \in [Queries -> {"new", "active", "ended", "freed"}] /\ ops \in Nat /\ pic \in Memories
    BY <1>4, <1>6
  <1> QED BY <1>17, <1>19, <1>20, <1>21, <1>22 DEF Inv

\* Calls that paint in the bound framebuffer.
LEMMA PaintedKept ==
  ASSUME NEW s, s.fb \in Framebuffers, NEW p \in Memories, Pictured(s, p), NEW u, Moves(s, u, {}),
         NEW new \in [Tiles -> Pictures], \A t \in Tiles : Shown(u, t) = new[t],
         NEW r, r = [p EXCEPT ![s.fb] = new]
  PROVE  r \in Memories /\ Pictured(u, r)
  <1>1. r \in Memories
    BY DEF Memories
  <1>2. r[s.fb] = new /\ \A f \in Framebuffers \ {s.fb} : r[f] = p[f]
    BY DEF Memories
  <1>3. u.fb = s.fb /\ \A f \in Framebuffers \ {s.fb}, t \in Tiles : u.mem[f][t] = s.mem[f][t]
    BY DEF Moves
  <1>4. Pictured(u, r)
    BY <1>2, <1>3 DEF Pictured
  <1> QED BY <1>1, <1>4

\* lp_setup_clear keeps it.
LEMMA InvClear ==
  ASSUME Inv, NEW bufs \in Clears, Clear(bufs) PROVE Inv'
  <1> DEFINE n == ops + 1
             vals == ClearTo(bufs, n)
             new == [t \in Tiles |-> PaintClear(pic[lp.fb][t], vals)]
             u == SetupClear(lp, bufs, n)
  <1>1. /\ ops \in Nat /\ Good(lp, ops) /\ Plain(lp) /\ pic \in Memories /\ Pictured(lp, pic)
        /\ Lived(lp, phase, late)
    BY DEF Inv
  <1>2. /\ ops' = n /\ lp' = u /\ bufs \subseteq BuffersOf(lp.fb)
        /\ pic' = [pic EXCEPT ![lp.fb] = new] /\ phase' = phase /\ late' = late
    BY <1>1 DEF Clear, Call, ClearTo, Memories
  <1>3. bufs \in SUBSET Buffers /\ n \in Nat
    BY <1>1, NamesAssumption
  <1>4. lp \in LpStates /\ lp.fb \in Framebuffers
    BY <1>1 DEF Good, Scene, LpStates
  <1> HIDE DEF n
  <1>5. /\ Good(u, ops) /\ Plain(u) /\ Moves(lp, u, {})
        /\ \A t \in Tiles : Shown(u, t) = PaintClear(Shown(lp, t), ClearTo(bufs, n))
    BY <1>1, <1>2, <1>3, ClearEffect
  <1>6. vals \in ClearValues
    BY <1>3 DEF ClearTo, ClearValues
  <1> HIDE DEF u, vals
  <1>7. new \in [Tiles -> Pictures]
    <2>1. \A t \in Tiles : pic[lp.fb][t] \in Pictures
      BY <1>1, <1>4 DEF Memories
    <2> QED BY <1>6, <2>1, PaintTyped
  <1>8. \A t \in Tiles : Shown(u, t) = new[t]
    BY <1>1, <1>5 DEF Pictured, vals
  <1> HIDE DEF new
  <1>9. pic' \in Memories /\ Pictured(u, pic')
    BY <1>1, <1>2, <1>4, <1>5, <1>7, <1>8, PaintedKept
  <1>10. Good(u, n)
    BY <1>1, <1>5, GoodMore DEF n
  <1>11. Lived(u, phase, late)
    BY <1>1, <1>5, LivedMoves
  <1>12. phase \in [Queries -> {"new", "active", "ended", "freed"}]
    BY DEF Inv
  <1> QED BY <1>2, <1>3, <1>5, <1>9, <1>10, <1>11, <1>12 DEF Inv

\* What a triangle makes of a picture is a picture.
LEMMA DrawnTyped ==
  ASSUME NEW s \in LpStates, NEW p \in Pictures, NEW t \in Tiles, NEW d \in Triangles, NEW n \in Nat
  PROVE  DrawnOn(s, p, t, d, n) \in Pictures
  <1> DEFINE paint == Paint(n, d.tex, s.ver[d.tex])
  <1>1. d.tex \in TexOrNone /\ s.ver[d.tex] \in Nat
    BY DEF Triangles, TexOrNone, LpStates
  <1>2. paint \in Paints
    BY <1>1 DEF Paint, Paints
  <1> HIDE DEF paint
  <1>3. \A bufs, whole, opaque : PaintDraw(p, bufs, whole, opaque, paint) \in Pictures
    BY <1>2, PaintTyped
  <1>4. DrawnOn(s, p, t, d, n) = IF d.cover[t] = "none" THEN p
          ELSE PaintDraw(p, BuffersOf(s.fb), d.cover[t] = "whole", d.opaque, paint)
    BY DEF DrawnOn, paint
  <1> QED BY <1>3, <1>4

\* A draw keeps the invariant.
LEMMA InvDraw ==
  ASSUME Inv, NEW d \in Draws, Draw(d) PROVE Inv'
  <1> DEFINE n == ops + 1
             new == [t \in Tiles |-> DrawnOn(lp, pic[lp.fb][t], t, d, n)]
             u == DrawTriangle(lp, d, n)
  <1>1. /\ ops \in Nat /\ Good(lp, ops) /\ Plain(lp) /\ pic \in Memories /\ Pictured(lp, pic)
        /\ Lived(lp, phase, late)
    BY DEF Inv
  <1>2. /\ ops' = n /\ lp' = u
        /\ pic' = [pic EXCEPT ![lp.fb] = new] /\ phase' = phase /\ late' = late
    BY <1>1 DEF Draw, Call, DrawnOn, Memories
  <1>3. d \in Triangles /\ n \in Nat
    BY <1>1, NamesAssumption
  <1>4. lp \in LpStates /\ lp.fb \in Framebuffers
    BY <1>1 DEF Good, Scene, LpStates
  <1>5. /\ Good(u, n) /\ Plain(u) /\ Moves(lp, u, {})
        /\ \A t \in Tiles : Shown(u, t) = DrawnOn(lp, Shown(lp, t), t, d, n)
    BY <1>1, <1>3, DrawEffect
  <1> HIDE DEF u, n
  <1>6. new \in [Tiles -> Pictures]
    <2>1. \A t \in Tiles : pic[lp.fb][t] \in Pictures
      BY <1>1, <1>4 DEF Memories
    <2> QED BY <1>3, <1>4, <2>1, DrawnTyped
  <1>7. \A t \in Tiles : Shown(u, t) = new[t]
    BY <1>1, <1>5 DEF Pictured
  <1> HIDE DEF new
  <1>8. pic' \in Memories /\ Pictured(u, pic')
    BY <1>1, <1>2, <1>4, <1>5, <1>6, <1>7, PaintedKept
  <1>9. Lived(u, phase, late)
    BY <1>1, <1>5, LivedMoves
  <1>10. phase \in [Queries -> {"new", "active", "ended", "freed"}]
    BY DEF Inv
  <1> QED BY <1>2, <1>3, <1>5, <1>8, <1>9, <1>10 DEF Inv

\* A call that only flushes, or does not even that.
LEMMA InvFlush ==
  ASSUME Inv, lp' = lp \/ lp' = SetupFlush(lp), UNCHANGED <<ops, pic, phase, late>>
  PROVE  Inv'
  <1>1. /\ Good(lp, ops) /\ Plain(lp) /\ Pictured(lp, pic) /\ Lived(lp, phase, late)
    BY DEF Inv
  <1>2. Good(lp', ops) /\ Plain(lp') /\ Keeps(lp, lp', {}) /\ Moves(lp, lp', {})
    BY <1>1, MaybeFlush
  <1>3. Pictured(lp', pic) /\ Lived(lp', phase, late)
    BY <1>1, <1>2, PicturedKept, LivedMoves
  <1> QED BY <1>2, <1>3 DEF Inv

\* llvmpipe_get_query_result keeps it: it flushes or does nothing.
LEMMA InvGetQueryResult ==
  ASSUME Inv, NEW q \in Queries, GetQueryResult(q) PROVE Inv'
  BY InvFlush DEF GetQueryResult, ResultFlush

\* llvmpipe_flush keeps it.
LEMMA InvFlushCall ==
  ASSUME Inv, Flush PROVE Inv'
  BY InvFlush DEF Flush

\* Mapping for reading keeps it: it flushes or does nothing.
LEMMA InvMapRead ==
  ASSUME Inv, NEW r, MapRead(r) PROVE Inv'
  BY InvFlush DEF MapRead, MapFlush

\* The fence of a query tells whether a scene that waits has commands of it.
LEMMA InvDestroyQuery ==
  ASSUME Inv, NEW q \in Queries, DestroyQuery(q) PROVE Inv'
  <1>1. /\ Good(lp, ops) /\ Scene(lp) /\ Plain(lp) /\ Pictured(lp, pic) /\ Lived(lp, phase, late)
        /\ phase \in [Queries -> {"new", "active", "ended", "freed"}]
    BY DEF Inv, Good
  <1>2. /\ ops' = ops /\ phase[q] \in {"new", "ended"} /\ lp' = DestroyFlush(lp, q)
        /\ phase' = [phase EXCEPT ![q] = "freed"] /\ pic' = pic /\ late' = late
    BY DEF DestroyQuery
  <1>3. lp' = IF lp.queries[q].fence <= lp.done THEN lp ELSE SetupFlush(lp)
    BY <1>2 DEF DestroyFlush, Issued
  <1>4. Good(lp', ops) /\ Plain(lp') /\ Keeps(lp, lp', {}) /\ Moves(lp, lp', {})
    BY <1>1, <1>3, MaybeFlush
  <1>5. Pictured(lp', pic) /\ Lived(lp', phase, late)
    BY <1>1, <1>4, PicturedKept, LivedMoves
  <1>6. ASSUME q \notin late PROVE ~ Holds(lp', q)
    <2>1. CASE lp.queries[q].fence <= lp.done
      <3>1. lp' = lp
        BY <1>3, <2>1
      <3>2. SUFFICES ASSUME Holds(lp, q) PROVE FALSE
        BY <3>1
      <3>3. lp.fence = lp.scenes /\ lp.done < lp.scenes
        BY <1>1, <3>2, HoldsActive
      <3>4. phase[q] = "ended" /\ lp.queries[q].fence = lp.fence
        BY <1>1, <1>2, <1>6, <3>2 DEF Lived
      <3>5. lp.done \in Nat /\ lp.scenes \in Nat
        BY <1>1 DEF Scene, LpStates
      <3> QED BY <2>1, <3>3, <3>4, <3>5
    <2>2. CASE ~ (lp.queries[q].fence <= lp.done)
      BY <1>1, <1>3, <2>2, FlushEffect
    <2> QED BY <2>1, <2>2
  <1>7. Lived(lp', phase', late)
    <2> SUFFICES ASSUME NEW p \in Queries
                 PROVE  /\ phase'[p] = "new" => ~ Holds(lp', p)
                        /\ phase'[p] = "ended" /\ p \notin late /\ Holds(lp', p) =>
                             lp'.queries[p].fence = lp'.fence
                        /\ phase'[p] = "freed" /\ p \notin late => ~ Holds(lp', p)
      BY DEF Lived
    <2>1. CASE p = q
      BY <1>1, <1>2, <1>6, <2>1
    <2>2. CASE p # q
      BY <1>1, <1>2, <1>5, <2>2 DEF Lived
    <2> QED BY <2>1, <2>2
  <1>8. phase' \in [Queries -> {"new", "active", "ended", "freed"}]
    BY <1>1, <1>2
  <1> QED BY <1>2, <1>4, <1>5, <1>7, <1>8 DEF Inv

\* Another phase of q alone, when the others' commands stay where they were.
LEMMA LivedBut ==
  ASSUME NEW s, NEW ph, NEW lt, Lived(s, ph, lt), NEW q \in Queries, NEW u, NEW ph2, NEW lt2,
         \A p \in Queries \ {q} :
           /\ ph2[p] = ph[p] /\ (p \in lt2 <=> p \in lt)
           /\ u.queries[p].fence = s.queries[p].fence
           /\ Holds(u, p) => Holds(s, p) /\ u.fence = s.fence,
         ph2[q] = "active" \/ (ph2[q] = "ended" /\ (q \notin lt2 => u.queries[q].fence = u.fence))
  PROVE  Lived(u, ph2, lt2)
  <1> SUFFICES ASSUME NEW p \in Queries
               PROVE  /\ ph2[p] = "new" => ~ Holds(u, p)
                      /\ ph2[p] = "ended" /\ p \notin lt2 /\ Holds(u, p) =>
                           u.queries[p].fence = u.fence
                      /\ ph2[p] = "freed" /\ p \notin lt2 => ~ Holds(u, p)
    BY DEF Lived
  <1>1. CASE p = q
    BY <1>1
  <1>2. CASE p # q
    BY <1>2 DEF Lived
  <1> QED BY <1>1, <1>2

\* A query begins to count from nothing.
Zeroed(s, q) == [s.queries EXCEPT ![q].start = 0, ![q].end = 0]

\* Resetting the counters of a query changes nothing else.
LEMMA ZeroedEffect ==
  ASSUME NEW s, NEW n, Good(s, n), NEW q \in Queries, NEW u, u = [s EXCEPT !.queries = Zeroed(s, q)]
  PROVE  Good(u, n) /\ Keeps(s, u, {})
  <1>1. s \in LpStates /\ Scene(s) /\ s.queries \in [Queries -> QueryTypes]
    BY DEF Good, Scene, LpStates
  <1> DEFINE qs == Zeroed(s, q)
  <1>2. qs \in [Queries -> QueryTypes] /\ \A p \in Queries : qs[p].fence = s.queries[p].fence
    BY <1>1 DEF Zeroed, QueryTypes
  <1> HIDE DEF qs
  <1>3. u = [s EXCEPT !.queries = qs]
    BY DEF qs
  <1>4. u \in LpStates /\ u.queries = qs /\ u.tex = s.tex
    BY <1>1, <1>2, <1>3 DEF LpStates
  <1>5. /\ u.state = s.state /\ u.fb = s.fb /\ u.stored = s.stored /\ u.clear = s.clear
        /\ u.bins = s.bins /\ u.tail = s.tail /\ u.last_state = s.last_state
        /\ u.used = s.used /\ u.refs = s.refs /\ u.fence = s.fence
    BY <1>1, <1>3 DEF LpStates
  <1>6. /\ u.disabled = s.disabled /\ u.scenes = s.scenes /\ u.done = s.done
        /\ u.ver = s.ver /\ u.mem = s.mem
    BY <1>1, <1>3 DEF LpStates
  <1>7. FencesKept(s, u)
    BY <1>2, <1>4 DEF FencesKept
  <1> QED BY <1>1, <1>4, <1>5, <1>6, <1>7, EditEffect

\* llvmpipe_begin_query keeps the invariant.
LEMMA InvBeginQuery ==
  ASSUME Inv, NEW q \in Queries, BeginQuery(q) PROVE Inv'
  <1> DEFINE f == ReuseFlush(lp, q)
             e == [f EXCEPT !.queries = Zeroed(f, q)]
             u == SetupBeginQuery(e, q)
  <1>1. /\ ops \in Nat /\ Good(lp, ops) /\ Scene(lp) /\ Plain(lp) /\ pic \in Memories
        /\ Pictured(lp, pic) /\ Lived(lp, phase, late)
        /\ phase \in [Queries -> {"new", "active", "ended", "freed"}]
    BY DEF Inv, Good
  <1>2. f = lp \/ f = SetupFlush(lp)
    BY DEF ReuseFlush
  <1>3. Good(f, ops) /\ Plain(f) /\ Keeps(lp, f, {})
    BY <1>1, <1>2, MaybeFlush
  <1>4. f.queries \in [Queries -> QueryTypes]
    BY <1>3 DEF Good, Scene, LpStates
  <1>5. /\ ops' = ops + 1 /\ phase' = [phase EXCEPT ![q] = "active"] /\ pic' = pic /\ late' = late
        /\ lp' = SetupBeginQuery([f EXCEPT !.queries[q].start = 0, !.queries[q].end = 0], q)
    BY DEF BeginQuery, Call
  <1>6. lp' = u
    BY <1>5 DEF Zeroed
  <1> HIDE DEF f
  <1>7. Good(e, ops) /\ Keeps(f, e, {})
    BY <1>3, ZeroedEffect
  <1> HIDE DEF e
  <1>8. Good(u, ops) /\ Keeps(e, u, {q})
    BY <1>7, BeginQueryEffect
  <1> HIDE DEF u
  <1>9. Keeps(lp, u, {q})
    <2>1. Keeps(lp, f, {q}) /\ Keeps(f, e, {q})
      BY <1>3, <1>7, KeepsMore
    <2>2. Keeps(lp, e, {q})
      BY <2>1, KeepsTrans
    <2> QED BY <1>8, <2>2, KeepsTrans
  <1>10. Plain(u) /\ Pictured(u, pic) /\ Moves(lp, u, {q})
    BY <1>1, <1>9, KeepsMoves, PicturedKept
  <1>11. Good(u, ops + 1)
    BY <1>1, <1>8, GoodMore
  <1>12. phase' \in [Queries -> {"new", "active", "ended", "freed"}] /\ phase'[q] = "active"
         /\ \A p \in Queries \ {q} : phase'[p] = phase[p]
    BY <1>1, <1>5
  <1>13. Lived(u, phase', late')
    <2>1. \A p \in Queries \ {q} : /\ u.queries[p].fence = lp.queries[p].fence
                                   /\ Holds(u, p) => Holds(lp, p) /\ u.fence = lp.fence
      BY <1>10 DEF Moves, FencesKept
    <2>2. \A p \in Queries \ {q} :
            /\ phase'[p] = phase[p] /\ (p \in late' <=> p \in late)
            /\ u.queries[p].fence = lp.queries[p].fence
            /\ Holds(u, p) => Holds(lp, p) /\ u.fence = lp.fence
      BY <1>5, <1>12, <2>1
    <2>3. phase'[q] = "active" /\ Lived(lp, phase, late)
      BY <1>1, <1>12
    <2> QED BY <2>2, <2>3, LivedBut
  <1> QED BY <1>1, <1>5, <1>6, <1>10, <1>11, <1>12, <1>13 DEF Inv

\* llvmpipe_end_query keeps it.  Either the command is in the scene whose fence the
\* query took, or the query is late.
LEMMA InvEndQuery ==
  ASSUME Inv, NEW q \in Queries, EndQuery(q) PROVE Inv'
  <1>1. /\ ops \in Nat /\ Good(lp, ops) /\ Plain(lp) /\ pic \in Memories
        /\ Pictured(lp, pic) /\ Lived(lp, phase, late)
        /\ phase \in [Queries -> {"new", "active", "ended", "freed"}]
    BY DEF Inv
  <1>2. /\ ops' = ops + 1 /\ phase' = [phase EXCEPT ![q] = "ended"] /\ pic' = pic
        /\ lp' = SetupEndQuery(lp, q)
        /\ late' = IF lp'.queries[q].fence # lp'.fence THEN late \cup {q} ELSE late \ {q}
    BY DEF EndQuery, Call
  <1>3. /\ Good(lp', ops) /\ Plain(lp') /\ lp'.fb = lp.fb
        /\ \A f \in Framebuffers \ {lp.fb}, t \in Tiles : lp'.mem[f][t] = lp.mem[f][t]
        /\ \A t \in Tiles : Shown(lp', t) = Shown(lp, t)
        /\ \A p \in Queries \ {q} : lp'.queries[p].fence = lp.queries[p].fence
        /\ \A p : Holds(lp', p) => p = q \/ (Holds(lp, p) /\ lp'.fence = lp.fence)
    BY <1>1, <1>2, EndQueryEffect
  <1>4. Good(lp', ops + 1)
    BY <1>1, <1>3, GoodMore
  <1>5. Pictured(lp', pic)
    BY <1>1, <1>3 DEF Pictured
  <1>6. phase' \in [Queries -> {"new", "active", "ended", "freed"}] /\ phase'[q] = "ended"
        /\ \A p \in Queries \ {q} : phase'[p] = phase[p]
    BY <1>1, <1>2
  <1>7. /\ \A p \in Queries \ {q} : p \in late' <=> p \in late
        /\ q \notin late' => lp'.queries[q].fence = lp'.fence
    BY <1>2
  <1>8. Lived(lp', phase', late')
    BY <1>1, <1>3, <1>6, <1>7, LivedBut
  <1> QED BY <1>1, <1>2, <1>3, <1>4, <1>5, <1>6, <1>8 DEF Inv

\* An empty scene shows what is in memory.
LEMMA FlushedShown ==
  ASSUME NEW s, Scene(s), s.state = "FLUSHED", NEW t \in Tiles
  PROVE  Shown(s, t) = s.mem[s.fb][t]
  <1>1. s \in LpStates /\ s.clear = NoClear /\ Empty(s)
    BY DEF Scene, Phases
  <1>2. s.disabled = {} /\ \A k \in Tiles : s.bins[k] = <<>> /\ s.last_state[k] = Null
    BY <1>1 DEF Empty
  <1>3. Run(s, t).tile = s.mem[s.fb][t]
    BY <1>1, <1>2, EmptyBins
  <1>4. s.mem[s.fb][t] \in Pictures
    BY <1>1, BinTyped
  <1> QED BY <1>1, <1>3, <1>4, PaintClearFacts, NullTyped DEF Shown

\* A scene without anything in it, for any framebuffer and any memory.
LEMMA FlushedGood ==
  ASSUME NEW s, Scene(s), s.state = "FLUSHED", NEW u \in LpStates, u.state = s.state,
         u.stored = s.stored, u.clear = s.clear, u.bins = s.bins, u.tail = s.tail,
         u.last_state = s.last_state, u.used = s.used, u.refs = s.refs,
         u.disabled = s.disabled, u.scenes = s.scenes, u.done = s.done, NEW n
  PROVE  Good(u, n) /\ \A q : ~ Holds(u, q)
  <1>1. s \in LpStates /\ s.clear = NoClear /\ Empty(s) /\ s.done <= s.scenes
    BY DEF Scene, Phases
  <1>2. Empty(u)
    BY <1>1 DEF Empty
  <1>3. u.disabled = {} /\ \A k \in Tiles : u.bins[k] = <<>> /\ u.last_state[k] = Null
    BY <1>2 DEF Empty
  <1>4. u.stored.tex \in u.refs \cup {NoTexture}
    BY <1>2 DEF Empty, Null
  <1>5. StatesMatch(u) /\ Numbers(u, n) /\ (\A q : ~ Holds(u, q)) /\ Referenced(u)
    BY <1>3, <1>4, EmptyBins
  <1>6. DOMAIN u.clear \subseteq BuffersOf(u.fb)
    BY <1>1, NullTyped
  <1>7. Phases(u)
    BY <1>1, <1>2, <1>6 DEF Phases
  <1> QED BY <1>5, <1>7 DEF Good, Scene

\* lp_setup_bind_framebuffer keeps it: what was shown has been written by the flush.
LEMMA InvBindFramebuffer ==
  ASSUME Inv, NEW fb \in Framebuffers, BindFramebuffer(fb) PROVE Inv'
  <1> DEFINE s == SetupFlush(lp)
             u == [s EXCEPT !.fb = fb]
  <1>1. /\ ops \in Nat /\ Good(lp, ops) /\ Scene(lp) /\ Plain(lp) /\ pic \in Memories
        /\ Pictured(lp, pic) /\ Lived(lp, phase, late)
        /\ phase \in [Queries -> {"new", "active", "ended", "freed"}]
    BY DEF Inv, Good
  <1>2. ops' = ops /\ lp' = u /\ pic' = pic /\ phase' = phase /\ late' = late /\ fb # lp.fb
    BY DEF BindFramebuffer
  <1>3. /\ Scene(s) /\ s.state = "FLUSHED" /\ Keeps(lp, s, {}) /\ Plain(s)
        /\ \A t \in Tiles : s.mem[lp.fb][t] = Shown(lp, t)
    BY <1>1, FlushEffect, KeepsMoves
  <1> HIDE DEF s
  <1>4. s \in LpStates
    BY <1>3 DEF Scene
  <1>5. u \in LpStates
    BY <1>4 DEF LpStates
  <1>6. /\ u.fb = fb /\ u.state = s.state /\ u.stored = s.stored /\ u.clear = s.clear
        /\ u.bins = s.bins /\ u.tail = s.tail /\ u.last_state = s.last_state
        /\ u.used = s.used /\ u.refs = s.refs
    BY <1>4 DEF LpStates
  <1>7. /\ u.disabled = s.disabled /\ u.scenes = s.scenes /\ u.done = s.done /\ u.mem = s.mem
    BY <1>4 DEF LpStates
  <1> HIDE DEF u
  <1>8. Good(u, ops) /\ \A q : ~ Holds(u, q)
    BY <1>3, <1>5, <1>6, <1>7, FlushedGood
  <1>9. \A t \in Tiles : Shown(u, t) = u.mem[fb][t]
    BY <1>3, <1>6, <1>8, FlushedShown DEF Good
  <1>10. \A f \in Framebuffers, t \in Tiles : u.mem[f][t] = pic[f][t]
    BY <1>1, <1>3, <1>7 DEF Keeps, Pictured
  <1>11. Pictured(u, pic)
    BY <1>6, <1>9, <1>10 DEF Pictured
  <1>12. Plain(u)
    BY <1>3, <1>6, <1>7, <1>9 DEF Plain
  <1>13. Lived(u, phase, late)
    BY <1>8 DEF Lived
  <1> QED BY <1>1, <1>2, <1>8, <1>11, <1>12, <1>13 DEF Inv

\* Memory and textures that the scene does not use may change.
LEMMA OutsideEffect ==
  ASSUME NEW s, NEW n, Good(s, n), NEW u \in LpStates, u.state = s.state, u.fb = s.fb,
         u.stored = s.stored, u.clear = s.clear, u.bins = s.bins, u.tail = s.tail,
         u.last_state = s.last_state, u.used = s.used, u.refs = s.refs, u.fence = s.fence,
         u.disabled = s.disabled, u.scenes = s.scenes, u.done = s.done,
         \A t \in Tiles : u.mem[s.fb][t] = s.mem[s.fb][t],
         \A x \in s.refs \cup {NoTexture} : u.ver[x] = s.ver[x]
  PROVE  /\ Good(u, n) /\ \A t \in Tiles : Shown(u, t) = Shown(s, t)
         /\ \A q : Holds(u, q) <=> Holds(s, q)
  <1>1. s \in LpStates /\ Referenced(s) /\ Phases(s) /\ StatesMatch(s) /\ Numbers(s, n)
    BY DEF Good, Scene
  <1>2. ASSUME NEW t \in Tiles
        PROVE  Run(u, t).tile = Run(s, t).tile /\ Run(u, t).tex = Run(s, t).tex
    <2>1. Len(s.bins[t]) \in Nat
      BY <1>1, BinTyped
    <2>2. \A i \in 1 .. Len(s.bins[t]) :
            s.bins[t][i] \in StateCommands => s.bins[t][i].arg \in s.refs \cup {NoTexture}
      BY <1>1 DEF Referenced
    <2>3. Alike(s, u, t, Len(s.bins[t]))
      BY <2>1, <2>2 DEF Alike
    <2> QED BY <1>1, <2>1, <2>3, AfterAlike DEF Run
  <1>3. Referenced(u)
    BY <1>1 DEF Referenced
  <1>4. Phases(u)
    <2>1. Empty(s) => Empty(u)
      BY DEF Empty
    <2> QED BY <1>1, <2>1 DEF Phases
  <1>5. StatesMatch(u)
    BY <1>1, <1>2 DEF StatesMatch
  <1>6. Numbers(u, n)
    BY <1>1 DEF Numbers
  <1>7. \A t \in Tiles : Shown(u, t) = Shown(s, t)
    BY <1>2 DEF Shown
  <1>8. \A q : Holds(u, q) <=> Holds(s, q)
    BY DEF Holds
  <1> QED BY <1>3, <1>4, <1>5, <1>6, <1>7, <1>8 DEF Good, Scene

\* A new version of a texture that the scene does not refer to.
Renewed(s, r) == [s EXCEPT !.ver[r] = @ + 1]

\* A new version of a texture is not seen by a scene that does not refer to it.
LEMMA NewVersion ==
  ASSUME NEW s, NEW n, Good(s, n), NEW r \in Textures, r \notin s.refs, NEW u,
         u = Renewed(s, r)
  PROVE  /\ Good(u, n) /\ u.fb = s.fb /\ u.mem = s.mem /\ u.queries = s.queries
         /\ u.fence = s.fence /\ \A t \in Tiles : Shown(u, t) = Shown(s, t)
         /\ \A q : Holds(u, q) <=> Holds(s, q)
  <1> DEFINE new == [s.ver EXCEPT ![r] = s.ver[r] + 1]
  <1>1. s \in LpStates /\ s.ver \in [TexOrNone -> Nat] /\ r \in TexOrNone
    BY DEF Good, Scene, LpStates, TexOrNone
  <1>2. new \in [TexOrNone -> Nat] /\ \A x \in TexOrNone : x # r => new[x] = s.ver[x]
    BY <1>1
  <1>3. u = [s EXCEPT !.ver = new]
    BY DEF Renewed
  <1> HIDE DEF new
  <1>4. u \in LpStates /\ u.ver = new /\ u.queries = s.queries /\ u.mem = s.mem
    BY <1>1, <1>2, <1>3 DEF LpStates
  <1>5. /\ u.state = s.state /\ u.fb = s.fb /\ u.stored = s.stored /\ u.clear = s.clear
        /\ u.bins = s.bins /\ u.tail = s.tail /\ u.last_state = s.last_state
        /\ u.used = s.used /\ u.refs = s.refs /\ u.fence = s.fence
    BY <1>1, <1>3 DEF LpStates
  <1>6. u.disabled = s.disabled /\ u.scenes = s.scenes /\ u.done = s.done
    BY <1>1, <1>3 DEF LpStates
  <1>7. \A x \in s.refs \cup {NoTexture} : u.ver[x] = s.ver[x]
    <2>1. s.refs \subseteq Textures /\ r # NoTexture
      BY <1>1, NamesAssumption DEF LpStates
    <2> QED BY <1>2, <1>4, <2>1 DEF TexOrNone
  <1>8. \A t \in Tiles : u.mem[s.fb][t] = s.mem[s.fb][t]
    BY <1>4
  <1>9. /\ Good(u, n) /\ \A t \in Tiles : Shown(u, t) = Shown(s, t)
        /\ \A q : Holds(u, q) <=> Holds(s, q)
    BY <1>4, <1>5, <1>6, <1>7, <1>8, OutsideEffect
  <1> QED BY <1>4, <1>5, <1>9

\* A framebuffer that the CPU has filled.
Colored(p, n) == [p EXCEPT !["c"] = <<ClearPaint(n)>>]
Filled(m, r, n) == [m EXCEPT ![r] = [t \in Tiles |-> Colored(@[t], n)]]
Refilled(s, r, n) == [s EXCEPT !.mem = Filled(@, r, n)]

\* What a fill by the CPU changes in memory.
LEMMA FilledFacts ==
  ASSUME NEW m \in Memories, NEW r \in Framebuffers, NEW n \in Nat, NEW k, k = Filled(m, r, n)
  PROVE  /\ k \in Memories
         /\ \A f \in Framebuffers \ {r} : k[f] = m[f]
         /\ \A t \in Tiles : k[r][t] = Colored(m[r][t], n)
         /\ \A t \in Tiles, b \in ZsBuffers : k[r][t][b] = m[r][t][b]
  <1> DEFINE paint == <<ClearPaint(n)>>
             new == [t \in Tiles |-> [m[r][t] EXCEPT !["c"] = paint]]
  <1>1. paint \in Seq(Paints)
    BY DEF ClearPaint, Paint, Paints, TexOrNone
  <1>2. k = [m EXCEPT ![r] = new]
    BY DEF Filled, Memories, Colored
  <1> HIDE DEF paint
  <1>3. ASSUME NEW t \in Tiles
        PROVE  /\ new[t] \in Pictures /\ new[t] = [m[r][t] EXCEPT !["c"] = paint]
               /\ \A b \in ZsBuffers : new[t][b] = m[r][t][b]
    <2>1. m[r][t] \in Pictures
      BY DEF Memories
    <2>2. new[t] = [m[r][t] EXCEPT !["c"] = paint]
      OBVIOUS
    <2>3. new[t] \in Pictures
      BY <1>1, <2>1, <2>2 DEF Pictures
    <2>4. ASSUME NEW b \in ZsBuffers PROVE new[t][b] = m[r][t][b]
      <3>1. b \in Buffers /\ b # "c"
        BY DEF Buffers, ZsBuffers
      <3> QED BY <2>1, <2>2, <3>1 DEF Pictures
    <2> QED BY <2>2, <2>3, <2>4
  <1>4. new \in [Tiles -> Pictures]
    BY <1>3
  <1> HIDE DEF new
  <1>5. k \in Memories /\ k[r] = new /\ \A f \in Framebuffers \ {r} : k[f] = m[f]
    BY <1>2, <1>4 DEF Memories
  <1> QED BY <1>3, <1>5 DEF paint, Colored

\* A context that does not use r.
Released(s, r) ==
  /\ Good(s, ops) /\ Plain(s) /\ Pictured(s, pic) /\ Lived(s, phase, late)
  /\ s.fb \in Framebuffers /\ r \notin s.refs
  /\ r = s.fb => s.state = "FLUSHED"

\* The flush before the CPU writes.
LEMMA WriteFlush ==
  ASSUME Inv, NEW r, NEW s, s = MapFlush(r, FALSE)
  PROVE  Released(s, r)
  <1>1. /\ ops \in Nat /\ Good(lp, ops) /\ Scene(lp) /\ Plain(lp) /\ Pictured(lp, pic)
        /\ Lived(lp, phase, late)
    BY DEF Inv, Good
  <1>2. s = IF r = lp.fb \/ r \in lp.refs THEN SetupFlush(lp) ELSE lp
    BY DEF MapFlush, NeedsFlush, ReferencedForWrite, ReferencedForRead
  <1>3. Good(s, ops) /\ Plain(s) /\ Keeps(lp, s, {}) /\ Moves(lp, s, {})
    BY <1>1, <1>2, MaybeFlush
  <1>4. Pictured(s, pic) /\ Lived(s, phase, late)
    BY <1>1, <1>3, PicturedKept, LivedMoves
  <1>5. s.fb = lp.fb /\ s.fb \in Framebuffers
    BY <1>1, <1>3 DEF Keeps, Scene, LpStates
  <1>6. CASE r = lp.fb \/ r \in lp.refs
    <2>1. Scene(s) /\ s.state = "FLUSHED"
      BY <1>1, <1>2, <1>6, FlushEffect
    <2>2. s.refs = {}
      BY <2>1 DEF Scene, Phases, Empty
    <2> QED BY <1>3, <1>4, <1>5, <2>1, <2>2 DEF Released
  <1>7. CASE ~ (r = lp.fb \/ r \in lp.refs)
    BY <1>2, <1>3, <1>4, <1>5, <1>7 DEF Released
  <1> QED BY <1>6, <1>7

\* A write to a texture keeps the invariant once no scene refers to the texture.
LEMMA InvWriteTexture ==
  ASSUME Inv, NEW r \in Textures, NEW s, Released(s, r), ops' = ops + 1,
         lp' = Renewed(s, r), UNCHANGED <<pic, phase, late>>
  PROVE  Inv'
  <1>1. /\ Good(s, ops) /\ Plain(s) /\ Pictured(s, pic) /\ Lived(s, phase, late)
        /\ s.fb \in Framebuffers /\ r \notin s.refs
    BY DEF Released
  <1>2. /\ Good(lp', ops) /\ lp'.fb = s.fb /\ lp'.mem = s.mem /\ lp'.queries = s.queries
        /\ lp'.fence = s.fence /\ \A t \in Tiles : Shown(lp', t) = Shown(s, t)
        /\ \A q : Holds(lp', q) <=> Holds(s, q)
    BY <1>1, NewVersion
  <1>3. Plain(lp')
    BY <1>1, <1>2, PlainKept
  <1>4. Pictured(lp', pic) /\ Lived(lp', phase, late)
    BY <1>1, <1>2 DEF Pictured, Lived
  <1>5. /\ ops \in Nat /\ pic \in Memories
        /\ phase \in [Queries -> {"new", "active", "ended", "freed"}]
    BY DEF Inv
  <1>6. Good(lp', ops + 1)
    BY <1>2, <1>5, GoodMore
  <1> QED BY <1>3, <1>4, <1>5, <1>6 DEF Inv

\* A write to a framebuffer keeps it once what was bound for it has been flushed.
LEMMA InvWriteFramebuffer ==
  ASSUME Inv, NEW r \in Framebuffers, NEW s, Released(s, r), ops' = ops + 1,
         lp' = Refilled(s, r, ops + 1), pic' = Filled(pic, r, ops + 1),
         UNCHANGED <<phase, late>>
  PROVE  Inv'
  <1> DEFINE n == ops + 1
             mem == Filled(s.mem, r, n)
             u == [s EXCEPT !.mem = mem]
  <1>0. /\ ops \in Nat /\ pic \in Memories /\ n \in Nat
        /\ phase \in [Queries -> {"new", "active", "ended", "freed"}]
    BY DEF Inv
  <1>1. /\ Good(s, ops) /\ Plain(s) /\ Pictured(s, pic) /\ Lived(s, phase, late)
        /\ s.fb \in Framebuffers /\ (r = s.fb => s.state = "FLUSHED")
    BY DEF Released
  <1>2. lp' = u /\ pic' = Filled(pic, r, n)
    BY DEF Refilled
  <1> HIDE DEF n
  <1>3. s \in LpStates /\ Scene(s) /\ s.mem \in Memories
    BY <1>1 DEF Good, Scene, LpStates, Memories
  <1>11. mem = Filled(s.mem, r, n)
    OBVIOUS
  <1> HIDE DEF mem
  <1>4. /\ mem \in Memories /\ \A f \in Framebuffers \ {r} : mem[f] = s.mem[f]
        /\ \A t \in Tiles : mem[r][t] = Colored(s.mem[r][t], n)
        /\ \A t \in Tiles, b \in ZsBuffers : mem[r][t][b] = s.mem[r][t][b]
    BY <1>0, <1>3, <1>11, FilledFacts
  <1>5. /\ pic' \in Memories /\ \A f \in Framebuffers \ {r} : pic'[f] = pic[f]
        /\ \A t \in Tiles : pic'[r][t] = Colored(pic[r][t], n)
    BY <1>0, <1>2, FilledFacts
  <1>6. u \in LpStates
    BY <1>3, <1>4 DEF LpStates, Memories
  <1>7. /\ u.state = s.state /\ u.fb = s.fb /\ u.stored = s.stored /\ u.clear = s.clear
        /\ u.bins = s.bins /\ u.tail = s.tail /\ u.last_state = s.last_state
        /\ u.used = s.used /\ u.refs = s.refs /\ u.fence = s.fence
    BY <1>3 DEF LpStates
  <1>8. /\ u.disabled = s.disabled /\ u.scenes = s.scenes /\ u.done = s.done /\ u.ver = s.ver
        /\ u.queries = s.queries /\ u.mem = mem
    BY <1>3 DEF LpStates
  <1> HIDE DEF u
  <1>9. /\ Good(u, ops) /\ Lived(u, phase, late) /\ Plain(u) /\ Pictured(u, pic')
    <2>1. CASE r # s.fb
      <3>1. /\ \A t \in Tiles : u.mem[s.fb][t] = s.mem[s.fb][t]
            /\ \A x \in s.refs \cup {NoTexture} : u.ver[x] = s.ver[x]
        BY <1>1, <1>4, <1>8, <2>1
      <3>2. /\ Good(u, ops) /\ \A t \in Tiles : Shown(u, t) = Shown(s, t)
            /\ \A q : Holds(u, q) <=> Holds(s, q)
        BY <1>1, <1>6, <1>7, <1>8, <3>1, OutsideEffect
      <3>3. Lived(u, phase, late)
        BY <1>1, <1>7, <1>8, <3>2 DEF Lived
      <3>4. Plain(u)
        <4> SUFFICES ASSUME NEW f \in Framebuffers \ ZsBound, NEW t \in Tiles, NEW b \in ZsBuffers
                     PROVE  u.mem[f][t][b] = <<>> /\ (f = u.fb => Shown(u, t)[b] = <<>>)
          BY DEF Plain
        <4>1. s.mem[f][t][b] = <<>> /\ (f = s.fb => Shown(s, t)[b] = <<>>)
          BY <1>1 DEF Plain
        <4>2. u.mem[f][t][b] = s.mem[f][t][b]
          BY <1>4, <1>8
        <4> QED BY <1>7, <3>2, <4>1, <4>2
      <3>5. Pictured(u, pic')
        <4>1. \A t \in Tiles : Shown(u, t) = pic'[u.fb][t]
          BY <1>1, <1>5, <1>7, <2>1, <3>2 DEF Pictured
        <4>2. ASSUME NEW f \in Framebuffers \ {u.fb}, NEW t \in Tiles
              PROVE  u.mem[f][t] = pic'[f][t]
          <5>1. s.mem[f][t] = pic[f][t]
            BY <1>1, <1>7 DEF Pictured
          <5>2. CASE f = r
            BY <1>4, <1>5, <1>8, <5>1, <5>2
          <5>3. CASE f # r
            BY <1>4, <1>5, <1>8, <5>1, <5>3
          <5> QED BY <5>2, <5>3
        <4> QED BY <4>1, <4>2 DEF Pictured
      <3> QED BY <3>2, <3>3, <3>4, <3>5
    <2>2. CASE r = s.fb
      <3>1. s.state = "FLUSHED"
        BY <1>1, <2>2
      <3>2. Good(u, ops) /\ \A q : ~ Holds(u, q)
        BY <1>3, <1>6, <1>7, <1>8, <3>1, FlushedGood
      <3>3. Lived(u, phase, late)
        BY <3>2 DEF Lived
      <3>4. \A t \in Tiles : Shown(u, t) = mem[r][t] /\ Shown(s, t) = s.mem[r][t]
        BY <1>3, <1>7, <1>8, <2>2, <3>1, <3>2, FlushedShown DEF Good
      <3>5. Plain(u)
        <4> SUFFICES ASSUME NEW f \in Framebuffers \ ZsBound, NEW t \in Tiles, NEW b \in ZsBuffers
                     PROVE  u.mem[f][t][b] = <<>> /\ (f = u.fb => Shown(u, t)[b] = <<>>)
          BY DEF Plain
        <4>1. s.mem[f][t][b] = <<>>
          BY <1>1 DEF Plain
        <4>2. u.mem[f][t][b] = s.mem[f][t][b]
          BY <1>4, <1>8
        <4> QED BY <1>7, <1>8, <2>2, <3>4, <4>1, <4>2
      <3>6. Pictured(u, pic')
        <4>1. ASSUME NEW t \in Tiles PROVE Shown(u, t) = pic'[u.fb][t]
          <5>1. s.mem[r][t] = pic[r][t]
            BY <1>1, <2>2, <3>4 DEF Pictured
          <5> QED BY <1>4, <1>5, <1>7, <2>2, <3>4, <5>1
        <4>2. ASSUME NEW f \in Framebuffers \ {u.fb}, NEW t \in Tiles
              PROVE  u.mem[f][t] = pic'[f][t]
          <5>1. s.mem[f][t] = pic[f][t] /\ f # r
            BY <1>1, <1>7, <2>2 DEF Pictured
          <5> QED BY <1>4, <1>5, <1>8, <5>1
        <4> QED BY <4>1, <4>2 DEF Pictured
      <3> QED BY <3>2, <3>3, <3>5, <3>6
    <2> QED BY <2>1, <2>2
  <1>10. Good(u, n)
    BY <1>0, <1>9, GoodMore DEF n
  <1> QED BY <1>0, <1>2, <1>5, <1>9, <1>10 DEF Inv, n

\* Mapping for writing keeps it: llvmpipe_flush_resource has seen to what the two
\* lemmas above need.
LEMMA InvMapWrite ==
  ASSUME Inv, NEW r \in Textures \cup Framebuffers, MapWrite(r) PROVE Inv'
  <1> DEFINE s == MapFlush(r, FALSE)
  <1>1. ops' = ops + 1 /\ phase' = phase /\ late' = late
    BY DEF MapWrite, Call
  <1>2. \/ r \in Textures /\ lp' = Renewed(s, r) /\ pic' = pic
        \/ r \in Framebuffers /\ lp' = Refilled(s, r, ops + 1)
                              /\ pic' = Filled(pic, r, ops + 1)
    BY <1>1 DEF MapWrite, Filled, Colored, Renewed, Refilled
  <1> HIDE DEF s
  <1>3. Released(s, r)
    BY WriteFlush DEF s
  <1>4. CASE r \in Textures /\ lp' = Renewed(s, r) /\ pic' = pic
    BY <1>1, <1>3, <1>4, InvWriteTexture
  <1>5. CASE r \in Framebuffers /\ lp' = Refilled(s, r, ops + 1)
                                /\ pic' = Filled(pic, r, ops + 1)
    BY <1>1, <1>3, <1>5, InvWriteFramebuffer
  <1> QED BY <1>2, <1>4, <1>5

\* Every call keeps the invariant.
LEMMA InvNext == Inv /\ [Next]_vars => Inv'
  <1> SUFFICES ASSUME Inv, [Next]_vars PROVE Inv'
    OBVIOUS
  <1>1. CASE UNCHANGED vars
    BY <1>1 DEF vars, Inv, Lived, Pictured
  <1>2. ASSUME NEW bufs \in Clears, Clear(bufs) PROVE Inv'
    BY <1>2, InvClear
  <1>3. ASSUME NEW d \in Draws, Draw(d) PROVE Inv'
    BY <1>3, InvDraw
  <1>4. ASSUME NEW q \in Queries, BeginQuery(q) PROVE Inv'
    BY <1>4, InvBeginQuery
  <1>5. ASSUME NEW q \in Queries, EndQuery(q) PROVE Inv'
    BY <1>5, InvEndQuery
  <1>6. ASSUME NEW q \in Queries, GetQueryResult(q) PROVE Inv'
    BY <1>6, InvGetQueryResult
  <1>7. ASSUME NEW q \in Queries, DestroyQuery(q) PROVE Inv'
    BY <1>7, InvDestroyQuery
  <1>8. CASE Flush
    BY <1>8, InvFlushCall
  <1>9. ASSUME NEW fb \in Framebuffers, BindFramebuffer(fb) PROVE Inv'
    BY <1>9, InvBindFramebuffer
  <1>10. ASSUME NEW r \in Textures \cup Framebuffers, MapRead(r) PROVE Inv'
    BY <1>10, InvMapRead
  <1>11. ASSUME NEW r \in Textures \cup Framebuffers, MapWrite(r) PROVE Inv'
    BY <1>11, InvMapWrite
  <1> QED
    BY <1>1, <1>2, <1>3, <1>4, <1>5, <1>6, <1>7, <1>8, <1>9, <1>10, <1>11 DEF Next

-----------------------------------------------------------------------------
(***************************************************************************)
(* The theorems                                                             *)
(***************************************************************************)

\* The scene, the picture and the queries fit together in every state: begin_binning,
\* bins that have run out of memory, resets, disabled triangles and flushes keep Inv.
THEOREM Invariance == Spec => []Inv
  BY InvInit, InvNext, PTL DEF Spec

\* The invariant says what a flush leaves in memory.
LEMMA FlushedPicture ==
  ASSUME Inv
  PROVE  /\ SetupFlush(lp).mem = pic
         /\ \A f \in Framebuffers \ {lp.fb} : lp.mem[f] = pic[f]
  <1> DEFINE u == SetupFlush(lp)
  <1>1. Scene(lp) /\ pic \in Memories /\ Pictured(lp, pic) /\ lp.mem \in Memories
        /\ lp.fb \in Framebuffers
    BY DEF Inv, Good, Scene, LpStates, Memories
  <1>2. Scene(u) /\ Keeps(lp, u, {}) /\ \A t \in Tiles : u.mem[lp.fb][t] = Shown(lp, t)
    BY <1>1, FlushEffect
  <1> HIDE DEF u
  <1>3. u.mem \in Memories
    BY <1>2 DEF Scene, LpStates, Memories
  <1>4. \A f \in Framebuffers, t \in Tiles : u.mem[f][t] = pic[f][t]
    BY <1>1, <1>2 DEF Keeps, Pictured
  <1>5. u.mem = pic
    <2>1. \A f \in Framebuffers : u.mem[f] = pic[f]
      BY <1>1, <1>3, <1>4 DEF Memories
    <2> QED BY <1>1, <1>3, <2>1 DEF Memories
  <1>6. \A f \in Framebuffers \ {lp.fb} : lp.mem[f] = pic[f]
    BY <1>1 DEF Pictured, Memories
  <1> QED BY <1>5, <1>6 DEF u

\* Whatever the bounds of a scene, flushing it gives every framebuffer exactly what
\* the clears, the draws and the writes of the CPU would have left had each been
\* carried out at once.
THEOREM PictureIsExact == Spec => []PictureExact
  <1>1. Inv => PictureExact
    BY FlushedPicture DEF PictureExact
  <1> QED BY <1>1, Invariance, PTL

\* llvmpipe_transfer_map for reading flushes whenever something is missing.
THEOREM ReadersSeeAll == Spec => []MapSeesAll
  <1>1. ASSUME Inv, NEW fb \in Framebuffers PROVE MapFlush(fb, TRUE).mem[fb] = pic[fb]
    <2>1. MapFlush(fb, TRUE) = IF fb = lp.fb THEN SetupFlush(lp) ELSE lp
      BY DEF MapFlush, NeedsFlush, ReferencedForWrite
    <2>2. SetupFlush(lp).mem = pic /\ \A f \in Framebuffers \ {lp.fb} : lp.mem[f] = pic[f]
      BY <1>1, FlushedPicture
    <2> QED BY <2>1, <2>2
  <1>2. Inv => MapSeesAll
    BY <1>1 DEF MapSeesAll
  <1> QED BY <1>2, Invariance, PTL

\* llvmpipe_destroy_query frees no query that a bin still has a command of, unless
\* the fence of its end was taken too early.
THEOREM QueriesStayAlive == Spec => []QueriesAlive
  <1>1. ASSUME Inv, NEW t \in Tiles, NEW i \in DOMAIN lp.bins[t],
               lp.bins[t][i].op \in {"begin", "end"}, lp.bins[t][i].arg \notin late
        PROVE  phase[lp.bins[t][i].arg] # "freed"
    <2> DEFINE cmd == lp.bins[t][i]
    <2>1. lp \in LpStates /\ Lived(lp, phase, late)
      BY <1>1 DEF Inv, Good, Scene
    <2>2. i \in 1 .. Len(lp.bins[t]) /\ cmd \in CommandTypes
      BY <2>1, BinTyped
    <2>3. cmd \in QueryCommands /\ cmd.arg \in Queries
      BY <1>1, <2>2, CommandKinds DEF QueryCommands
    <2>4. Holds(lp, cmd.arg)
      BY <2>2, <2>3 DEF Holds
    <2> QED BY <1>1, <2>1, <2>3, <2>4 DEF Lived
  <1>2. Inv => QueriesAlive
    BY <1>1 DEF QueriesAlive
  <1> QED BY <1>2, Invariance, PTL
=============================================================================
