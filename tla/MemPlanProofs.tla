--------------------------- MODULE MemPlanProofs ---------------------------
(***************************************************************************)
(* Proofs about MemPlan, for every recipe of the kind WellFormed says, any *)
(* slots, layers and devices: sharing buffers never shows in what the      *)
(* operators of a batch compute.                                           *)
(*                                                                         *)
(* The plan looks at graphs of one layer, a batch runs all layers.  The    *)
(* link is LiveSomewhere: a value that an operator of a later layer still  *)
(* awaits is live, in the graph of the layer that is running, because all  *)
(* layers take over the same slots.                                        *)
(***************************************************************************)
EXTENDS MemPlan, TLAPS

All == NodesIn(recipe, Stages)
Position == Stages \X (Nat \ {0})

TypeOK ==
    /\ recipe \in Recipes /\ phase \in {"plan", "run", "idle"}
    /\ turn \in Nat \ {0} /\ rep \in [Slots -> Slots]
    /\ at \in Position
    /\ bind \in [Devices -> [Slots -> Slots]]
    /\ DOMAIN mem = Devices /\ \A d \in Devices : DOMAIN mem[d] = Slots
    /\ DOMAIN ref = Slots

\* Slots that may share a buffer, whatever else they do.
Apart(s, t) ==
    ~Conflict(recipe, s, t) /\ Aliasable(recipe, s) /\ Aliasable(recipe, t)

\* The slots of a buffer; those that are not grouped yet have their own.
Grouped ==
    /\ \A s, t \in Slots : s # t /\ rep[s] = rep[t] => Apart(s, t)
    /\ phase = "plan" =>
           \A i \in DOMAIN Order : i >= turn =>
               \A s \in Slots : rep[s] = Order[i] => s = Order[i]

\* The same of what slots are bound to in a batch.
Bound ==
    phase = "run" =>
        \A d \in Devices : \A s, t \in Slots :
            s # t /\ bind[d][s] = bind[d][t] => Apart(s, t)

\* What is still to be read is there.
Kept ==
    phase = "run" => \A s \in Slots : Awaited(recipe, All, s, at) => Holds(s)

\* So is what operators of the stage leave for each other.
HiddenKept ==
    phase = "run" =>
        \A s \in Slots : \A a, c \in NodesOf(recipe, at[1]) :
            /\ Before(a, at) /\ UpTo(at, c)
            /\ Hides(recipe, s, a) /\ Hides(recipe, s, c)
            => Holds(s)

IInv == TypeOK /\ Grouped /\ Bound /\ Kept /\ HiddenKept

-----------------------------------------------------------------------------
(* Recipes and their nodes.                                                *)

LEMMA RecipeType ==
    ASSUME NEW r \in Recipes
    PROVE  /\ WellFormed(r)
           /\ \A t \in Stages : /\ r[t] \in Seq(Operator)
                                /\ DOMAIN r[t] = 1 .. Len(r[t]) /\ Len(r[t]) \in Nat
  BY RecipeAssumption DEF WellFormed

LEMMA StagesAre ==
    /\ NLayers \in Nat /\ NLayers >= 1
    /\ \A t : t \in Stages <=> t \in Int /\ 0 <= t /\ t <= NLayers + 1
    /\ \A t : t \in Layers <=> t \in Int /\ 1 <= t /\ t <= NLayers
    /\ Pre = 0 /\ Post = NLayers + 1
    /\ Layers \subseteq Stages /\ Pre \in Stages /\ Post \in Stages
  BY PlanAssumption DEF Stages, Layers, Pre, Post

LEMMA NodeType ==
    ASSUME NEW r \in Recipes, NEW T \in SUBSET Stages
    PROVE  \A a : a \in NodesIn(r, T) <=>
                    /\ a = <<a[1], a[2]>> /\ a[1] \in T
                    /\ a[2] \in Nat /\ 1 <= a[2] /\ a[2] <= Len(r[a[1]])
  <1>1. ASSUME NEW a, a \in NodesIn(r, T)
        PROVE  /\ a = <<a[1], a[2]>> /\ a[1] \in T
               /\ a[2] \in Nat /\ 1 <= a[2] /\ a[2] <= Len(r[a[1]])
    <2>1. PICK t \in T : a \in {t} \X DOMAIN r[t]
      BY <1>1 DEF NodesIn, NodesOf
    <2>2. DOMAIN r[t] = 1 .. Len(r[t]) /\ Len(r[t]) \in Nat
      BY RecipeType
    <2> QED BY <2>1, <2>2
  <1>2. ASSUME NEW a, a = <<a[1], a[2]>>, a[1] \in T,
               a[2] \in Nat, 1 <= a[2], a[2] <= Len(r[a[1]])
        PROVE  a \in NodesIn(r, T)
    <2>1. DOMAIN r[a[1]] = 1 .. Len(r[a[1]]) /\ Len(r[a[1]]) \in Nat
      BY RecipeType, <1>2
    <2>2. a[2] \in DOMAIN r[a[1]]
      BY <2>1, <1>2
    <2>3. a \in {a[1]} \X DOMAIN r[a[1]]
      BY <2>2, <1>2
    <2> QED BY <2>3, <1>2 DEF NodesIn, NodesOf
  <1> QED BY <1>1, <1>2

LEMMA NodesOfIn ==
    ASSUME NEW r, NEW t
    PROVE  NodesOf(r, t) = NodesIn(r, {t})
  BY DEF NodesIn

LEMMA OpType ==
    ASSUME NEW r \in Recipes, NEW a \in NodesIn(r, Stages)
    PROVE  /\ Op(r, a).reads \subseteq Slots /\ Op(r, a).writes \subseteq Slots
           /\ Op(r, a).hidden \subseteq Slots /\ Touched(r, a) \subseteq Slots
  <1>1. a[1] \in Stages /\ a[2] \in 1 .. Len(r[a[1]])
    BY NodeType
  <1>2. r[a[1]] \in Seq(Operator)
    BY <1>1, RecipeType
  <1>3. Op(r, a) \in Operator
    BY <1>1, <1>2 DEF Op
  <1> QED BY <1>3 DEF Operator, Touched

\* The node that runs next, and the stage it is in.
LEMMA AtNode ==
    ASSUME NEW r \in Recipes, NEW p \in Position, p[2] \in DOMAIN r[p[1]]
    PROVE  p \in NodesIn(r, Stages)
  <1>1. p = <<p[1], p[2]>> /\ p[1] \in Stages /\ p[2] \in Nat
    BY DEF Position
  <1>2. DOMAIN r[p[1]] = 1 .. Len(r[p[1]]) /\ Len(r[p[1]]) \in Nat
    BY <1>1, RecipeType
  <1> QED BY <1>1, <1>2, NodeType

LEMMA DeviceType == \A t : DeviceOf(t) \in Devices
  BY PlanAssumption DEF DeviceOf

LEMMA ConflictSymmetric ==
    ASSUME NEW r, NEW s, NEW t
    PROVE  Conflict(r, s, t) <=> Conflict(r, t, s)
  BY DEF Conflict

-----------------------------------------------------------------------------
(* What is awaited is live.                                                *)

\* Every node is in the graph of some layer, and so are two nodes of one
\* stage, or one before the layers and any other, or one after the layers.
LEMMA SharedGraph ==
    ASSUME NEW r \in Recipes, NEW a \in NodesIn(r, Stages), NEW b \in NodesIn(r, Stages),
           UpTo(a, b), a[1] = b[1] \/ a[1] \notin Layers \/ b[1] \notin Layers
    PROVE  \E layer \in Layers : a \in GraphNodes(r, layer) /\ b \in GraphNodes(r, layer)
  <1>1. a[1] \in Stages /\ b[1] \in Stages /\ a[1] <= b[1]
    BY NodeType, StagesAre DEF UpTo, Before
  <1>2. PICK layer \in Layers : a[1] \in {Pre, layer, Post} /\ b[1] \in {Pre, layer, Post}
    <2>1. CASE a[1] \in Layers
      BY <1>1, <2>1, StagesAre
    <2>2. CASE a[1] \notin Layers /\ b[1] \in Layers
      BY <1>1, <2>2, StagesAre
    <2>3. CASE a[1] \notin Layers /\ b[1] \notin Layers
      <3>1. 1 \in Layers
        BY StagesAre
      <3> QED BY <1>1, <2>3, <3>1, StagesAre
    <2> QED BY <2>1, <2>2, <2>3
  <1>3. {Pre, layer, Post} \in SUBSET Stages
    BY StagesAre
  <1> QED BY <1>2, <1>3, NodeType DEF GraphNodes

LEMMA GraphInAll ==
    ASSUME NEW r, NEW layer \in Layers
    PROVE  /\ GraphNodes(r, layer) \subseteq NodesIn(r, Stages)
           /\ NodesOf(r, layer) \subseteq NodesIn(r, Stages)
  BY StagesAre DEF GraphNodes, NodesIn

\* A value that a later layer reads comes from before that layer.
LEMMA LaterIsExposed ==
    ASSUME NEW r \in Recipes, NEW p \in Position, NEW s,
           NEW b \in NodesIn(r, Stages), s \in Op(r, b).reads, p[1] < b[1],
           \A c \in NodesIn(r, Stages) : UpTo(p, c) /\ Before(c, b) => s \notin Op(r, c).writes
    PROVE  Exposed(r, b[1], s)
  <1>1. p[1] \in Int /\ b[1] \in Int /\ b[1] \in Stages /\ b[2] \in Nat /\ 1 <= b[2]
    BY NodeType, StagesAre DEF Position
  <1>2. b \in NodesOf(r, b[1])
    BY <1>1, NodeType, NodesOfIn
  <1>3. UpTo(<<b[1], 1>>, b)
    <2>1. b = <<b[1], b[2]>>
      BY NodeType
    <2>2. b[2] = 1 \/ 1 < b[2]
      BY <1>1
    <2>3. CASE b[2] = 1
      BY <2>1, <2>3 DEF UpTo
    <2>4. CASE 1 < b[2]
      BY <2>4 DEF UpTo, Before
    <2> QED BY <2>2, <2>3, <2>4
  <1>4. ASSUME NEW c \in NodesOf(r, b[1]), Before(c, b)
        PROVE  s \notin Op(r, c).writes
    <2>1. c \in NodesIn(r, Stages) /\ c[1] = b[1]
      BY <1>1, <1>4, NodeType, NodesOfIn DEF NodesIn, NodesOf
    <2>2. UpTo(p, c)
      BY <2>1 DEF UpTo, Before
    <2> QED BY <2>1, <2>2, <1>4
  <1> QED BY <1>2, <1>3, <1>4 DEF Exposed, Awaited

LEMMA LiveSomewhere ==
    ASSUME NEW r \in Recipes, NEW a \in NodesIn(r, Stages), NEW s \in Slots,
           Awaited(r, NodesIn(r, Stages), s, a)
    PROVE  \E layer \in Layers : a \in GraphNodes(r, layer) /\ Live(r, layer, s, a)
  <1>1. PICK b \in NodesIn(r, Stages) :
            /\ UpTo(a, b) /\ s \in Op(r, b).reads
            /\ \A c \in NodesIn(r, Stages) :
                   UpTo(a, c) /\ Before(c, b) => s \notin Op(r, c).writes
    BY DEF Awaited
  <1>2. CASE a[1] = b[1] \/ a[1] \notin Layers \/ b[1] \notin Layers
    <2>1. PICK layer \in Layers : a \in GraphNodes(r, layer) /\ b \in GraphNodes(r, layer)
      BY <1>1, <1>2, SharedGraph
    <2>2. Awaited(r, GraphNodes(r, layer), s, a)
      BY <1>1, <2>1, GraphInAll DEF Awaited
    <2> QED BY <2>1, <2>2 DEF Live
  <1>3. CASE a[1] # b[1] /\ a[1] \in Layers /\ b[1] \in Layers
    <2>1. a[1] < b[1] /\ a \in Position
      BY <1>1, <1>3, NodeType DEF UpTo, Before, Position
    <2>2. Exposed(r, b[1], s)
      BY <1>1, <2>1, LaterIsExposed
    <2>3. Exposed(r, a[1], s)
      BY <1>3, <2>2, RecipeType DEF WellFormed, SameExposed
    <2>4. a \in GraphNodes(r, a[1])
      <3>1. {Pre, a[1], Post} \in SUBSET Stages
        BY <1>3, StagesAre
      <3> QED BY <3>1, NodeType DEF GraphNodes
    <2> QED BY <1>3, <2>3, <2>4 DEF Live
  <1> QED BY <1>2, <1>3

\* What an operator writes or uses is in use in every graph it is in.
LEMMA TouchedInUse ==
    ASSUME NEW r, NEW layer, NEW a, NEW t \in Touched(r, a)
    PROVE  InUse(r, layer, t, a)
  BY DEF Touched, InUse, Live, HiddenUse

\* The slots an operator touches conflict with each other, with what is
\* awaited when it runs and with hidden slots that are open.
LEMMA TouchedConflict ==
    ASSUME NEW r \in Recipes, NEW a \in NodesIn(r, Stages), NEW s \in Slots,
           NEW t \in Touched(r, a), s # t,
           \/ s \in Touched(r, a)
           \/ Awaited(r, NodesIn(r, Stages), s, a)
           \/ HiddenUse(r, s, a)
    PROVE  Conflict(r, s, t)
  <1>1. PICK layer \in Layers : a \in GraphNodes(r, layer) /\ InUse(r, layer, s, a)
    <2>1. PICK layer \in Layers : a \in GraphNodes(r, layer)
      BY SharedGraph DEF UpTo
    <2>2. CASE s \in Touched(r, a)
      BY <2>1, <2>2, TouchedInUse
    <2>3. CASE Awaited(r, NodesIn(r, Stages), s, a)
      BY <2>3, LiveSomewhere DEF InUse
    <2>4. CASE HiddenUse(r, s, a)
      BY <2>1, <2>4 DEF InUse
    <2> QED BY <2>2, <2>3, <2>4
  <1>2. InUse(r, layer, t, a)
    BY TouchedInUse
  <1> QED BY <1>1, <1>2 DEF Conflict

-----------------------------------------------------------------------------
(* The plan.                                                               *)

LEMMA InitHolds == Init => IInv
  <1> SUFFICES ASSUME Init PROVE IInv
    OBVIOUS
  <1>1. TypeOK
    <2>1. at \in Position
      BY StagesAre DEF Init, Position
    <2> QED BY <2>1 DEF Init, TypeOK
  <1>2. phase = "plan" /\ \A s \in Slots : rep[s] = s
    BY DEF Init
  <1>3. Grouped
    BY <1>2 DEF Grouped
  <1> QED BY <1>1, <1>2, <1>3 DEF IInv, Bound, Kept, HiddenKept

LEMMA GroupKeeps == IInv /\ Group => IInv'
  <1> SUFFICES ASSUME IInv, Group PROVE IInv'
    OBVIOUS
  <1>. DEFINE s == Order[turn]
  <1>1. /\ phase = "plan" /\ phase' = "plan" /\ turn' = turn + 1
        /\ UNCHANGED <<recipe, batch>>
        /\ turn \in DOMAIN Order /\ s \in Slots
    BY PlanAssumption DEF Group
  <1>2. CASE UNCHANGED rep
    <2>1. TypeOK'
      BY <1>1, <1>2 DEF IInv, TypeOK, batch
    <2>2. Grouped'
      BY <1>1, <1>2, PlanAssumption DEF IInv, TypeOK, Grouped, Apart, batch
    <2> QED BY <1>1, <2>1, <2>2 DEF IInv, Bound, Kept, HiddenKept
  <1>3. CASE Aliasable(recipe, s) /\
             \E i \in Joinable(s) : rep' = [rep EXCEPT ![s] = Order[i]]
    <2>1. PICK i \in 1 .. turn - 1 : CanJoin(s, i) /\ rep' = [rep EXCEPT ![s] = Order[i]]
      BY <1>3 DEF Joinable
    <2>2. i \in DOMAIN Order /\ Order[i] \in Slots /\ i < turn /\ turn \in Nat
      BY <1>1, PlanAssumption DEF IInv, TypeOK
    <2>3. rep' \in [Slots -> Slots] /\ rep'[s] = Order[i]
          /\ \A t \in Slots : t # s => rep'[t] = rep[t]
      BY <1>1, <2>1, <2>2 DEF IInv, TypeOK
    <2>4. TypeOK'
      BY <1>1, <2>3 DEF IInv, TypeOK, batch
    <2>5. ASSUME NEW t \in Slots, t # s, rep[t] = Order[i]
          PROVE  Apart(s, t)
      <3>1. ~Conflict(recipe, s, t)
        BY <2>1, <2>5, ConflictSymmetric DEF CanJoin
      <3>2. Aliasable(recipe, t)
        <4>1. CASE t = Order[i]
          BY <2>1, <4>1 DEF CanJoin
        <4>2. CASE t # Order[i]
          BY <2>1, <2>2, <2>5, <4>2 DEF CanJoin, IInv, Grouped, Apart
        <4> QED BY <4>1, <4>2
      <3> QED BY <1>3, <3>1, <3>2 DEF Apart
    <2>6. \A t, u \in Slots : Apart(t, u) => Apart(u, t)
      BY ConflictSymmetric DEF Apart
    <2>7. ASSUME NEW t \in Slots, NEW u \in Slots, t # u, rep'[t] = rep'[u]
          PROVE  Apart(t, u)
      <3>1. CASE t = s
        BY <2>3, <2>5, <2>7, <3>1
      <3>2. CASE u = s
        BY <2>3, <2>5, <2>6, <2>7, <3>2, <1>1
      <3>3. CASE t # s /\ u # s
        BY <2>3, <2>7, <3>3 DEF IInv, Grouped
      <3> QED BY <3>1, <3>2, <3>3
    <2>8. ASSUME NEW j \in DOMAIN Order, j >= turn + 1, NEW t \in Slots, rep'[t] = Order[j]
          PROVE  t = Order[j]
      <3>1. j \in Int /\ j # i
        BY <2>2, <2>8, PlanAssumption
      <3>2. Order[j] # Order[i]
        BY <3>1, <2>2, PlanAssumption
      <3>3. t # s
        BY <2>3, <2>8, <3>2
      <3>4. rep[t] = Order[j] /\ j >= turn
        BY <2>2, <2>3, <2>8, <3>1, <3>3
      <3> QED BY <3>4, <1>1 DEF IInv, Grouped
    <2>9. Grouped'
      BY <1>1, <2>7, <2>8 DEF Grouped, Apart, batch
    <2> QED BY <1>1, <2>4, <2>9 DEF IInv, Bound, Kept, HiddenKept
  <1> QED BY <1>2, <1>3 DEF Group

-----------------------------------------------------------------------------
(* The batch.                                                              *)

LEMMA PrepareKeeps == IInv /\ Prepare => IInv'
  <1> SUFFICES ASSUME IInv, Prepare PROVE IInv'
    OBVIOUS
  <1>1. /\ phase' = "run" /\ at' = <<Pre, 1>> /\ UNCHANGED <<recipe, turn, rep>>
        /\ bind' = [d \in Devices |-> rep] /\ recipe \in Recipes
    BY DEF Prepare, IInv, TypeOK
  <1>2. TypeOK'
    <2>1. at' \in Position
      BY <1>1, StagesAre DEF Position
    <2> QED BY <1>1, <2>1 DEF Prepare, IInv, TypeOK
  <1>3. Grouped' /\ Bound'
    BY <1>1 DEF IInv, Grouped, Bound, Apart
  <1>4. Kept'
    <2> SUFFICES ASSUME NEW s \in Slots, Awaited(recipe, All, s, <<Pre, 1>>)
                 PROVE  FALSE
      BY <1>1 DEF Kept, All
    <2>1. PICK b \in All :
              /\ s \in Op(recipe, b).reads
              /\ \A c \in All : UpTo(<<Pre, 1>>, c) /\ Before(c, b) => s \notin Op(recipe, c).writes
      BY DEF Awaited
    <2>2. PICK layer \in Layers : b \in GraphNodes(recipe, layer)
      BY <1>1, SharedGraph DEF UpTo, All
    <2>3. PICK c \in GraphNodes(recipe, layer) : Before(c, b) /\ s \in Op(recipe, c).writes
      BY <1>1, <2>1, <2>2, RecipeType DEF WellFormed, Defined
    <2>4. c \in All
      BY <2>3, GraphInAll DEF All
    <2>5. UpTo(<<Pre, 1>>, c)
      <3>1. /\ c = <<c[1], c[2]>> /\ c[1] \in Int /\ 0 <= c[1] /\ Pre = 0
            /\ c[2] \in Nat /\ 1 <= c[2]
        BY <1>1, <2>4, NodeType, StagesAre DEF All
      <3>2. 0 < c[1] \/ (c[1] = 0 /\ (1 < c[2] \/ c[2] = 1))
        BY <3>1
      <3> QED BY <3>1, <3>2 DEF UpTo, Before
    <2> QED BY <2>1, <2>3, <2>4, <2>5
  <1>5. HiddenKept'
    <2>1. ASSUME NEW a \in NodesOf(recipe, Pre), Before(a, <<Pre, 1>>) PROVE FALSE
      <3>1. a[1] = Pre /\ a[2] \in DOMAIN recipe[Pre]
        BY <2>1 DEF NodesOf
      <3>2. a[2] \in Nat /\ 1 <= a[2] /\ Pre = 0
        BY <1>1, <3>1, RecipeType, StagesAre
      <3> QED BY <2>1, <3>1, <3>2 DEF Before
    <2> QED BY <1>1, <2>1 DEF HiddenKept
  <1> QED BY <1>2, <1>3, <1>4, <1>5 DEF IInv

\* While the operators of a stage run.
LEMMA AtRunning ==
    ASSUME IInv, Running
    PROVE  /\ recipe \in Recipes /\ at \in All /\ at \in Position
           /\ at \in NodesOf(recipe, at[1]) /\ Here \in Devices
           /\ Now.reads \subseteq Slots /\ Touched(recipe, at) \subseteq Slots
           /\ phase = "run"
  <1>1. at \in All
    BY AtNode DEF IInv, TypeOK, Running, All
  <1>2. at \in NodesOf(recipe, at[1])
    BY DEF IInv, TypeOK, Position, Running, NodesOf
  <1> QED BY <1>1, <1>2, OpType, DeviceType DEF IInv, TypeOK, Here, Now, All, Running

LEMMA NowAwaited ==
    ASSUME IInv, Running, NEW s \in Now.reads
    PROVE  Awaited(recipe, All, s, at)
  <1>1. \A c \in All : ~(UpTo(at, c) /\ Before(c, at))
    BY AtRunning, NodeType, StagesAre DEF All, UpTo, Before
  <1> QED BY <1>1, AtRunning DEF Awaited, UpTo, Now

\* Nothing that counts shares a buffer with what is written now.
LEMMA NothingLost ==
    ASSUME IInv, Running, NEW s \in Slots, NEW t \in Touched(recipe, at), s # t,
           \/ s \in Touched(recipe, at)
           \/ Awaited(recipe, All, s, at)
           \/ HiddenUse(recipe, s, at)
    PROVE  bind[Here][s] # bind[Here][t]
  <1>1. Conflict(recipe, s, t)
    BY AtRunning, TouchedConflict DEF All
  <1> QED BY <1>1, AtRunning DEF IInv, Bound, Apart

\* What the next operators of the stage await was awaited already.
LEMMA AwaitedBefore ==
    ASSUME IInv, Running, NEW s \in Slots, s \notin Now.writes,
           Awaited(recipe, All, s, <<at[1], at[2] + 1>>)
    PROVE  Awaited(recipe, All, s, at)
  <1>. DEFINE next == <<at[1], at[2] + 1>>
  <1>1. at = <<at[1], at[2]>> /\ at[1] \in Int /\ at[2] \in Nat
    BY AtRunning, StagesAre DEF Position
  <1>2. PICK b \in All :
            /\ UpTo(next, b) /\ s \in Op(recipe, b).reads
            /\ \A c \in All : UpTo(next, c) /\ Before(c, b) => s \notin Op(recipe, c).writes
    BY DEF Awaited
  <1>3. \A c \in All : c = <<c[1], c[2]>> /\ c[1] \in Int /\ c[2] \in Nat
    BY AtRunning, NodeType, StagesAre DEF All
  <1>4. ASSUME NEW c \in All, UpTo(next, c) PROVE UpTo(at, c)
    BY <1>1, <1>3, <1>4 DEF UpTo, Before
  <1>5. ASSUME NEW c \in All, UpTo(at, c), c # at PROVE UpTo(next, c)
    <2>1. Before(at, c)
      BY <1>5 DEF UpTo
    <2>2. at[1] < c[1] \/ (at[1] = c[1] /\ (at[2] + 1 < c[2] \/ c[2] = at[2] + 1))
      BY <1>1, <1>3, <2>1 DEF Before
    <2> QED BY <1>3, <2>2 DEF UpTo, Before
  <1>6. ASSUME NEW c \in All, UpTo(at, c), Before(c, b) PROVE s \notin Op(recipe, c).writes
    BY <1>2, <1>5, <1>6 DEF Now
  <1> QED BY <1>2, <1>4, <1>6 DEF Awaited

LEMMA ComputeKeeps == IInv /\ Compute => IInv'
  <1> SUFFICES ASSUME IInv, Compute PROVE IInv'
    OBVIOUS
  <1>. DEFINE out == Touched(recipe, at)
  <1>1. /\ Running /\ at' = <<at[1], at[2] + 1>>
        /\ UNCHANGED <<recipe, phase, turn, rep, bind>>
    BY DEF Compute, Advance
  <1>2. /\ at \in Position /\ at' \in Position /\ at'[1] = at[1] /\ Here' = Here
        /\ Here \in Devices /\ phase = "run" /\ out \subseteq Slots
    BY <1>1, AtRunning DEF Position, Here
  <1>3. TypeOK'
    BY <1>1, <1>2 DEF Compute, IInv, TypeOK
  <1>4. Grouped' /\ Bound'
    BY <1>1, <1>2 DEF IInv, Grouped, Bound, Apart
  <1>5. \A b \in Slots : mem'[Here][b] = IF Into(b) # {} THEN Written(b) ELSE mem[Here][b]
    BY <1>2 DEF Compute, IInv, TypeOK
  <1>6. \A s \in Slots : bind[Here][s] \in Slots
    BY <1>2 DEF IInv, TypeOK
  <1>7. ASSUME NEW s \in out PROVE Holds(s)'
    <2>1. \A t \in out : t # s => bind[Here][s] # bind[Here][t]
      BY <1>1, <1>2, NothingLost
    <2>2. Into(bind[Here][s]) = {s}
      BY <2>1 DEF Into
    <2>3. mem'[Here][bind[Here][s]] = Content(s, at)
      BY <1>2, <1>5, <1>6, <2>2 DEF Written
    <2>4. ref'[s] = Content(s, at)
      BY <1>2 DEF Compute
    <2> QED BY <1>1, <1>2, <2>3, <2>4 DEF Holds
  <1>8. ASSUME NEW s \in Slots, s \notin out, Holds(s),
               Awaited(recipe, All, s, at) \/ HiddenUse(recipe, s, at)
        PROVE  Holds(s)'
    <2>1. \A t \in out : bind[Here][s] # bind[Here][t]
      BY <1>1, <1>8, NothingLost
    <2>2. Into(bind[Here][s]) = {}
      BY <2>1 DEF Into
    <2>3. ref'[s] = ref[s]
      BY <1>8 DEF Compute
    <2> QED BY <1>1, <1>2, <1>5, <1>6, <1>8, <2>2, <2>3 DEF Holds
  <1>9. Kept'
    <2> SUFFICES ASSUME NEW s \in Slots, Awaited(recipe, All, s, at')
                 PROVE  Holds(s)'
      BY <1>1 DEF Kept, All
    <2>1. CASE s \in out
      BY <2>1, <1>7
    <2>2. CASE s \notin out
      <3>1. s \notin Now.writes
        BY <2>2 DEF Touched, Now
      <3>2. Awaited(recipe, All, s, at)
        BY <1>1, <3>1, AwaitedBefore
      <3> QED BY <1>2, <1>8, <2>2, <3>2 DEF IInv, Kept
    <2> QED BY <2>1, <2>2
  <1>10. HiddenKept'
    <2> SUFFICES ASSUME NEW s \in Slots,
                        NEW a \in NodesOf(recipe, at[1]), NEW c \in NodesOf(recipe, at[1]),
                        Before(a, at'), UpTo(at', c),
                        Hides(recipe, s, a), Hides(recipe, s, c)
                 PROVE  Holds(s)'
      BY <1>1, <1>2 DEF HiddenKept
    <2>1. CASE s \in out
      BY <2>1, <1>7
    <2>2. CASE s \notin out
      <3>1. /\ a = <<a[1], a[2]>> /\ a[1] = at[1] /\ a[2] \in Nat
            /\ c = <<c[1], c[2]>> /\ c[1] = at[1] /\ c[2] \in Nat
            /\ at = <<at[1], at[2]>> /\ at[1] \in Int /\ at[2] \in Nat
        BY <1>1, <1>2, AtRunning, RecipeType, StagesAre DEF NodesOf, Position
      <3>2. a # at
        BY <2>2 DEF Hides, Touched
      <3>3. Before(a, at) /\ UpTo(a, at)
        <4>1. a[2] < at[2] + 1 /\ a[2] # at[2]
          BY <1>1, <3>1, <3>2 DEF Before
        <4> QED BY <3>1, <4>1 DEF Before, UpTo
      <3>4. UpTo(at, c)
        <4>1. at[2] + 1 <= c[2]
          BY <1>1, <3>1 DEF Before, UpTo
        <4> QED BY <3>1, <4>1 DEF Before, UpTo
      <3>5. a[1] = at[1]
        BY <3>1
      <3>6. HiddenUse(recipe, s, at)
        BY <3>3, <3>4 DEF HiddenUse
      <3>7. Holds(s)
        BY <1>2, <3>3, <3>4 DEF IInv, HiddenKept
      <3> QED BY <1>8, <2>2, <3>6, <3>7
    <2> QED BY <2>1, <2>2
  <1> QED BY <1>3, <1>4, <1>9, <1>10 DEF IInv

\* op_swap has two operands, neither of which shares its buffer.
LEMMA SwapOperands ==
    ASSUME IInv, Running, Now.swaps
    PROVE  /\ Now.writes = Now.reads /\ Now.hidden = {}
           /\ \A s \in Now.reads : /\ Other(s) \in Now.reads /\ Other(s) # s
                                   /\ Other(Other(s)) = s
                                   /\ ~Aliasable(recipe, s)
           /\ \A s, t \in Now.reads : s # t => Other(s) = t
  <1>1. SwapsTwo(recipe)
    BY AtRunning, RecipeType DEF WellFormed
  <1>2. /\ Now.writes = Now.reads /\ Now.hidden = {}
        /\ \E s, t \in Slots : s # t /\ Now.reads = {s, t}
    BY <1>1, AtRunning DEF SwapsTwo, Now, All
  <1>3. PICK p \in Slots, q \in Slots : p # q /\ Now.reads = {p, q}
    BY <1>2
  <1>4. Other(p) = q /\ Other(q) = p
    BY <1>3 DEF Other
  <1>5. \A s \in Now.reads : ~Aliasable(recipe, s)
    BY AtRunning DEF Aliasable, Pinned, Now, All
  <1> QED BY <1>2, <1>3, <1>4, <1>5

LEMMA SwapKeeps == IInv /\ Swap => IInv'
  <1> SUFFICES ASSUME IInv, Swap PROVE IInv'
    OBVIOUS
  <1>1. /\ Running /\ Now.swaps /\ at' = <<at[1], at[2] + 1>>
        /\ UNCHANGED <<recipe, phase, turn, rep, mem>>
    BY DEF Swap, Advance
  <1>2. /\ at \in Position /\ at' \in Position /\ at'[1] = at[1] /\ Here' = Here
        /\ Here \in Devices /\ phase = "run" /\ Now.reads \subseteq Slots
    BY <1>1, AtRunning DEF Position, Here
  <1>3. /\ \A s \in Slots : bind'[Here][s] = Swapped(bind[Here])[s]
        /\ \A d \in Devices : d # Here => bind'[d] = bind[d]
        /\ ref' = Swapped(ref)
    BY <1>2 DEF Swap, IInv, TypeOK
  <1>4. /\ \A s \in Slots : s \notin Now.reads =>
                bind'[Here][s] = bind[Here][s] /\ ref'[s] = ref[s]
        /\ \A s \in Now.reads :
                bind'[Here][s] = bind[Here][Other(s)] /\ ref'[s] = ref[Other(s)]
    BY <1>2, <1>3 DEF Swapped
  <1>5. TypeOK'
    <2>1. Swapped(bind[Here]) \in [Slots -> Slots]
      BY <1>1, <1>2, SwapOperands DEF Swapped, IInv, TypeOK
    <2> QED BY <1>1, <1>2, <2>1 DEF Swap, Swapped, IInv, TypeOK
  <1>6. Grouped'
    BY <1>1, <1>2 DEF IInv, Grouped, Apart
  <1>7. ASSUME NEW s \in Now.reads, NEW t \in Slots, t # s
        PROVE  bind[Here][s] # bind[Here][t]
    BY <1>1, <1>2, <1>7, SwapOperands DEF IInv, Bound, Apart
  <1>8. Bound'
    <2>1. ASSUME NEW s \in Slots, NEW t \in Slots, s # t, bind'[Here][s] = bind'[Here][t]
          PROVE  Apart(s, t)
      <3>1. CASE s \notin Now.reads /\ t \notin Now.reads
        BY <1>2, <1>4, <2>1, <3>1 DEF IInv, Bound
      <3>2. CASE s \in Now.reads
        <4>1. Other(s) \in Now.reads /\ Other(s) # s
          BY <1>1, <3>2, SwapOperands
        <4>2. CASE t \in Now.reads
          <5>1. Other(t) = s /\ Other(s) = t
            BY <1>1, <2>1, <3>2, <4>2, SwapOperands
          <5> QED BY <1>2, <1>4, <1>7, <2>1, <3>2, <4>2, <5>1
        <4>3. CASE t \notin Now.reads
          BY <1>4, <1>7, <2>1, <3>2, <4>1, <4>3
        <4> QED BY <4>2, <4>3
      <3>3. CASE s \notin Now.reads /\ t \in Now.reads
        <4>1. Other(t) \in Now.reads /\ Other(t) # s
          BY <1>1, <3>3, SwapOperands
        <4> QED BY <1>4, <1>7, <2>1, <3>3, <4>1
      <3> QED BY <3>1, <3>2, <3>3
    <2> QED BY <1>1, <1>2, <1>3, <2>1 DEF IInv, Bound, Apart
  <1>9. ASSUME NEW s \in Now.reads PROVE Holds(s)'
    <2>1. Other(s) \in Now.reads /\ Other(s) \in Slots
      BY <1>1, <1>2, SwapOperands
    <2>2. Holds(Other(s))
      BY <1>1, <1>2, <2>1, NowAwaited DEF IInv, Kept
    <2> QED BY <1>1, <1>2, <1>4, <2>2 DEF Holds
  <1>10. ASSUME NEW s \in Slots, s \notin Now.reads, Holds(s) PROVE Holds(s)'
    BY <1>1, <1>2, <1>4, <1>10 DEF Holds
  <1>11. Kept'
    <2> SUFFICES ASSUME NEW s \in Slots, s \notin Now.reads, Awaited(recipe, All, s, at')
                 PROVE  Holds(s)'
      BY <1>1, <1>9 DEF Kept, All
    <2>1. Awaited(recipe, All, s, at)
      BY <1>1, AwaitedBefore, SwapOperands
    <2> QED BY <1>2, <1>10, <2>1 DEF IInv, Kept
  <1>12. HiddenKept'
    <2> SUFFICES ASSUME NEW s \in Slots, s \notin Now.reads,
                        NEW a \in NodesOf(recipe, at[1]), NEW c \in NodesOf(recipe, at[1]),
                        Before(a, at'), UpTo(at', c),
                        Hides(recipe, s, a), Hides(recipe, s, c)
                 PROVE  Holds(s)'
      BY <1>1, <1>2, <1>9 DEF HiddenKept
    <2>1. /\ a = <<a[1], a[2]>> /\ a[1] = at[1] /\ a[2] \in Nat
          /\ c = <<c[1], c[2]>> /\ c[1] = at[1] /\ c[2] \in Nat
          /\ at = <<at[1], at[2]>> /\ at[1] \in Int /\ at[2] \in Nat
      BY <1>1, <1>2, AtRunning, RecipeType, StagesAre DEF NodesOf, Position
    <2>2. a # at
      BY <1>1, SwapOperands DEF Hides, Now
    <2>3. Before(a, at)
      <3>1. a[2] < at[2] + 1 /\ a[2] # at[2]
        BY <1>1, <2>1, <2>2 DEF Before
      <3> QED BY <2>1, <3>1 DEF Before
    <2>4. UpTo(at, c)
      <3>1. at[2] + 1 <= c[2]
        BY <1>1, <2>1 DEF Before, UpTo
      <3> QED BY <2>1, <3>1 DEF Before, UpTo
    <2>5. Holds(s)
      BY <1>2, <2>3, <2>4 DEF IInv, HiddenKept
    <2> QED BY <1>10, <2>5
  <1> QED BY <1>5, <1>6, <1>8, <1>11, <1>12 DEF IInv

-----------------------------------------------------------------------------
(* From stage to stage.                                                    *)

\* What a later stage awaits was awaited before, and is carried.
LEMMA Crossing ==
    ASSUME IInv, StageDone, NEW t \in Layers \cup {Post}, t = at[1] + 1,
           NEW s \in Slots, Awaited(recipe, All, s, <<t, 1>>)
    PROVE  Awaited(recipe, All, s, at) /\ s \in Carried
  <1>1. /\ recipe \in Recipes /\ at \in Position /\ at[1] \in Int /\ t \in Int
        /\ at[1] \in Stages /\ at[2] \in Nat /\ 1 <= at[2]
    BY StagesAre DEF IInv, TypeOK, Position
  <1>2. ~(at[2] <= Len(recipe[at[1]]))
    BY <1>1, RecipeType DEF StageDone
  <1>3. \A c \in All : /\ c = <<c[1], c[2]>> /\ c[1] \in Stages /\ c[1] \in Int
                       /\ c[2] \in Nat /\ 1 <= c[2] /\ c[2] <= Len(recipe[c[1]])
    BY <1>1, NodeType, StagesAre DEF All
  <1>4. ASSUME NEW c \in All, UpTo(at, c)
        PROVE  at[1] < c[1] /\ UpTo(<<t, 1>>, c)
    <2>1. c[1] # at[1]
      <3>1. SUFFICES ASSUME c[1] = at[1] PROVE FALSE
        OBVIOUS
      <3>2. at[2] <= c[2]
        BY <1>1, <1>3, <1>4, <3>1 DEF UpTo, Before
      <3>3. c[2] <= Len(recipe[at[1]])
        BY <1>3, <3>1
      <3>4. Len(recipe[at[1]]) \in Nat /\ c[2] \in Nat
        BY <1>1, <1>3, RecipeType
      <3> QED BY <1>1, <1>2, <3>2, <3>3, <3>4
    <2>2. at[1] < c[1]
      BY <1>1, <1>3, <1>4, <2>1 DEF UpTo, Before
    <2>3. t < c[1] \/ (t = c[1] /\ (1 < c[2] \/ c[2] = 1))
      BY <1>1, <1>3, <2>2
    <2> QED BY <1>3, <2>2, <2>3 DEF UpTo, Before
  <1>5. PICK b \in All :
            /\ UpTo(<<t, 1>>, b) /\ s \in Op(recipe, b).reads
            /\ \A c \in All : UpTo(<<t, 1>>, c) /\ Before(c, b) => s \notin Op(recipe, c).writes
    BY DEF Awaited
  <1>6. at[1] < b[1] /\ UpTo(at, b)
    <2>1. t <= b[1]
      BY <1>1, <1>3, <1>5 DEF UpTo, Before
    <2> QED BY <1>1, <1>3, <2>1 DEF UpTo, Before
  <1>7. \A c \in All : UpTo(at, c) /\ Before(c, b) => s \notin Op(recipe, c).writes
    BY <1>4, <1>5
  <1>8. Exposed(recipe, b[1], s)
    BY <1>1, <1>5, <1>6, <1>7, LaterIsExposed DEF All
  <1>9. b[1] \in Layers \cup {Post}
    BY <1>1, <1>3, <1>6, StagesAre
  <1>10. s \in Carried
    BY <1>1, <1>8, <1>9, RecipeType DEF WellFormed, CrossesCarried
  <1> QED BY <1>5, <1>6, <1>7, <1>10 DEF Awaited

LEMMA CarriedAlone ==
    ASSUME IInv, phase = "run", NEW d \in Devices, NEW s \in Carried
    PROVE  CarriedTo(d, bind[d][s]) = {s}
  <1>1. ASSUME NEW c \in Carried, c # s, bind[d][c] = bind[d][s]
        PROVE  FALSE
    <2>1. c \in Slots /\ s \in Slots
      BY PlanAssumption
    <2>2. Apart(c, s)
      BY <1>1, <2>1 DEF IInv, Bound
    <2>3. Seen(recipe, c) /\ Seen(recipe, s)
      BY <2>2 DEF Apart, Aliasable
    <2>4. CarriedApart(recipe)
      BY RecipeType DEF WellFormed, IInv, TypeOK
    <2> QED BY <1>1, <2>1, <2>2, <2>3, <2>4 DEF CarriedApart, Apart
  <1> QED BY <1>1 DEF CarriedTo

LEMMA MovedHolds ==
    ASSUME IInv, phase = "run", NEW to \in Devices,
           NEW s \in Carried, Holds(s)
    PROVE  Moved(Here, to)[to][bind[to][s]] = ref[s]
  <1>1. Here \in Devices /\ s \in Slots /\ bind[to][s] \in Slots
    BY DeviceType, PlanAssumption DEF IInv, TypeOK, Here
  <1>2. CarriedTo(to, bind[to][s]) = {s}
    BY CarriedAlone
  <1> QED BY <1>1, <1>2 DEF Moved, Holds, IInv, TypeOK

LEMMA MovedType ==
    ASSUME TypeOK, NEW to \in Devices
    PROVE  /\ DOMAIN Moved(Here, to) = Devices
           /\ \A d \in Devices : DOMAIN Moved(Here, to)[d] = Slots
  BY DEF Moved, TypeOK

\* At its first operator, no operator of a stage has left anything.
LEMMA NothingHidden ==
    ASSUME recipe' \in Recipes, NEW t \in Stages, at' = <<t, 1>>
    PROVE  HiddenKept'
  <1>1. ASSUME NEW a \in NodesOf(recipe', t), Before(a, at') PROVE FALSE
    <2>1. a[1] = t /\ a[2] \in DOMAIN recipe'[t]
      BY <1>1 DEF NodesOf
    <2>2. a[2] \in Nat /\ 1 <= a[2] /\ t \in Int
      BY <2>1, RecipeType, StagesAre
    <2> QED BY <1>1, <2>1, <2>2 DEF Before
  <1> QED BY <1>1 DEF HiddenKept

LEMMA NextLayerKeeps == IInv /\ NextLayer => IInv'
  <1> SUFFICES ASSUME IInv, NextLayer PROVE IInv'
    OBVIOUS
  <1>. DEFINE t == at[1] + 1
              to == DeviceOf(t)
  <1>1. /\ StageDone /\ phase = "run" /\ t \in Layers /\ t \in Stages
        /\ mem' = Moved(Here, to) /\ at' = <<t, 1>> /\ to \in Devices
        /\ UNCHANGED <<recipe, phase, turn, rep, bind, ref>>
    BY DeviceType, StagesAre DEF NextLayer, StageDone
  <1>2. TypeOK'
    <2>1. at' \in Position
      BY <1>1 DEF Position
    <2> QED BY <1>1, <2>1, MovedType DEF IInv, TypeOK
  <1>3. Grouped' /\ Bound'
    BY <1>1 DEF IInv, Grouped, Bound, Apart
  <1>4. Kept'
    <2> SUFFICES ASSUME NEW s \in Slots, Awaited(recipe, All, s, <<t, 1>>)
                 PROVE  Holds(s)'
      BY <1>1 DEF Kept, All
    <2>1. Awaited(recipe, All, s, at) /\ s \in Carried
      BY <1>1, Crossing
    <2>2. Holds(s)
      BY <1>1, <2>1 DEF IInv, Kept
    <2>3. Moved(Here, to)[to][bind[to][s]] = ref[s]
      BY <1>1, <2>1, <2>2, MovedHolds
    <2>4. Here' = to
      BY <1>1 DEF Here
    <2> QED BY <1>1, <2>3, <2>4 DEF Holds
  <1>5. HiddenKept'
    BY <1>1, NothingHidden DEF IInv, TypeOK
  <1> QED BY <1>2, <1>3, <1>4, <1>5 DEF IInv

LEMMA LastLayerKeeps == IInv /\ LastLayer => IInv'
  <1> SUFFICES ASSUME IInv, LastLayer PROVE IInv'
    OBVIOUS
  <1>. DEFINE m == Moved(Here, Main)
  <1>1. /\ StageDone /\ phase = "run" /\ at[1] = NLayers /\ at' = <<Post, 1>>
        /\ UNCHANGED <<recipe, phase, turn, rep, bind>>
        /\ Main \in Devices /\ Post = at[1] + 1 /\ Post \in Stages /\ Post \notin Layers
    BY PlanAssumption, StagesAre DEF LastLayer, StageDone
  <1>2. DOMAIN m = Devices /\ \A d \in Devices : DOMAIN m[d] = Slots
    BY <1>1, MovedType DEF IInv
  <1>3. \/ mem' = m /\ ref' = ref
        \/ mem' = Gathered(m) /\ ref' = [s \in Slots |-> Rows(ref[s])]
    BY DEF LastLayer
  <1>4. TypeOK'
    <2>1. at' \in Position
      BY <1>1 DEF Position
    <2>2. /\ DOMAIN mem' = Devices /\ \A d \in Devices : DOMAIN mem'[d] = Slots
          /\ DOMAIN ref' = Slots
      BY <1>1, <1>2, <1>3 DEF Gathered, IInv, TypeOK
    <2> QED BY <1>1, <2>1, <2>2 DEF IInv, TypeOK
  <1>5. Grouped' /\ Bound'
    BY <1>1 DEF IInv, Grouped, Bound, Apart
  <1>6. Kept'
    <2> SUFFICES ASSUME NEW s \in Slots, Awaited(recipe, All, s, <<Post, 1>>)
                 PROVE  Holds(s)'
      BY <1>1 DEF Kept, All
    <2>1. Awaited(recipe, All, s, at) /\ s \in Carried
      BY <1>1, Crossing
    <2>2. Holds(s)
      BY <1>1, <2>1 DEF IInv, Kept
    <2>3. m[Main][bind[Main][s]] = ref[s]
      BY <1>1, <2>1, <2>2, MovedHolds
    <2>4. Here' = Main
      BY <1>1 DEF Here, DeviceOf
    <2>5. CASE mem' = m /\ ref' = ref
      BY <1>1, <2>3, <2>4, <2>5 DEF Holds
    <2>6. CASE mem' = Gathered(m) /\ ref' = [x \in Slots |-> Rows(ref[x])]
      <3>1. CarriedTo(Main, bind[Main][s]) = {s} /\ bind[Main][s] \in Slots
        BY SMTT(30), <1>1, <2>1, CarriedAlone DEF IInv, TypeOK
      <3>2. mem'[Main][bind[Main][s]] = Rows(m[Main][bind[Main][s]])
        BY <1>1, <1>2, <2>6, <3>1 DEF Gathered
      <3> QED BY <1>1, <2>3, <2>4, <2>6, <3>2 DEF Holds
    <2> QED BY <1>3, <2>5, <2>6
  <1>7. HiddenKept'
    BY <1>1, NothingHidden DEF IInv, TypeOK
  <1> QED BY <1>4, <1>5, <1>6, <1>7 DEF IInv

-----------------------------------------------------------------------------
(* The theorem.                                                            *)

LEMMA StepKeeps == IInv /\ [Next]_vars => IInv'
  <1> SUFFICES ASSUME IInv, [Next]_vars PROVE IInv'
    OBVIOUS
  <1>1. CASE Group BY <1>1, GroupKeeps
  <1>2. CASE Prepare BY <1>2, PrepareKeeps
  <1>3. CASE Compute BY <1>3, ComputeKeeps
  <1>4. CASE Swap BY <1>4, SwapKeeps
  <1>5. CASE NextLayer BY <1>5, NextLayerKeeps
  <1>6. CASE LastLayer BY <1>6, LastLayerKeeps
  <1>7. CASE BatchEnds
    <2>1. phase' = "idle" /\ UNCHANGED <<recipe, turn, rep, batch>>
      BY <1>7 DEF BatchEnds
    <2> QED BY <2>1 DEF batch, IInv, TypeOK, Grouped, Bound, Kept, HiddenKept, Apart
  <1>8. CASE UNCHANGED vars
    <2>1. TypeOK' /\ Grouped' /\ Bound'
      BY <1>8 DEF vars, IInv, TypeOK, Grouped, Bound, Apart
    <2>2. Kept' /\ HiddenKept'
      BY <1>8 DEF vars, IInv, Kept, HiddenKept, All, Holds, Here
    <2> QED BY <2>1, <2>2 DEF IInv
  <1> QED BY <1>1, <1>2, <1>3, <1>4, <1>5, <1>6, <1>7, <1>8 DEF Next

LEMMA InvariantImplies == IInv => OperandsRight
  <1> SUFFICES ASSUME IInv, Running PROVE OperandsRight
    BY DEF OperandsRight
  <1>1. \A s \in Now.reads : Holds(s)
    BY NowAwaited, AtRunning DEF IInv, Kept
  <1>2. ASSUME NEW t \in Touched(recipe, at), NEW s \in Now.reads \cup Touched(recipe, at), s # t
        PROVE  bind[Here][s] # bind[Here][t]
    <2>1. s \in Slots
      BY AtRunning
    <2>2. s \in Touched(recipe, at) \/ Awaited(recipe, All, s, at)
      BY <1>2, NowAwaited
    <2> QED BY <1>2, <2>1, <2>2, NothingLost
  <1>3. ASSUME NEW s \in Slots, NEW a \in NodesOf(recipe, at[1]), Before(a, at),
               Hides(recipe, s, a), Hides(recipe, s, at)
        PROVE  Holds(s)
    BY <1>3, AtRunning DEF IInv, HiddenKept, UpTo
  <1> QED BY <1>1, <1>2, <1>3 DEF OperandsRight

\* On every recipe of the kind, for any number of layers placed on any
\* devices: an operator reads what it would read on one device with a buffer
\* for every slot, and never writes into an operand it still reads.
THEOREM SharingIsInvisible == Spec => []OperandsRight
  <1>1. Init => IInv BY InitHolds
  <1>2. IInv /\ [Next]_vars => IInv' BY StepKeeps
  <1>3. IInv => OperandsRight BY InvariantImplies
  <1> QED BY <1>1, <1>2, <1>3, PTL DEF Spec
=============================================================================
