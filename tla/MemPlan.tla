------------------------------ MODULE MemPlan ------------------------------
(***************************************************************************)
(* The recipe of a model and the memory it runs in: recipe/graph.c,        *)
(* recipe/plan.c, recipe/scratch.c and the executor in recipe/exec.c.      *)
(*                                                                         *)
(* A recipe is a list of operators before the layers, one for each layer   *)
(* and one after them.  Operators name slots; mem_plan_build lets slots    *)
(* share a buffer that are never in use at the same time, going by the     *)
(* graphs it lowers the recipe to.  A batch then runs the operators, layer *)
(* by layer, on the device each layer is placed on, and carries what       *)
(* crosses from one device to the next.                                    *)
(*                                                                         *)
(* Beside the memory the batch runs in, `ref' keeps what each slot would   *)
(* hold on one device with a buffer for every slot.                        *)
(***************************************************************************)
EXTENDS Integers, Sequences

CONSTANTS
    Slots,     \* recipe slots
    Order,     \* the slots, by falling size of a row
    Carried,   \* slots that are moved from device to device
    NLayers,
    Devices,
    Main,      \* the model's own device
    Placed,    \* the device of each layer
    Recipes    \* the recipes a model may have

(* What recipe_op_touch and batch_extra_mask say of an operator: the slots *)
(* it reads, writes, and uses besides; of these, whether it uses them for  *)
(* itself alone or leaves something in them for the next operator.         *)
Operator == [reads : SUBSET Slots, writes : SUBSET Slots, hidden : SUBSET Slots,
             local : BOOLEAN, swaps : BOOLEAN]

Layers == 1 .. NLayers
Pre == 0
Post == NLayers + 1
Stages == Pre .. Post

(* An operator is known by its stage and its place in it; that is also the *)
(* order in which they run.                                                *)
NodesOf(r, stage) == {stage} \X DOMAIN r[stage]
NodesIn(r, stages) == UNION {NodesOf(r, t) : t \in stages}

Before(a, b) == a[1] < b[1] \/ (a[1] = b[1] /\ a[2] < b[2])
UpTo(a, b) == a = b \/ Before(a, b)

Op(r, a) == r[a[1]][a[2]]
Touched(r, a) == Op(r, a).writes \cup Op(r, a).hidden

(* Some operator of `nodes', at or after a, reads what slot s holds at a.  *)
Awaited(r, nodes, s, a) ==
    \E b \in nodes : /\ UpTo(a, b) /\ s \in Op(r, b).reads
                     /\ \A c \in nodes : UpTo(a, c) /\ Before(c, b) => s \notin Op(r, c).writes

(* A layer reads what a slot held before it.                               *)
Exposed(r, layer, s) == Awaited(r, NodesOf(r, layer), s, <<layer, 1>>)

-----------------------------------------------------------------------------
(* The graph of a layer is the recipe of a model with this layer only.     *)
GraphNodes(r, layer) == NodesIn(r, {Pre, layer, Post})

\* Fault: what only other layers read is taken for dead after the last read.
LiveOnce(r, layer, s, a) ==
    s \in Op(r, a).writes \/ Awaited(r, GraphNodes(r, layer), s, a)

(* A value of slot s is live at node a: it is written there or read later, *)
(* it came into the layer, which other layers read as well, or it goes     *)
(* round the loop of layers.  This is the union over the values of s of    *)
(* the ranges that graph_value_ranges computes.                            *)
Live(r, layer, s, a) ==
    \/ s \in Op(r, a).writes
    \/ Awaited(r, GraphNodes(r, layer), s, a)
    \/ a[1] = layer /\ Exposed(r, layer, s)
    \/ /\ Exposed(r, layer, s)
       /\ \E b \in NodesOf(r, layer) : s \in Op(r, b).writes

(* An operator uses s besides, or stands between two that do.              *)
Hides(r, s, a) == s \in Op(r, a).hidden /\ ~Op(r, a).local
HiddenUse(r, s, a) ==
    \/ s \in Op(r, a).hidden
    \/ \E b, c \in NodesOf(r, a[1]) :
           UpTo(b, a) /\ UpTo(a, c) /\ Hides(r, s, b) /\ Hides(r, s, c)

InUse(r, layer, s, a) == Live(r, layer, s, a) \/ HiddenUse(r, s, a)

Conflict(r, s, t) ==
    /\ s # t
    /\ \E layer \in Layers : \E a \in GraphNodes(r, layer) :
           InUse(r, layer, s, a) /\ InUse(r, layer, t, a)

Seen(r, s) ==
    \E a \in NodesIn(r, Stages) : s \in Op(r, a).reads \cup Touched(r, a)
Pinned(r, s) ==
    \E a \in NodesIn(r, Stages) :
        Op(r, a).swaps /\ s \in Op(r, a).reads \cup Op(r, a).writes
Aliasable(r, s) == Seen(r, s) /\ ~Pinned(r, s)

-----------------------------------------------------------------------------
(* What the recipes of the architectures have in common.  graph_validate   *)
(* and part_plan_check_carry report some of it, mem_plan_build relies on   *)
(* all of it.                                                              *)

SwapsTwo(r) ==
    \A a \in NodesIn(r, Stages) : Op(r, a).swaps =>
        /\ Op(r, a).writes = Op(r, a).reads /\ Op(r, a).hidden = {}
        /\ \E s, t \in Slots : s # t /\ Op(r, a).reads = {s, t}

(* What an operator reads was written, whatever the layers before it did.  *)
Defined(r) ==
    \A layer \in Layers : \A a \in GraphNodes(r, layer) : \A s \in Op(r, a).reads :
        \E b \in GraphNodes(r, layer) : Before(b, a) /\ s \in Op(r, b).writes

(* All layers take over the same slots, and only carried ones.             *)
SameExposed(r) ==
    \A s \in Slots : \A k, l \in Layers : Exposed(r, k, s) => Exposed(r, l, s)
CrossesCarried(r) ==
    \A s \in Slots : \A t \in Layers \cup {Post} : Exposed(r, t, s) => s \in Carried

(* Carried slots that are both in use are in use together somewhere.       *)
CarriedApart(r) ==
    \A s, t \in Carried : s # t /\ Seen(r, s) /\ Seen(r, t) => Conflict(r, s, t)

WellFormed(r) ==
    /\ r \in [Stages -> Seq(Operator)]
    /\ SwapsTwo(r) /\ Defined(r) /\ SameExposed(r) /\ CrossesCarried(r) /\ CarriedApart(r)

ASSUME PlanAssumption ==
    /\ NLayers \in Nat \ {0}
    /\ Order \in Seq(Slots)
    /\ \A i, j \in DOMAIN Order : Order[i] = Order[j] => i = j
    /\ Carried \subseteq Slots
    /\ Main \in Devices
    /\ Placed \in [Layers -> Devices]

ASSUME RecipeAssumption == \A r \in Recipes : WellFormed(r)

-----------------------------------------------------------------------------
VARIABLES
    recipe,
    phase,     \* "plan" while slots are grouped, "run" in a batch, "idle"
    turn,      \* the place in Order of the slot that is grouped next
    rep,       \* the slot whose buffer a slot uses
    at,        \* the operator that runs next
    bind,      \* on each device, the buffer a slot is bound to (bs->pair)
    mem,       \* on each device, what a buffer holds
    ref        \* what a slot would hold in a buffer of its own

vars == <<recipe, phase, turn, rep, at, bind, mem, ref>>
batch == <<at, bind, mem, ref>>

(* Contents are told apart by the slot and the operator that wrote them,   *)
(* and by whether all rows are there or those that need logits.            *)
Content(s, a) == [slot |-> s, node |-> a, rows |-> "all"]
Rows(v) == [v EXCEPT !.rows = "gathered"]
Stale == <<-1, 1>>
Missing == <<-1, 2>>

DeviceOf(stage) == IF stage \in Layers THEN Placed[stage] ELSE Main

Init ==
    /\ recipe \in Recipes
    /\ phase = "plan" /\ turn = 1
    /\ rep = [s \in Slots |-> s]
    /\ at = <<Pre, 1>>
    /\ bind = [d \in Devices |-> rep]
    /\ mem = [d \in Devices |-> [s \in Slots |-> Content(s, Stale)]]
    /\ ref = [s \in Slots |-> Content(s, Missing)]

\* Fault: only the slot that gave the buffer its name is looked at.
CanJoinFirst(s, i) ==
    /\ rep[Order[i]] = Order[i] /\ Aliasable(recipe, Order[i])
    /\ ~Conflict(recipe, Order[i], s)

(* group_slots: a slot joins the first buffer before it none of whose      *)
(* slots it conflicts with.                                                *)
CanJoin(s, i) ==
    /\ rep[Order[i]] = Order[i] /\ Aliasable(recipe, Order[i])
    /\ \A t \in Slots : t # s /\ rep[t] = Order[i] => ~Conflict(recipe, t, s)

Joinable(s) == {i \in 1 .. turn - 1 : CanJoin(s, i)}

Group ==
    /\ phase = "plan" /\ turn \in DOMAIN Order
    /\ LET s == Order[turn]
       IN  \/ /\ Aliasable(recipe, s)
              /\ \E i \in Joinable(s) : /\ \A j \in Joinable(s) : i <= j
                                        /\ rep' = [rep EXCEPT ![s] = Order[i]]
           \/ /\ ~Aliasable(recipe, s) \/ Joinable(s) = {}
              /\ UNCHANGED rep
    /\ turn' = turn + 1
    /\ UNCHANGED <<recipe, phase, batch>>

(* batch_scratch_prepare: each slot is bound to its place in the arena;    *)
(* nothing of an earlier batch counts.                                     *)
Prepare ==
    /\ phase = "idle" \/ (phase = "plan" /\ turn \notin DOMAIN Order)
    /\ phase' = "run"
    /\ at' = <<Pre, 1>>
    /\ bind' = [d \in Devices |-> rep]
    /\ mem' = [d \in Devices |-> [s \in Slots |-> Content(s, Stale)]]
    /\ ref' = [s \in Slots |-> Content(s, Missing)]
    /\ UNCHANGED <<recipe, turn, rep>>

Here == DeviceOf(at[1])
Running == phase = "run" /\ at[2] \in DOMAIN recipe[at[1]]
Now == Op(recipe, at)
Advance == at' = <<at[1], at[2] + 1>> /\ UNCHANGED <<recipe, phase, turn, rep>>

(* An operator writes its outputs and its temporary slots.                 *)
Into(b) == {s \in Touched(recipe, at) : bind[Here][s] = b}
Written(b) == Content(CHOOSE s \in Into(b) : TRUE, at)

Compute ==
    /\ Running /\ ~Now.swaps
    /\ ref' = [s \in Slots |-> IF s \in Touched(recipe, at) THEN Content(s, at) ELSE ref[s]]
    /\ mem' = [mem EXCEPT ![Here] =
                  [b \in Slots |-> IF Into(b) # {} THEN Written(b) ELSE @[b]]]
    /\ Advance /\ UNCHANGED bind

(* op_swap exchanges the bindings and moves nothing.                       *)
Other(s) == CHOOSE t \in Now.reads : t # s
Swapped(f) == [s \in Slots |-> IF s \in Now.reads THEN f[Other(s)] ELSE f[s]]

Swap ==
    /\ Running /\ Now.swaps
    /\ bind' = [bind EXCEPT ![Here] = Swapped(@)]
    /\ ref' = Swapped(ref)
    /\ Advance /\ UNCHANGED mem

(* part_run_transfer: the carried slots, from one device to the next.      *)
CarriedTo(d, b) == {c \in Carried : bind[d][c] = b}
Moved(from, to) ==
    IF from = to THEN mem
    ELSE [mem EXCEPT ![to] = [b \in Slots |->
              IF CarriedTo(to, b) # {}
              THEN mem[from][bind[from][CHOOSE c \in CarriedTo(to, b) : TRUE]]
              ELSE @[b]]]

(* part_run_gather: the rows that need logits, of the carried slots.       *)
Gathered(m) ==
    [m EXCEPT ![Main] = [b \in Slots |->
        IF CarriedTo(Main, b) # {} THEN Rows(@[b]) ELSE @[b]]]

StageDone == phase = "run" /\ at[2] \notin DOMAIN recipe[at[1]]

NextLayer ==
    /\ StageDone /\ at[1] + 1 \in Layers
    /\ mem' = Moved(Here, DeviceOf(at[1] + 1))
    /\ at' = <<at[1] + 1, 1>>
    /\ UNCHANGED <<recipe, phase, turn, rep, bind, ref>>

LastLayer ==
    /\ StageDone /\ at[1] = NLayers
    /\ \/ mem' = Moved(Here, Main) /\ UNCHANGED ref
       \/ /\ mem' = Gathered(Moved(Here, Main))
          /\ ref' = [s \in Slots |-> Rows(ref[s])]
    /\ at' = <<Post, 1>>
    /\ UNCHANGED <<recipe, phase, turn, rep, bind>>

(* The batch has its logits, or was interrupted, or an operator failed.    *)
BatchEnds ==
    /\ phase = "run"
    /\ phase' = "idle"
    /\ UNCHANGED <<recipe, turn, rep, batch>>

Next == Group \/ Prepare \/ Compute \/ Swap \/ NextLayer \/ LastLayer \/ BatchEnds

Spec == Init /\ [][Next]_vars

-----------------------------------------------------------------------------
(* What a slot holds for an operator that is about to run.                 *)
Holds(s) == mem[Here][bind[Here][s]] = ref[s]

(* Sharing buffers, swapping bindings and moving from device to device are *)
(* invisible: an operator reads what it would read on one device with a    *)
(* buffer for every slot, nothing it writes shares a buffer with an        *)
(* operand or another output, and what operators of a stage leave in       *)
(* hidden slots for each other is still there.                             *)
OperandsRight ==
    Running =>
        /\ \A s \in Now.reads : Holds(s)
        /\ \A t \in Touched(recipe, at) : \A s \in Now.reads \cup Touched(recipe, at) :
               s # t => bind[Here][s] # bind[Here][t]
        /\ \A s \in Slots, a \in NodesOf(recipe, at[1]) :
               Before(a, at) /\ Hides(recipe, s, a) /\ Hides(recipe, s, at) => Holds(s)
=============================================================================
