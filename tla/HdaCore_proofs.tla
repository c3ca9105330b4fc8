-------------------------- MODULE HdaCore_proofs --------------------------
(***************************************************************************)
(* Proofs about four parts of the HD-audio core.                           *)
(*                                                                         *)
(* DisplayAudio, for any set of users and any number of bindings: what is  *)
(* taken from the graphics driver is given back once (DisplayKept).  What  *)
(* the history variables say has to be made precise: a cookie that is held *)
(* while nothing is bound is a stale one, and once somebody has asked, the *)
(* cookie and the set of users agree.                                      *)
(*                                                                         *)
(* WidgetTree, for any ranges of nodes and any number of refreshes: the    *)
(* array of the codec's nodes and what sysfs shows agree (TreeKept).       *)
(*                                                                         *)
(* HdaStream, for any finite set of descriptors and any programs: no       *)
(* descriptor has two users, what the loader borrows comes back, and the   *)
(* running flag is the hardware's (StreamsShared).  And for any set-ups,   *)
(* the list a running stream plays from describes its program's buffer     *)
(* (ListRight).  What the recursions of SetupBdle and Entries compute is   *)
(* proved from the last call back: the calls that go wrong would have a    *)
(* last one.  Which list a stream holds is told by ListInv, over every     *)
(* order of prepares, loads and failures.                                  *)
(*                                                                         *)
(* HdaQueries, for any connection lists, arrays, rates and amplifiers: the *)
(* answers are what the codec's words say (QueriesRight).  What the two    *)
(* loops compute, over entries and over verbs, is proved in the same way,  *)
(* from the first turn that would go wrong.                                *)
(***************************************************************************)
EXTENDS DisplayAudio, WidgetTree, HdaStream, HdaQueries,
        SequenceTheorems, FiniteSetTheorems, WellFoundedInduction, TLAPS

\* Types but for the flags
DisplayTypeOK ==
  /\ acomp \in {"none", "added", "bound"}
  /\ gpuPower \in Int /\ gpuPins \in Int

\* A cookie outlives the binding only as a stale one.
CookieBound == power_active /\ acomp # "bound" => stale

\* Once somebody has asked, there is a cookie exactly while someone wants power.
CookieWanted == acomp = "bound" /\ ~unasked => (power_active <=> power_status # {})

\* One cookie, one reference.
CookieCounted == ~stale => gpuPower = IF power_active THEN 1 ELSE 0

FlagsOK == power_active \in BOOLEAN /\ stale \in BOOLEAN /\ unasked \in BOOLEAN

DisplayInv ==
  /\ DisplayTypeOK /\ FlagsOK
  /\ PinnedWhileBound /\ CookieBound /\ CookieWanted /\ CookieCounted

-----------------------------------------------------------------------------

\* The graphics driver comes or goes with its count; a cookie still held is stale from then on.
LEMMA GpuKeeps ==
  ASSUME DisplayInv, GpuComesOrGoes
  PROVE  DisplayInv'
<1>1. FlagsOK' /\ (stale' <=> power_active) /\ (power_active' <=> power_active)
  BY Zenon DEF GpuComesOrGoes, DisplayInv, FlagsOK
<1>2. /\ acomp # "bound" /\ acomp' = acomp /\ gpuPower' = 0 /\ gpuPins' = gpuPins
  BY DEF GpuComesOrGoes
<1>3. DisplayTypeOK' /\ PinnedWhileBound' /\ CookieBound' /\ CookieWanted' /\ CookieCounted'
  BY <1>1, <1>2 DEF DisplayInv, DisplayTypeOK, PinnedWhileBound, CookieBound, CookieWanted,
                    CookieCounted
<1>4. QED
  BY <1>1, <1>3 DEF DisplayInv

\* A binding pins the module if it succeeds; nobody has asked since.
LEMMA BindKeeps ==
  ASSUME DisplayInv, MasterBind
  PROVE  DisplayInv'
<1>1. FlagsOK' /\ (stale' <=> stale) /\ (power_active' <=> power_active)
  BY Zenon DEF MasterBind, BindOk, BindFails, DisplayInv, FlagsOK
<1>2. /\ acomp = "added" /\ gpuPower' = gpuPower
      /\ \/ acomp' = "bound" /\ gpuPins' = gpuPins + 1 /\ unasked'
         \/ acomp' = "added" /\ gpuPins' = gpuPins
  BY DEF MasterBind, BindOk, BindFails
<1>3. DisplayTypeOK' /\ PinnedWhileBound' /\ CookieBound' /\ CookieWanted' /\ CookieCounted'
  BY <1>1, <1>2 DEF DisplayInv, DisplayTypeOK, PinnedWhileBound, CookieBound, CookieWanted,
                    CookieCounted
<1>4. QED
  BY <1>1, <1>3 DEF DisplayInv

\* An unbinding unpins it; a cookie still held becomes stale.
LEMMA UnbindKeeps ==
  ASSUME DisplayInv, MasterUnbind
  PROVE  DisplayInv'
<1>1. /\ FlagsOK' /\ (stale' <=> (stale \/ power_active))
      /\ (power_active' <=> power_active)
  BY Zenon DEF MasterUnbind, DisplayInv, FlagsOK
<1>2. acomp = "bound" /\ acomp' = "added" /\ gpuPins' = gpuPins - 1 /\ gpuPower' = 0
  BY DEF MasterUnbind
<1>3. DisplayTypeOK' /\ PinnedWhileBound' /\ CookieBound' /\ CookieWanted' /\ CookieCounted'
  BY <1>1, <1>2 DEF DisplayInv, DisplayTypeOK, PinnedWhileBound, CookieBound, CookieWanted,
                    CookieCounted
<1>4. QED
  BY <1>1, <1>3 DEF DisplayInv

\* snd_hdac_acomp_init binds at once, or only adds the component.
LEMMA InitKeeps ==
  ASSUME DisplayInv, AcompInit
  PROVE  DisplayInv'
<1>1. FlagsOK' /\ (stale' <=> stale) /\ (power_active' <=> power_active)
  BY Zenon DEF AcompInit, BindOk, DisplayInv, FlagsOK
<1>2. /\ acomp = "none" /\ gpuPower' = gpuPower
      /\ \/ acomp' = "bound" /\ gpuPins' = gpuPins + 1 /\ unasked'
         \/ acomp' = "added" /\ gpuPins' = gpuPins
  BY DEF AcompInit, BindOk
<1>3. DisplayTypeOK' /\ PinnedWhileBound' /\ CookieBound' /\ CookieWanted' /\ CookieCounted'
  BY <1>1, <1>2 DEF DisplayInv, DisplayTypeOK, PinnedWhileBound, CookieBound, CookieWanted,
                    CookieCounted
<1>4. QED
  BY <1>1, <1>3 DEF DisplayInv

\* snd_hdac_acomp_exit gives back what is held, if there is someone to take it.
LEMMA ExitKeeps ==
  ASSUME DisplayInv, AcompExit
  PROVE  DisplayInv'
<1>1. FlagsOK' /\ (stale' <=> stale) /\ ~power_active'
  BY Zenon DEF AcompExit, DisplayInv, FlagsOK
<1>2. /\ gpuPower' = IF power_active /\ acomp = "bound" THEN gpuPower - 1 ELSE gpuPower
      /\ gpuPins' = IF acomp = "bound" THEN gpuPins - 1 ELSE gpuPins
      /\ acomp # "none" /\ acomp' = "none"
  BY DEF AcompExit
<1>3. DisplayTypeOK' /\ PinnedWhileBound' /\ CookieBound' /\ CookieWanted' /\ CookieCounted'
  BY <1>1, <1>2 DEF DisplayInv, DisplayTypeOK, PinnedWhileBound, CookieBound, CookieWanted,
                    CookieCounted
<1>4. QED
  BY <1>1, <1>3 DEF DisplayInv

\* snd_hdac_i915_init binds or leaves nothing behind.
LEMMA I915Keeps ==
  ASSUME DisplayInv, I915Init
  PROVE  DisplayInv'
<1>1. FlagsOK' /\ (stale' <=> stale) /\ (power_active' => power_active)
  <2>1. stale' = stale
    BY Zenon DEF I915Init
  <2>2. \/ unasked' = TRUE /\ power_active' = power_active
        \/ unasked' = unasked /\ power_active' = FALSE
    BY Zenon DEF I915Init, BindOk
  <2>3. CASE unasked' = TRUE /\ power_active' = power_active
    BY <2>1, <2>3, Zenon DEF DisplayInv, FlagsOK
  <2>4. CASE unasked' = unasked /\ power_active' = FALSE
    BY <2>1, <2>4, Zenon DEF DisplayInv, FlagsOK
  <2>5. QED
    BY <2>2, <2>3, <2>4
<1>2. /\ acomp = "none" /\ gpuPower' = gpuPower
      /\ \/ acomp' = "bound" /\ gpuPins' = gpuPins + 1 /\ unasked' /\ power_active' = power_active
         \/ acomp' = "none" /\ gpuPins' = gpuPins /\ ~power_active'
  BY DEF I915Init, BindOk
<1>3. DisplayTypeOK' /\ PinnedWhileBound' /\ CookieBound' /\ CookieWanted' /\ CookieCounted'
  BY <1>1, <1>2 DEF DisplayInv, DisplayTypeOK, PinnedWhileBound, CookieBound, CookieWanted,
                    CookieCounted
<1>4. QED
  BY <1>1, <1>3 DEF DisplayInv

\* A request: without a binding it is only noted.
LEMMA PowerKeeps ==
  ASSUME NEW idx, NEW enable \in BOOLEAN, DisplayInv, DisplayPower(idx, enable)
  PROVE  DisplayInv'
<1>1. FlagsOK' /\ (stale' <=> stale)
  BY Zenon DEF DisplayPower, DisplayInv, FlagsOK
<1>2. acomp' = acomp /\ gpuPins' = gpuPins
  BY DEF DisplayPower
<1>3. CASE acomp # "bound"
  <2>1. (power_active' <=> power_active) /\ (unasked' <=> unasked)
    BY <1>3, Zenon DEF DisplayPower
  <2>2. gpuPower' = gpuPower
    BY <1>3 DEF DisplayPower
  <2>3. DisplayTypeOK' /\ PinnedWhileBound' /\ CookieBound' /\ CookieWanted' /\ CookieCounted'
    BY <1>1, <1>2, <1>3, <2>1, <2>2
       DEF DisplayInv, DisplayTypeOK, PinnedWhileBound, CookieBound, CookieWanted, CookieCounted
  <2>4. QED
    BY <1>1, <2>3 DEF DisplayInv
<1>4. CASE acomp = "bound"
  <2>1. power_active' <=> power_status' # {}
    BY <1>4, Zenon DEF DisplayPower
  <2>2. gpuPower' = CASE power_status' # {} /\ ~power_active -> gpuPower + 1
                      [] power_status' = {} /\ power_active -> gpuPower - 1
                      [] OTHER -> gpuPower
    BY <1>4 DEF DisplayPower
  <2>3. DisplayTypeOK' /\ PinnedWhileBound' /\ CookieBound' /\ CookieWanted' /\ CookieCounted'
    BY <1>1, <1>2, <1>4, <2>1, <2>2
       DEF DisplayInv, DisplayTypeOK, PinnedWhileBound, CookieBound, CookieWanted, CookieCounted
  <2>4. QED
    BY <1>1, <2>3 DEF DisplayInv
<1>5. QED
  BY <1>3, <1>4

\* The invariant holds from the beginning on, for every order of comings, goings,
\* bindings and requests (component.c, i915.c).
THEOREM DisplayInvariant == DisplaySpec => []DisplayInv
<1>1. DisplayInit => DisplayInv
  <2>1. DisplayInit => FlagsOK /\ ~power_active
    BY Zenon DEF DisplayInit, FlagsOK
  <2>2. DisplayInit => acomp = "none" /\ gpuPower = 0 /\ gpuPins = 0
    BY DEF DisplayInit
  <2>3. QED
    BY <2>1, <2>2 DEF DisplayInv, DisplayTypeOK, PinnedWhileBound, CookieBound, CookieWanted,
                      CookieCounted
<1>2. DisplayInv /\ [DisplayNext]_displayVars => DisplayInv'
  <2>1. DisplayInv /\ UNCHANGED displayVars => DisplayInv'
    BY DEF DisplayInv, DisplayTypeOK, PinnedWhileBound, CookieBound, CookieWanted, CookieCounted,
           FlagsOK, displayVars
  <2>2. QED
    BY <2>1, GpuKeeps, BindKeeps, UnbindKeeps, InitKeeps, ExitKeeps, I915Keeps, PowerKeeps
       DEF DisplayNext
<1>3. QED
  BY <1>1, <1>2, PTL DEF DisplaySpec

\* The graphics module is pinned exactly while it is bound, and the display's power
\* is held by one reference exactly while someone wants it, but for a cookie that
\* outlived its binding (snd_hdac_display_power, snd_hdac_acomp_exit).
THEOREM DisplayIsKept == DisplaySpec => []DisplayKept
<1>1. DisplayInv => DisplayKept
  BY DEF DisplayInv, CookieWanted, CookieCounted, DisplayTypeOK, DisplayKept, PowerFollowsUsers
<1>2. QED
  BY <1>1, DisplayInvariant, PTL

-----------------------------------------------------------------------------
(* WidgetTree: the array of nodes, and what is in sysfs.                   *)

\* Every node of the range has its entry, but where a refresh left a hole.
NodesPlaced ==
  /\ tree.nodes = [i \in 1..range.num |-> tree.nodes[i]]
  /\ \A i \in 1..range.num : tree.nodes[i] \in {0, range.start + i - 1}
  /\ ~holes => \A i \in 1..range.num : tree.nodes[i] = range.start + i - 1

\* The tree stands while the device is registered, and sysfs holds its nodes.
TreeStands ==
  IF dev = "registered"
    THEN /\ tree = [there |-> TRUE, nodes |-> tree.nodes, afg |-> TRUE] /\ NodesPlaced
         /\ ~holes => objects = NidsOf(range) \cup {AfgNode}
    ELSE tree = NoTree /\ (~holes => objects = {})

WidgetInv ==
  /\ dev \in {"none", "inited", "registered", "unregistered"} /\ holes \in BOOLEAN
  /\ usage_cnt = IF dev = "none" THEN 0 ELSE 1
  /\ dev = "none" => ~onBus
  /\ dev # "none" => range \in WidgetRanges
  /\ TreeStands

\* An array with num entries has length num.
LEMMA LenOf ==
  ASSUME NEW num \in Nat, NEW f, f = [i \in 1..num |-> f[i]]
  PROVE  Len(f) = num
<1> DEFINE S == {f[i] : i \in 1..num}
<1>1. f \in [1..num -> S]
  OBVIOUS
<1>2. f \in Seq(S)
  BY <1>1, SeqDef
<1>3. DOMAIN f = 1..Len(f) /\ DOMAIN f = 1..num /\ Len(f) \in Nat
  BY <1>1, <1>2
<1>4. QED
  BY <1>3

\* An array of which the first n entries are nodes from start on and the others NULL
Prefix(start, num, n) == [i \in 1..num |-> IF i <= n THEN start + i - 1 ELSE 0]

\* What is freed of a tree with such an array is what there is of it.
LEMMA FreedAll ==
  ASSUME NEW start \in Nat \ {0}, NEW num \in Nat, NEW n \in 0..num, NEW t,
         t.nodes = Prefix(start, num, n)
  PROVE  /\ FreedNodes(t) = ObjectsOf(t)
         /\ ObjectsOf(t) = (start..(start + n - 1)) \cup (IF t.afg THEN {AfgNode} ELSE {})
<1> DEFINE nodes == t.nodes
           stop == {i \in 1..Len(nodes) : nodes[i] = 0}
           end == IF stop = {} THEN Len(nodes) ELSE (CHOOSE i \in stop : \A j \in stop : i <= j) - 1
<1>1. /\ Len(nodes) = num
      /\ {nodes[i] : i \in 1..Len(nodes)} \ {0} = start..(start + n - 1)
      /\ {nodes[i] : i \in 1..n} = start..(start + n - 1)
      /\ \A i \in 1..num : nodes[i] = 0 <=> i > n
  <2>0. nodes = [i \in 1..num |-> IF i <= n THEN start + i - 1 ELSE 0]
    BY DEF Prefix
  <2> HIDE DEF nodes
  <2>1. \A i \in 1..num : nodes[i] = (IF i <= n THEN start + i - 1 ELSE 0) /\ nodes[i] \in Nat
    BY <2>0
  <2>2. Len(nodes) = num
    <3>1. nodes = [i \in 1..num |-> nodes[i]]
      BY <2>0
    <3>2. QED
      BY <3>1, LenOf
  <2>3. {nodes[i] : i \in 1..n} = start..(start + n - 1)
    <3>1. ASSUME NEW x \in start..(start + n - 1)
          PROVE  x \in {nodes[i] : i \in 1..n}
      <4>1. x - start + 1 \in 1..n /\ x - start + 1 \in 1..num /\ x - start + 1 <= n
            /\ start + (x - start + 1) - 1 = x
        OBVIOUS
      <4>2. nodes[x - start + 1] = x
        BY <2>1, <4>1
      <4>3. QED
        BY <4>1, <4>2
    <3>2. ASSUME NEW i \in 1..n
          PROVE  nodes[i] \in start..(start + n - 1)
      <4>1. i \in 1..num /\ i <= n /\ start + i - 1 \in start..(start + n - 1)
        OBVIOUS
      <4>2. QED
        BY <2>1, <4>1
    <3>3. QED
      BY <3>1, <3>2
  <2>4. \A i \in 1..num : nodes[i] = 0 <=> i > n
    BY <2>1
  <2>5. {nodes[i] : i \in 1..num} \ {0} = {nodes[i] : i \in 1..n}
    <3>1. \A i \in 1..num : nodes[i] # 0 => i \in 1..n
      BY <2>4
    <3>2. \A i \in 1..n : i \in 1..num /\ nodes[i] # 0
      BY <2>4
    <3>3. QED
      BY <3>1, <3>2
  <2>6. QED
    BY <2>2, <2>3, <2>4, <2>5
<1>2. FreedNodes(t) = {nodes[i] : i \in 1..end} \cup (IF t.afg THEN {AfgNode} ELSE {})
  BY DEF FreedNodes
<1>3. ObjectsOf(t) = ({nodes[i] : i \in 1..Len(nodes)} \ {0}) \cup (IF t.afg THEN {AfgNode} ELSE {})
  BY DEF ObjectsOf
<1> HIDE DEF nodes
<1>4. end = n
  <2>1. CASE n = num
    <3>1. stop = {}
      BY <1>1, <2>1
    <3>2. QED
      BY <1>1, <2>1, <3>1
  <2>2. CASE n < num
    <3>1. stop = (n + 1)..num
      BY <1>1, <2>2
    <3>2. n + 1 \in stop /\ \A j \in stop : n + 1 <= j
      BY <2>2, <3>1
    <3>3. \A i \in stop : (\A j \in stop : i <= j) => i = n + 1
      BY <2>2, <3>1, <3>2
    <3> DEFINE first == CHOOSE i \in stop : \A j \in stop : i <= j
    <3>4. first \in stop /\ \A j \in stop : first <= j
      BY <3>2
    <3> HIDE DEF first
    <3>5. first = n + 1
      BY <3>3, <3>4
    <3>6. stop # {} /\ n + 1 - 1 = n
      BY <3>2
    <3>7. end = first - 1
      BY <3>6, Zenon DEF first
    <3>8. QED
      BY <3>5, <3>6, <3>7
  <2>3. QED
    BY <2>1, <2>2
<1> HIDE DEF end, stop
<1>5. QED
  BY <1>1, <1>2, <1>3, <1>4

\* The range of a device that is there
LEMMA RangeIs ==
  ASSUME WidgetInv, dev # "none"
  PROVE  range \in WidgetRanges /\ range.start \in Nat \ {0} /\ range.num \in Nat \ {0} /\ AfgNode \notin NidsOf(range)
  BY WidgetAssumption DEF WidgetInv, NidsOf

\* The objects of a tree that stands without a hole
LEMMA StandingObjects ==
  ASSUME WidgetInv, dev = "registered", ~holes
  PROVE  /\ FreedNodes(tree) = objects /\ ObjectsOf(tree) = objects
         /\ ObjectsOf([tree EXCEPT !.afg = FALSE]) = NidsOf(range)
<1>1. range.start \in Nat \ {0} /\ range.num \in Nat /\ range.num \in 0..range.num
  BY RangeIs
<1>2. /\ tree = [there |-> TRUE, nodes |-> tree.nodes, afg |-> TRUE]
      /\ tree.nodes = [i \in 1..range.num |-> tree.nodes[i]]
      /\ \A i \in 1..range.num : tree.nodes[i] = range.start + i - 1
      /\ objects = NidsOf(range) \cup {AfgNode}
  BY DEF WidgetInv, TreeStands, NodesPlaced
<1>3. tree.nodes = Prefix(range.start, range.num, range.num)
  <2>1. PICK f : f = tree.nodes
    OBVIOUS
  <2>2. f = [i \in 1..range.num |-> f[i]] /\ \A i \in 1..range.num : f[i] = range.start + i - 1
    BY <1>2, <2>1
  <2>3. f = [i \in 1..range.num |-> range.start + i - 1]
    BY <2>2
  <2>4. f = Prefix(range.start, range.num, range.num)
    BY <1>1, <2>3 DEF Prefix
  <2>5. QED
    BY <2>1, <2>4
<1>4. tree.afg = TRUE
  BY <1>2
<1>5. PICK t : t = [tree EXCEPT !.afg = FALSE]
  OBVIOUS
<1>6. t.nodes = tree.nodes /\ t.afg = FALSE
  BY <1>2, <1>5
<1>7. FreedNodes(tree) = ObjectsOf(tree) /\ ObjectsOf(tree) = (range.start..(range.start + range.num - 1)) \cup {AfgNode}
  BY <1>1, <1>3, <1>4, FreedAll
<1>8. ObjectsOf(t) = (range.start..(range.start + range.num - 1)) \cup {}
  <2>1. t.nodes = Prefix(range.start, range.num, range.num)
    BY <1>3, <1>6
  <2>2. ObjectsOf(t) = (range.start..(range.start + range.num - 1)) \cup (IF t.afg THEN {AfgNode} ELSE {})
    BY <1>1, <2>1, FreedAll
  <2>3. QED
    BY <1>6, <2>2
<1>9. QED
  BY <1>2, <1>5, <1>7, <1>8 DEF NidsOf

LEMMA RegisterKeeps ==
  ASSUME WidgetInv, Register
  PROVE  WidgetInv'
<1>1. range.start \in Nat \ {0} /\ range.num \in Nat /\ range.num \in 0..range.num
  BY RangeIs DEF Register
<1>2. PICK t : t = PartTree(range.num, TRUE)
  OBVIOUS
<1>3. /\ t.there = TRUE /\ t.afg = TRUE /\ t = [there |-> TRUE, nodes |-> t.nodes, afg |-> TRUE]
      /\ t.nodes = Prefix(range.start, range.num, range.num)
  BY <1>2 DEF PartTree, Prefix
<1>4. ObjectsOf(t) = (range.start..(range.start + range.num - 1)) \cup {AfgNode}
  BY <1>1, <1>3, FreedAll
<1>5. tree' = t /\ objects' = objects \cup ObjectsOf(t)
  BY <1>2 DEF Register
<1>6. ~holes => objects' = NidsOf(range) \cup {AfgNode}
  BY <1>4, <1>5 DEF WidgetInv, TreeStands, Register, NidsOf
<1>7. NodesPlaced'
  <2>1. \A i \in 1..range.num : t.nodes[i] = range.start + i - 1
    BY <1>1, <1>3 DEF Prefix
  <2>2. t.nodes = [i \in 1..range.num |-> t.nodes[i]]
    BY <1>3 DEF Prefix
  <2>3. range' = range /\ holes' = holes
    BY DEF Register
  <2>4. QED
    BY <1>5, <2>1, <2>2, <2>3 DEF NodesPlaced
<1>8. TreeStands'
  BY <1>3, <1>5, <1>6, <1>7 DEF TreeStands, Register, NidsOf
<1>9. QED
  BY <1>8 DEF WidgetInv, Register

\* Of a tree that was not finished nothing stays.
LEMMA RegisterFailsKeeps ==
  ASSUME WidgetInv, RegisterFails
  PROVE  WidgetInv'
<1>1. range.start \in Nat \ {0} /\ range.num \in Nat
  BY RangeIs DEF RegisterFails
<1>2. PICK n \in 0..range.num :
        objects' = (objects \cup ObjectsOf(PartTree(n, FALSE))) \ FreedNodes(PartTree(n, FALSE))
  BY DEF RegisterFails
<1>3. PICK t : t = PartTree(n, FALSE)
  OBVIOUS
<1>4. t.nodes = Prefix(range.start, range.num, n)
  BY <1>3 DEF PartTree, Prefix
<1>5. FreedNodes(t) = ObjectsOf(t)
  <2>1. n \in 0..range.num
    BY <1>2
  <2>2. QED
    BY <1>1, <1>4, <2>1, FreedAll
<1>6. ~holes => objects' = {}
  BY <1>2, <1>3, <1>5 DEF WidgetInv, TreeStands, RegisterFails
<1>7. QED
  BY <1>6 DEF WidgetInv, TreeStands, RegisterFails

LEMMA UnregisterKeeps ==
  ASSUME WidgetInv, Unregister
  PROVE  WidgetInv'
<1>1. ~holes => objects' = {}
  BY StandingObjects DEF Unregister
<1>2. QED
  BY <1>1 DEF WidgetInv, TreeStands, Unregister

\* The new array: each entry is its node's, taken over or made, or NULL where that failed.
LEMMA RefreshKeeps ==
  ASSUME WidgetInv, NEW r \in WidgetRanges, NEW fails \in SUBSET NidsOf(r), Refresh(r, fails)
  PROVE  WidgetInv'
<1>1. /\ range.start \in Nat \ {0} /\ range.num \in Nat /\ AfgNode \notin NidsOf(range)
      /\ dev = "registered" /\ dev' = dev
  BY RangeIs DEF Refresh
<1>2. r.start \in Nat \ {0} /\ r.num \in Nat /\ AfgNode \notin NidsOf(r)
  BY WidgetAssumption DEF NidsOf
<1>3. /\ tree = [there |-> TRUE, nodes |-> tree.nodes, afg |-> TRUE]
      /\ \A i \in 1..range.num : tree.nodes[i] \in {0, range.start + i - 1}
      /\ ~holes => \A i \in 1..range.num : tree.nodes[i] = range.start + i - 1
      /\ ~holes => objects = NidsOf(range) \cup {AfgNode}
  BY <1>1 DEF WidgetInv, TreeStands, NodesPlaced
<1>4. PICK nodes : nodes = [i \in 1..r.num |-> Node(r, i, fails)]
  OBVIOUS
<1>5. tree' = [there |-> TRUE, nodes |-> nodes, afg |-> TRUE]
  <2>1. tree' = [tree EXCEPT !.nodes = nodes]
    BY <1>4 DEF Refresh
  <2>2. PICK old : old = tree.nodes
    OBVIOUS
  <2>3. tree = [there |-> TRUE, nodes |-> old, afg |-> TRUE]
    BY <1>3, <2>2
  <2>4. QED
    BY <2>1, <2>3
<1>6. ASSUME NEW i \in 1..r.num
      PROVE  /\ nodes[i] \in {0, r.start + i - 1}
             /\ ~holes /\ fails = {} => nodes[i] = r.start + i - 1
  <2>1. PICK nid \in Nat : nid = r.start + i - 1
    BY <1>2
  <2>2. nodes[i] = IF nid \in NidsOf(range) THEN tree.nodes[nid - range.start + 1]
                   ELSE IF nid \in fails THEN 0 ELSE nid
    BY <1>4, <2>1 DEF Node
  <2>3. nid \in NidsOf(range) => nid - range.start + 1 \in 1..range.num /\ range.start + (nid - range.start + 1) - 1 = nid
    BY <1>1 DEF NidsOf
  <2>4. /\ nid \in NidsOf(range) => nodes[i] \in {0, nid}
        /\ nid \in NidsOf(range) /\ ~holes => nodes[i] = nid
    BY <1>3, <2>2, <2>3
  <2>5. QED
    BY <2>1, <2>2, <2>4
<1>7. range' = r /\ (~holes' => ~holes /\ fails = {}) /\ holes' \in BOOLEAN
  <2>1. holes' = (holes \/ fails # {}) /\ holes \in BOOLEAN
    BY DEF Refresh, WidgetInv
  <2>2. QED
    BY <2>1, Zenon DEF Refresh
<1>8. NodesPlaced'
  <2>1. nodes = [i \in 1..r.num |-> nodes[i]]
    BY <1>4
  <2>2. tree'.nodes = nodes
    BY <1>5
  <2>3. QED
    BY <1>6, <1>7, <2>1, <2>2 DEF NodesPlaced
<1>9. ~holes' => objects' = NidsOf(r) \cup {AfgNode}
  <2> SUFFICES ASSUME ~holes' PROVE objects' = NidsOf(r) \cup {AfgNode}
    OBVIOUS
  <2>1. ~holes /\ fails = {}
    BY <1>7
  <2>2. ObjectsOf([tree EXCEPT !.afg = FALSE]) = NidsOf(range) /\ objects = NidsOf(range) \cup {AfgNode}
    BY <1>1, <1>3, <2>1, StandingObjects
  <2>3. objects' = (objects \ (NidsOf(range) \ NidsOf(r))) \cup ((NidsOf(r) \ NidsOf(range)) \ fails)
    BY <2>2 DEF Refresh
  <2>4. QED
    BY <1>1, <1>2, <2>1, <2>2, <2>3
<1>10. TreeStands'
  BY <1>1, <1>5, <1>7, <1>8, <1>9 DEF TreeStands, NidsOf
<1>11. QED
  BY <1>1, <1>7, <1>10 DEF WidgetInv, Refresh

LEMMA WidgetStep ==
  ASSUME WidgetInv, [WidgetNext]_widgetVars
  PROVE  WidgetInv'
<1>1. CASE UNCHANGED widgetVars
  BY <1>1 DEF widgetVars, WidgetInv, TreeStands, NodesPlaced, NidsOf
<1>2. ASSUME NEW r \in WidgetRanges, DeviceInit(r) PROVE WidgetInv'
  BY <1>2 DEF DeviceInit, WidgetInv, TreeStands
<1>3. CASE DeviceInitFails
  BY <1>3 DEF DeviceInitFails, WidgetInv, TreeStands
<1>4. CASE DeviceRelease
  BY <1>4 DEF DeviceRelease, WidgetInv, TreeStands
<1>5. CASE RefreshFails
  BY <1>5 DEF RefreshFails, WidgetInv, TreeStands, NodesPlaced, NidsOf
<1>6. QED
  BY <1>1, <1>2, <1>3, <1>4, <1>5, RefreshKeeps, RegisterKeeps, RegisterFailsKeeps, UnregisterKeeps DEF WidgetNext

\* The inductive invariant: while the device is registered the array has each node at its
\* place and sysfs has what the array has; otherwise there is neither (hda_widget_sysfs_init,
\* hda_widget_sysfs_reinit, hda_widget_sysfs_exit).
THEOREM WidgetInvariant == WidgetSpec => []WidgetInv
<1>1. WidgetInit => WidgetInv
  BY DEF WidgetInit, WidgetInv, TreeStands
<1>2. WidgetInv /\ [WidgetNext]_widgetVars => WidgetInv'
  BY WidgetStep
<1>3. QED
  BY <1>1, <1>2, PTL DEF WidgetSpec

\* Whatever step of building, refreshing or taking down the tree fails, for every set of
\* ranges: the tree, sysfs and the references of the device agree.
THEOREM TreeIsKept == WidgetSpec => []TreeKept
<1>1. ASSUME WidgetInv PROVE TreeKept
  <2>1. CASE dev = "registered"
    <3>1. range.num \in Nat /\ range.start \in Nat
      BY <1>1, <2>1, RangeIs
    <3>2. tree.there = TRUE /\ NodesPlaced
      BY <1>1, <2>1 DEF WidgetInv, TreeStands
    <3>3. Len(tree.nodes) = range.num
      BY <3>1, <3>2, LenOf DEF NodesPlaced
    <3>4. NodeAtItsPlace
      BY <3>2, <3>3 DEF NodeAtItsPlace, NodesPlaced
    <3>5. NoNodeLeft
      BY <1>1, <2>1, <3>2, StandingObjects DEF NoNodeLeft
    <3>6. QED
      BY <1>1, <2>1, <3>4, <3>5 DEF TreeKept, DeviceUndone
  <2>2. CASE dev # "registered"
    <3>1. tree.there = FALSE
      BY <1>1, <2>2 DEF WidgetInv, TreeStands, NoTree
    <3>2. QED
      BY <1>1, <2>2, <3>1 DEF TreeKept, NodeAtItsPlace, NoNodeLeft, DeviceUndone, WidgetInv, TreeStands
  <2>3. QED
    BY <2>1, <2>2
<1>2. QED
  BY <1>1, WidgetInvariant, PTL

-----------------------------------------------------------------------------
(* HdaStream: who has a stream, and whether the controller runs it.        *)

SdFields == {"opened", "running", "locked", "key", "substream", "params", "nowake", "frags"}
HwFields == {"dma", "cbl", "lvi"}
PcmFields == {"at", "dev", "setup"}
LoaderFields == {"at", "dev", "bytes"}

\* The variables are tables of structures.
Shapes ==
  /\ sd = [s \in Sds |-> sd[s]] /\ \A s \in Sds : sd[s] = [f \in SdFields |-> sd[s][f]]
  /\ hw = [s \in Sds |-> hw[s]] /\ \A s \in Sds : hw[s] = [f \in HwFields |-> hw[s][f]]
  /\ pcm = [u \in Substreams |-> pcm[u]] /\ \A u \in Substreams : pcm[u] = [f \in PcmFields |-> pcm[u][f]]
  /\ loader = [f \in LoaderFields |-> loader[f]]

Values ==
  /\ \A s \in Sds : /\ sd[s].opened \in BOOLEAN /\ sd[s].running \in BOOLEAN /\ sd[s].locked \in BOOLEAN
                    /\ hw[s].dma \in {"off", "on", "stopping"}
  /\ \A u \in Substreams : pcm[u].at \in {"closed", "open", "prepared", "running", "stopping"}
  /\ loader.at \in {"idle", "taken", "ready", "loading"}

\* A program that has a stream has it opened, and no other has it; a loader before the
\* program may have left it without a substream.
Owners ==
  /\ \A u \in Substreams :
       IF pcm[u].at = "closed" THEN pcm[u].dev = 0
       ELSE pcm[u].dev \in Sds /\ sd[pcm[u].dev].opened /\ sd[pcm[u].dev].substream \in {u, None}
  /\ \A u, v \in Substreams : u # v /\ pcm[u].dev = pcm[v].dev => pcm[u].dev = 0

\* A prepared stream is its program's, and the controller does with it what the program is at.
Active ==
  \A u \in Substreams :
    /\ pcm[u].at \in {"prepared", "running", "stopping"} =>
         ~sd[pcm[u].dev].locked /\ sd[pcm[u].dev].substream = u
    /\ pcm[u].at = "running" => hw[pcm[u].dev].dma = "on"
    /\ pcm[u].at = "stopping" => hw[pcm[u].dev].dma = "stopping"

\* What is locked is the stream the loader has, and it is at rest until it loads.
Lent ==
  /\ IF loader.at = "idle" THEN loader.dev = 0 ELSE loader.dev \in Sds
  /\ \A s \in Sds : sd[s].locked <=> loader.dev = s
  /\ loader.at \in {"taken", "ready"} => ~sd[loader.dev].running
  /\ loader.at = "taken" => hw[loader.dev].dma = "off"
  /\ loader.at \in {"ready", "loading"} => hw[loader.dev].cbl = loader.bytes
  /\ loader.at = "loading" => hw[loader.dev].dma = "on"

\* Nothing is set up on the stream, and its program, if it has one, has not prepared it.
Bare(s) ==
  /\ sd[s].params = NoParams
  /\ \A u \in Substreams : pcm[u].dev = s => pcm[u].at = "open"

FlagRight ==
  \A s \in Sds : ~sd[s].locked => (sd[s].running <=> hw[s].dma = "on") \/ Bare(s)

StreamInv == Shapes /\ Values /\ Owners /\ Active /\ Lent /\ QuietWhenFree /\ FlagRight

\* A set of streams that is not empty has a first one.
LEMMA LeastStream ==
  ASSUME NEW S, S \subseteq Nat, S # {}
  PROVE  \E x \in S : \A y \in S : x <= y
<1>1. PICK x \in S : \A y \in S : ~(<<y, x>> \in OpToRel(<, Nat))
  BY WFMin, NatLessThanWellFounded
<1>2. \A y \in S : ~(y < x)
  BY <1>1 DEF OpToRel
<1>3. QED
  BY <1>2

\* 0, the device of a program without a stream, is none of the streams.
LEMMA NoStreamZero == 0 \notin Sds /\ Sds \subseteq Nat
<1>1. IsFiniteSet(Sds) /\ Sds = 1..Cardinality(Sds)
  BY StreamAssumption
<1>2. Cardinality(Sds) \in Nat
  BY <1>1, FS_CardinalityType
<1>3. QED
  BY <1>1, <1>2

\* One entry of a table of structures is written.
LEMMA SdIs ==
  ASSUME Shapes, NEW s \in Sds, NEW e, e = [f \in SdFields |-> e[f]], sd' = [sd EXCEPT ![s] = e]
  PROVE  /\ sd' = [r \in Sds |-> sd'[r]] /\ \A r \in Sds : sd'[r] = [f \in SdFields |-> sd'[r][f]]
         /\ sd'[s] = e /\ \A r \in Sds : r # s => sd'[r] = sd[r]
<1>1. sd = [r \in Sds |-> sd[r]]
  BY DEF Shapes
<1>2. sd'[s] = e /\ (\A r \in Sds : r # s => sd'[r] = sd[r]) /\ sd' = [r \in Sds |-> sd'[r]]
  BY <1>1
<1>3. \A r \in Sds : sd'[r] = [f \in SdFields |-> sd'[r][f]]
  <2>1. ASSUME NEW r \in Sds, r # s PROVE sd'[r] = [f \in SdFields |-> sd'[r][f]]
    BY <1>2, <2>1 DEF Shapes
  <2>2. QED
    BY <1>2, <2>1
<1>4. QED
  BY <1>2, <1>3

LEMMA HwIs ==
  ASSUME Shapes, NEW s \in Sds, NEW e, e = [f \in HwFields |-> e[f]], hw' = [hw EXCEPT ![s] = e]
  PROVE  /\ hw' = [r \in Sds |-> hw'[r]] /\ \A r \in Sds : hw'[r] = [f \in HwFields |-> hw'[r][f]]
         /\ hw'[s] = e /\ \A r \in Sds : r # s => hw'[r] = hw[r]
<1>1. hw = [r \in Sds |-> hw[r]]
  BY DEF Shapes
<1>2. hw'[s] = e /\ (\A r \in Sds : r # s => hw'[r] = hw[r]) /\ hw' = [r \in Sds |-> hw'[r]]
  BY <1>1
<1>3. \A r \in Sds : hw'[r] = [f \in HwFields |-> hw'[r][f]]
  <2>1. ASSUME NEW r \in Sds, r # s PROVE hw'[r] = [f \in HwFields |-> hw'[r][f]]
    BY <1>2, <2>1 DEF Shapes
  <2>2. QED
    BY <1>2, <2>1
<1>4. QED
  BY <1>2, <1>3

LEMMA PcmIs ==
  ASSUME Shapes, NEW u \in Substreams, NEW e, e = [f \in PcmFields |-> e[f]], pcm' = [pcm EXCEPT ![u] = e]
  PROVE  /\ pcm' = [v \in Substreams |-> pcm'[v]]
         /\ \A v \in Substreams : pcm'[v] = [f \in PcmFields |-> pcm'[v][f]]
         /\ pcm'[u] = e /\ \A v \in Substreams : v # u => pcm'[v] = pcm[v]
<1>1. pcm = [v \in Substreams |-> pcm[v]]
  BY DEF Shapes
<1>2. /\ pcm'[u] = e /\ (\A v \in Substreams : v # u => pcm'[v] = pcm[v])
      /\ pcm' = [v \in Substreams |-> pcm'[v]]
  BY <1>1
<1>3. \A v \in Substreams : pcm'[v] = [f \in PcmFields |-> pcm'[v][f]]
  <2>1. ASSUME NEW v \in Substreams, v # u PROVE pcm'[v] = [f \in PcmFields |-> pcm'[v][f]]
    BY <1>2, <2>1 DEF Shapes
  <2>2. QED
    BY <1>2, <2>1
<1>4. QED
  BY <1>2, <1>3

\* A stream goes to a program that had none.
LEMMA AssignKeeps ==
  ASSUME StreamInv, NEW u \in Substreams, Assign(u)
  PROVE  StreamInv'
<1>1. PICK s : s = Chosen(u)
  OBVIOUS
<1>2. s \in Sds /\ ~sd[s].opened
  <2>1. Candidates # {} /\ Candidates \subseteq Nat
    BY NoStreamZero DEF Assign, Candidates
  <2>2. \E x \in Candidates : \A y \in Candidates : x <= y
    BY <2>1, LeastStream
  <2>3. s \in Candidates
    BY <1>1, <2>2 DEF Chosen, Least
  <2>4. QED
    BY <2>3 DEF Candidates
<1>3. PICK e : e = [sd[s] EXCEPT !.opened = TRUE, !.running = FALSE, !.key = u, !.substream = u]
  OBVIOUS
<1>4. /\ e = [f \in SdFields |-> e[f]] /\ e.opened = TRUE /\ e.running = FALSE
      /\ e.substream = u /\ e.locked = sd[s].locked
  BY <1>2, <1>3 DEF StreamInv, Shapes, SdFields
<1>5. sd' = [sd EXCEPT ![s] = e]
  BY <1>1, <1>3 DEF Assign
<1>6. PICK p : p = [at |-> "open", dev |-> s, setup |-> NoSetup]
  OBVIOUS
<1>7. p = [f \in PcmFields |-> p[f]] /\ p.at = "open" /\ p.dev = s
  BY <1>6 DEF PcmFields
<1>8. pcm' = [pcm EXCEPT ![u] = p]
  BY <1>1, <1>6 DEF Assign
<1>9. /\ sd' = [r \in Sds |-> sd'[r]] /\ \A r \in Sds : sd'[r] = [f \in SdFields |-> sd'[r][f]]
      /\ sd'[s] = e /\ \A r \in Sds : r # s => sd'[r] = sd[r]
  BY <1>2, <1>4, <1>5, SdIs DEF StreamInv
<1>10. /\ pcm' = [v \in Substreams |-> pcm'[v]]
       /\ \A v \in Substreams : pcm'[v] = [f \in PcmFields |-> pcm'[v][f]]
       /\ pcm'[u] = p /\ \A v \in Substreams : v # u => pcm'[v] = pcm[v]
  BY <1>7, <1>8, PcmIs DEF StreamInv
<1>11. hw' = hw /\ loader' = loader
  BY DEF Assign
<1>12. Shapes'
  BY <1>9, <1>10, <1>11 DEF StreamInv, Shapes
<1>13. Values'
  <2>1. \A r \in Sds : /\ sd'[r].opened \in BOOLEAN /\ sd'[r].running \in BOOLEAN /\ sd'[r].locked \in BOOLEAN
                       /\ hw'[r].dma \in {"off", "on", "stopping"}
    <3>1. e.opened \in BOOLEAN /\ e.running \in BOOLEAN /\ e.locked \in BOOLEAN
      BY <1>2, <1>4, Zenon DEF StreamInv, Values
    <3>2. QED
      BY <1>9, <1>11, <3>1, Zenon DEF StreamInv, Values
  <2>2. \A v \in Substreams : pcm'[v].at \in {"closed", "open", "prepared", "running", "stopping"}
    BY <1>7, <1>10 DEF StreamInv, Values
  <2>3. QED
    BY <1>11, <2>1, <2>2 DEF StreamInv, Values
<1>14. Owners'
  <2>1. \A v \in Substreams : v # u => pcm'[v] = pcm[v] /\ pcm[v].dev # s
    BY <1>2, <1>10, NoStreamZero DEF StreamInv, Owners
  <2>2. \A v \in Substreams :
          IF pcm'[v].at = "closed" THEN pcm'[v].dev = 0
          ELSE pcm'[v].dev \in Sds /\ sd'[pcm'[v].dev].opened /\ sd'[pcm'[v].dev].substream \in {v, None}
    <3>1. ASSUME NEW v \in Substreams, v # u, pcm[v].at # "closed"
          PROVE  /\ pcm'[v].dev \in Sds /\ sd'[pcm'[v].dev].opened
                 /\ sd'[pcm'[v].dev].substream \in {v, None}
      <4>1. pcm'[v].dev = pcm[v].dev /\ pcm[v].dev \in Sds /\ sd'[pcm[v].dev] = sd[pcm[v].dev]
        BY <1>9, <2>1, <3>1 DEF StreamInv, Owners
      <4>2. QED
        BY <3>1, <4>1, Zenon DEF StreamInv, Owners
    <3>2. ASSUME NEW v \in Substreams, v # u, pcm[v].at = "closed"
          PROVE  pcm'[v].at = "closed" /\ pcm'[v].dev = 0
      BY <2>1, <3>2 DEF StreamInv, Owners
    <3>3. pcm'[u].at # "closed" /\ pcm'[u].dev \in Sds /\ sd'[pcm'[u].dev].substream \in {u, None}
      BY <1>2, <1>4, <1>7, <1>9, <1>10
    <3>4. sd'[pcm'[u].dev].opened
      BY <1>4, <1>7, <1>9, <1>10, Zenon
    <3>5. QED
      BY <2>1, <3>1, <3>2, <3>3, <3>4
  <2>3. \A v, w \in Substreams : v # w /\ pcm'[v].dev = pcm'[w].dev => pcm'[v].dev = 0
    BY <1>7, <1>10, <2>1 DEF StreamInv, Owners
  <2>4. QED
    BY <2>2, <2>3 DEF Owners
<1>15. Active'
  <2>1. \A v \in Substreams : v # u /\ pcm[v].at # "closed" => pcm[v].dev \in Sds /\ pcm[v].dev # s
    BY <1>2 DEF StreamInv, Owners
  <2>2. ASSUME NEW v \in Substreams, v # u, pcm[v].at # "closed"
        PROVE  pcm'[v] = pcm[v] /\ sd'[pcm[v].dev] = sd[pcm[v].dev]
    BY <1>9, <1>10, <2>1, <2>2
  <2>3. QED
    BY <1>7, <1>10, <1>11, <2>2 DEF StreamInv, Active
<1>16. Lent'
  BY <1>4, <1>9, <1>11 DEF StreamInv, Lent
<1>17. QuietWhenFree'
  BY <1>2, <1>7, <1>10, <1>11 DEF StreamInv, QuietWhenFree, Owners, Assign
<1>18. FlagRight'
  <2>1. ~sd[s].locked => hw[s].dma = "off"
    BY <1>2 DEF StreamInv, QuietWhenFree, Owners, Lent
  <2>2. ASSUME NEW r \in Sds, r # s, ~sd'[r].locked
        PROVE  (sd'[r].running <=> hw'[r].dma = "on") \/ Bare(r)'
    <3>1. sd'[r] = sd[r] /\ hw'[r] = hw[r]
      BY <1>9, <1>11, <2>2
    <3>2. (sd[r].running <=> hw[r].dma = "on") \/ Bare(r)
      BY <2>2, <3>1, Zenon DEF StreamInv, FlagRight
    <3>3. Bare(r) => Bare(r)'
      BY <1>7, <1>10, <2>2, <3>1 DEF Bare
    <3>4. QED
      BY <3>1, <3>2, <3>3, Zenon
  <2>3. ~sd'[s].locked => ~sd'[s].running /\ hw'[s].dma # "on"
    <3>1. hw[s].dma = "off" => hw'[s].dma # "on"
      BY <1>11
    <3>2. QED
      BY <1>4, <1>9, <2>1, <3>1, Zenon
  <2>4. QED
    BY <2>2, <2>3, Zenon DEF FlagRight
<1>19. QED
  BY <1>12, <1>13, <1>14, <1>15, <1>16, <1>17, <1>18 DEF StreamInv

\* What programs do with the streams they have, each with its own: what is locked is
\* left alone, and what is started, stopped or reset is so in the flag and in the
\* controller alike.
LEMMA ProgramsKeep ==
  ASSUME StreamInv, NEW G \in SUBSET Substreams, Shapes', Values', loader' = loader,
         \A v \in Substreams \ G : pcm'[v] = pcm[v],
         \A r \in Sds : (\A u \in G : pcm[u].dev # r) => sd'[r] = sd[r] /\ hw'[r] = hw[r],
         \A u \in G :
           /\ pcm[u].at # "closed" /\ pcm'[u].at # "closed" /\ pcm'[u].dev = pcm[u].dev
           /\ sd'[pcm[u].dev].opened /\ sd'[pcm[u].dev].substream = sd[pcm[u].dev].substream
           /\ sd'[pcm[u].dev].locked <=> sd[pcm[u].dev].locked
           /\ sd[pcm[u].dev].locked => sd'[pcm[u].dev] = sd[pcm[u].dev] /\ hw'[pcm[u].dev] = hw[pcm[u].dev]
           /\ ~sd[pcm[u].dev].locked =>
                \/ sd'[pcm[u].dev].running <=> hw'[pcm[u].dev].dma = "on"
                \/ sd'[pcm[u].dev].params = NoParams /\ pcm'[u].at = "open"
           /\ pcm'[u].at \in {"prepared", "running", "stopping"} =>
                ~sd[pcm[u].dev].locked /\ sd[pcm[u].dev].substream = u
           /\ pcm'[u].at = "running" => hw'[pcm[u].dev].dma = "on"
           /\ pcm'[u].at = "stopping" => hw'[pcm[u].dev].dma = "stopping"
           /\ hw'[pcm[u].dev].dma # "off" =>
                sd[pcm[u].dev].locked \/ pcm'[u].at \in {"running", "stopping"}
  PROVE  StreamInv'
<1>1. \A v \in Substreams : pcm'[v].dev = pcm[v].dev /\ (pcm'[v].at = "closed" <=> pcm[v].at = "closed")
  OBVIOUS
<1>2. \A v \in Substreams \ G : pcm[v].at # "closed" =>
        pcm[v].dev \in Sds /\ sd'[pcm[v].dev] = sd[pcm[v].dev] /\ hw'[pcm[v].dev] = hw[pcm[v].dev]
  <2>1. \A v \in Substreams \ G : pcm[v].at # "closed" =>
          pcm[v].dev \in Sds /\ \A u \in G : pcm[u].dev # pcm[v].dev
    BY NoStreamZero DEF StreamInv, Owners
  <2>2. QED
    BY <2>1
<1>3. \A r \in Sds : sd'[r].locked <=> sd[r].locked
  <2>1. ASSUME NEW r \in Sds, \A u \in G : pcm[u].dev # r PROVE sd'[r].locked <=> sd[r].locked
    <3>1. sd'[r] = sd[r]
      BY <2>1
    <3>2. QED
      BY <3>1, Zenon
  <2>2. ASSUME NEW r \in Sds, NEW u \in G, pcm[u].dev = r PROVE sd'[r].locked <=> sd[r].locked
    BY <2>2, Zenon
  <2>3. QED
    BY <2>1, <2>2, Zenon
<1>4. Owners'
  <2>1. ASSUME NEW v \in Substreams
        PROVE  IF pcm'[v].at = "closed" THEN pcm'[v].dev = 0
               ELSE pcm'[v].dev \in Sds /\ sd'[pcm'[v].dev].opened /\ sd'[pcm'[v].dev].substream \in {v, None}
    <3>1. CASE pcm[v].at = "closed"
      BY <1>1, <3>1 DEF StreamInv, Owners
    <3>2. CASE pcm[v].at # "closed" /\ v \in G
      <4>1. pcm[v].dev \in Sds /\ sd'[pcm[v].dev].substream \in {v, None}
        BY <3>2 DEF StreamInv, Owners
      <4>2. sd'[pcm[v].dev].opened
        BY <3>2, Zenon
      <4>3. pcm'[v].at # "closed" /\ pcm'[v].dev = pcm[v].dev
        BY <1>1, <3>2
      <4>4. QED
        BY <4>1, <4>2, <4>3, Zenon
    <3>3. CASE pcm[v].at # "closed" /\ v \notin G
      <4>1. sd'[pcm[v].dev] = sd[pcm[v].dev] /\ pcm[v].dev \in Sds /\ pcm'[v] = pcm[v]
        BY <1>2, <3>3
      <4>2. sd[pcm[v].dev].opened /\ sd[pcm[v].dev].substream \in {v, None}
        BY <3>3, Zenon DEF StreamInv, Owners
      <4>3. QED
        BY <3>3, <4>1, <4>2, Zenon
    <3>4. QED
      BY <3>1, <3>2, <3>3
  <2>2. \A v, w \in Substreams : v # w /\ pcm'[v].dev = pcm'[w].dev => pcm'[v].dev = 0
    BY <1>1 DEF StreamInv, Owners
  <2>3. QED
    BY <2>1, <2>2 DEF Owners
<1>5. Active'
  <2>1. ASSUME NEW v \in Substreams, pcm'[v].at \in {"prepared", "running", "stopping"}
        PROVE  ~sd'[pcm'[v].dev].locked /\ sd'[pcm'[v].dev].substream = v
    <3>1. CASE v \in G
      <4>1. sd'[pcm'[v].dev].substream = v
        BY <2>1, <3>1
      <4>2. ~sd'[pcm'[v].dev].locked
        BY <2>1, <3>1, Zenon
      <4>3. QED
        BY <4>1, <4>2
    <3>2. CASE v \notin G
      <4>1. sd'[pcm[v].dev] = sd[pcm[v].dev] /\ pcm'[v] = pcm[v]
        BY <1>2, <2>1, <3>2
      <4>2. ~sd[pcm[v].dev].locked /\ sd[pcm[v].dev].substream = v
        BY <2>1, <4>1, Zenon DEF StreamInv, Active
      <4>3. QED
        BY <4>1, <4>2, Zenon
    <3>3. QED
      BY <3>1, <3>2
  <2>2. \A v \in Substreams : /\ pcm'[v].at = "running" => hw'[pcm'[v].dev].dma = "on"
                              /\ pcm'[v].at = "stopping" => hw'[pcm'[v].dev].dma = "stopping"
    BY <1>2 DEF StreamInv, Active
  <2>3. QED
    BY <2>1, <2>2, Zenon DEF Active
<1>6. Lent'
  <2>1. loader.at # "idle" => /\ loader.dev \in Sds /\ sd[loader.dev].locked
    BY Zenon DEF StreamInv, Lent
  <2>2. loader.at # "idle" => sd'[loader.dev] = sd[loader.dev] /\ hw'[loader.dev] = hw[loader.dev]
    <3>1. ASSUME NEW u \in G, loader.at # "idle", pcm[u].dev = loader.dev
          PROVE  sd'[loader.dev] = sd[loader.dev] /\ hw'[loader.dev] = hw[loader.dev]
      BY <2>1, <3>1, Zenon
    <3>2. QED
      BY <2>1, <3>1
  <2>3. \A r \in Sds : sd'[r].locked <=> loader'.dev = r
    BY <1>3, Zenon DEF StreamInv, Lent
  <2>4. loader'.at \in {"taken", "ready"} => ~sd'[loader'.dev].running
    BY <2>2, Zenon DEF StreamInv, Lent
  <2>5. /\ IF loader'.at = "idle" THEN loader'.dev = 0 ELSE loader'.dev \in Sds
        /\ loader'.at = "taken" => hw'[loader'.dev].dma = "off"
        /\ loader'.at \in {"ready", "loading"} => hw'[loader'.dev].cbl = loader'.bytes
        /\ loader'.at = "loading" => hw'[loader'.dev].dma = "on"
    BY <2>2 DEF StreamInv, Lent
  <2>6. QED
    BY <2>3, <2>4, <2>5, Zenon DEF Lent
<1>7. QuietWhenFree'
  <2>1. ASSUME NEW r \in Sds, NEW u \in G, pcm[u].dev = r, hw'[r].dma # "off"
        PROVE  loader'.dev = r \/ \E v \in Substreams : pcm'[v].dev = r /\ pcm'[v].at \in {"running", "stopping"}
    <3>1. CASE sd[r].locked
      BY <3>1, Zenon DEF StreamInv, Lent
    <3>2. CASE ~sd[r].locked
      <4>1. pcm'[u].at \in {"running", "stopping"} /\ pcm'[u].dev = r
        BY <2>1, <3>2
      <4>2. QED
        BY <4>1
    <3>3. QED
      BY <3>1, <3>2
  <2>2. ASSUME NEW r \in Sds, \A u \in G : pcm[u].dev # r, hw'[r].dma # "off"
        PROVE  loader'.dev = r \/ \E v \in Substreams : pcm'[v].dev = r /\ pcm'[v].at \in {"running", "stopping"}
    <3>1. hw'[r] = hw[r]
      BY <2>2
    <3>2. \A v \in Substreams : pcm[v].dev = r => pcm'[v] = pcm[v]
      BY <2>2
    <3>3. QED
      BY <2>2, <3>1, <3>2 DEF StreamInv, QuietWhenFree
  <2>3. QED
    BY <2>1, <2>2, Zenon DEF QuietWhenFree
<1>8. FlagRight'
  <2>1. ASSUME NEW r \in Sds, \A u \in G : pcm[u].dev # r, ~sd'[r].locked
        PROVE  (sd'[r].running <=> hw'[r].dma = "on") \/ Bare(r)'
    <3>1. sd'[r] = sd[r] /\ hw'[r] = hw[r]
      BY <2>1
    <3>2. \A v \in Substreams : pcm'[v].dev = r => pcm[v].dev = r /\ pcm'[v] = pcm[v]
      BY <1>1, <2>1
    <3>3. Bare(r) => Bare(r)'
      BY <3>1, <3>2 DEF Bare
    <3>4. (sd[r].running <=> hw[r].dma = "on") \/ Bare(r)
      BY <2>1, <3>1, Zenon DEF StreamInv, FlagRight
    <3>5. QED
      BY <3>1, <3>3, <3>4, Zenon
  <2>2. ASSUME NEW r \in Sds, NEW u \in G, pcm[u].dev = r, ~sd'[r].locked
        PROVE  (sd'[r].running <=> hw'[r].dma = "on") \/ Bare(r)'
    <3>1. \A v \in Substreams : pcm'[v].dev = r => v = u
      BY <1>1, <2>2, NoStreamZero DEF StreamInv, Owners
    <3>2. sd'[r].params = NoParams /\ pcm'[u].at = "open" => Bare(r)'
      BY <3>1 DEF Bare
    <3>3. ~sd[r].locked
      BY <1>3, <2>2, Zenon
    <3>4. QED
      BY <2>2, <3>2, <3>3, Zenon
  <2>3. QED
    BY <2>1, <2>2, Zenon DEF FlagRight
<1>9. QED
  BY <1>4, <1>5, <1>6, <1>7, <1>8 DEF StreamInv

\* A structure with the fields of its kind, each with a value of its type.
IsSd(e) == e = [f \in SdFields |-> e[f]] /\ e.opened \in BOOLEAN /\ e.running \in BOOLEAN /\ e.locked \in BOOLEAN
IsHw(h) == h = [f \in HwFields |-> h[f]] /\ h.dma \in {"off", "on", "stopping"}
IsPcm(p) == p = [f \in PcmFields |-> p[f]] /\ p.at \in {"closed", "open", "prepared", "running", "stopping"}

\* Every entry of the tables has the fields of its kind.
LEMMA EntriesAre ==
  ASSUME Shapes, Values
  PROVE  /\ \A s \in Sds : IsSd(sd[s]) /\ IsHw(hw[s])
         /\ \A u \in Substreams : IsPcm(pcm[u])
<1>1. ASSUME NEW s \in Sds PROVE IsSd(sd[s]) /\ IsHw(hw[s])
  <2>1. sd[s] = [f \in SdFields |-> sd[s][f]]
    BY Zenon DEF Shapes
  <2>2. hw[s] = [f \in HwFields |-> hw[s][f]]
    BY Zenon DEF Shapes
  <2>3. QED
    BY <2>1, <2>2, Zenon DEF Values, IsSd, IsHw
<1>2. ASSUME NEW u \in Substreams PROVE IsPcm(pcm[u])
  <2>1. pcm[u] = [f \in PcmFields |-> pcm[u][f]]
    BY Zenon DEF Shapes
  <2>2. QED
    BY <2>1, Zenon DEF Values, IsPcm
<1>3. QED
  BY <1>1, <1>2

\* One stream and its program are written, or the stream alone.
LEMMA EntriesWritten ==
  ASSUME StreamInv, NEW s \in Sds, NEW e, NEW h, IsSd(e), IsHw(h),
         sd' = [sd EXCEPT ![s] = e], hw' = [hw EXCEPT ![s] = h]
  PROVE  /\ sd' = [r \in Sds |-> sd'[r]] /\ hw' = [r \in Sds |-> hw'[r]]
         /\ \A r \in Sds : IsSd(sd'[r]) /\ IsHw(hw'[r])
         /\ sd'[s] = e /\ hw'[s] = h
         /\ \A r \in Sds : r # s => sd'[r] = sd[r] /\ hw'[r] = hw[r]
<1>1. /\ sd' = [r \in Sds |-> sd'[r]] /\ sd'[s] = e /\ \A r \in Sds : r # s => sd'[r] = sd[r]
  BY SdIs DEF StreamInv, IsSd
<1>2. /\ hw' = [r \in Sds |-> hw'[r]] /\ hw'[s] = h /\ \A r \in Sds : r # s => hw'[r] = hw[r]
  BY HwIs DEF StreamInv, IsHw
<1>3. \A r \in Sds : IsSd(sd[r]) /\ IsHw(hw[r])
  BY EntriesAre DEF StreamInv
<1>4. ASSUME NEW r \in Sds PROVE IsSd(sd'[r]) /\ IsHw(hw'[r])
  <2>1. CASE r = s
    BY <1>1, <1>2, <2>1, Zenon
  <2>2. CASE r # s
    BY <1>1, <1>2, <1>3, <2>2, Zenon
  <2>3. QED
    BY <2>1, <2>2
<1>5. QED
  BY <1>1, <1>2, <1>4

\* Entries of the right form make tables of the right form.
LEMMA ShapesFollow ==
  ASSUME sd' = [r \in Sds |-> sd'[r]], hw' = [r \in Sds |-> hw'[r]],
         pcm' = [v \in Substreams |-> pcm'[v]],
         \A r \in Sds : IsSd(sd'[r]) /\ IsHw(hw'[r]), \A v \in Substreams : IsPcm(pcm'[v]),
         loader' = [f \in LoaderFields |-> loader'[f]], loader'.at \in {"idle", "taken", "ready", "loading"}
  PROVE  Shapes' /\ Values'
<1>1. \A r \in Sds : sd'[r] = [f \in SdFields |-> sd'[r][f]]
  BY Zenon DEF IsSd
<1>2. \A r \in Sds : hw'[r] = [f \in HwFields |-> hw'[r][f]]
  BY Zenon DEF IsHw
<1>3. \A v \in Substreams : pcm'[v] = [f \in PcmFields |-> pcm'[v][f]]
  BY Zenon DEF IsPcm
<1>4. Shapes'
  BY <1>1, <1>2, <1>3 DEF Shapes
<1>5. Values'
  BY Zenon DEF Values, IsSd, IsHw, IsPcm
<1>6. QED
  BY <1>4, <1>5

\* ProgramsKeep for one program.
LEMMA ProgramKeeps ==
  ASSUME StreamInv, NEW u \in Substreams, pcm[u].at # "closed", NEW s, s = pcm[u].dev,
         NEW e, NEW h, NEW p, IsSd(e), IsHw(h), IsPcm(p),
         sd' = [sd EXCEPT ![s] = e], hw' = [hw EXCEPT ![s] = h], pcm' = [pcm EXCEPT ![u] = p],
         loader' = loader, p.at # "closed", p.dev = s,
         e.opened, e.substream = sd[s].substream, e.locked <=> sd[s].locked,
         sd[s].locked => e = sd[s] /\ h = hw[s],
         ~sd[s].locked => (e.running <=> h.dma = "on") \/ (e.params = NoParams /\ p.at = "open"),
         p.at \in {"prepared", "running", "stopping"} => ~sd[s].locked /\ sd[s].substream = u,
         p.at = "running" => h.dma = "on", p.at = "stopping" => h.dma = "stopping",
         h.dma # "off" => sd[s].locked \/ p.at \in {"running", "stopping"}
  PROVE  StreamInv'
<1>1. s \in Sds
  BY DEF StreamInv, Owners
<1>2. /\ sd' = [r \in Sds |-> sd'[r]] /\ hw' = [r \in Sds |-> hw'[r]]
      /\ \A r \in Sds : IsSd(sd'[r]) /\ IsHw(hw'[r])
      /\ sd'[s] = e /\ hw'[s] = h
      /\ \A r \in Sds : r # s => sd'[r] = sd[r] /\ hw'[r] = hw[r]
  BY <1>1, EntriesWritten
<1>3. /\ pcm' = [v \in Substreams |-> pcm'[v]]
      /\ pcm'[u] = p /\ \A v \in Substreams : v # u => pcm'[v] = pcm[v]
  BY PcmIs DEF StreamInv, IsPcm
<1>4. \A v \in Substreams : IsPcm(pcm'[v])
  <2>1. \A v \in Substreams : IsPcm(pcm[v])
    BY EntriesAre DEF StreamInv
  <2>2. QED
    BY <1>3, <2>1, Zenon
<1>5. Shapes' /\ Values'
  BY <1>2, <1>3, <1>4, ShapesFollow DEF StreamInv, Shapes, Values
<1>6. PICK G : G = {u}
  OBVIOUS
<1>7. G \in SUBSET Substreams /\ \A v \in Substreams \ G : pcm'[v] = pcm[v]
  BY <1>3, <1>6
<1>8. \A r \in Sds : (\A v \in G : pcm[v].dev # r) => sd'[r] = sd[r] /\ hw'[r] = hw[r]
  BY <1>2, <1>6
<1>9. ASSUME NEW v \in G
      PROVE  /\ pcm[v].at # "closed" /\ pcm'[v].at # "closed" /\ pcm'[v].dev = pcm[v].dev
             /\ sd'[pcm[v].dev].opened /\ sd'[pcm[v].dev].substream = sd[pcm[v].dev].substream
             /\ sd'[pcm[v].dev].locked <=> sd[pcm[v].dev].locked
             /\ sd[pcm[v].dev].locked => sd'[pcm[v].dev] = sd[pcm[v].dev] /\ hw'[pcm[v].dev] = hw[pcm[v].dev]
             /\ ~sd[pcm[v].dev].locked =>
                  \/ sd'[pcm[v].dev].running <=> hw'[pcm[v].dev].dma = "on"
                  \/ sd'[pcm[v].dev].params = NoParams /\ pcm'[v].at = "open"
             /\ pcm'[v].at \in {"prepared", "running", "stopping"} =>
                  ~sd[pcm[v].dev].locked /\ sd[pcm[v].dev].substream = v
             /\ pcm'[v].at = "running" => hw'[pcm[v].dev].dma = "on"
             /\ pcm'[v].at = "stopping" => hw'[pcm[v].dev].dma = "stopping"
             /\ hw'[pcm[v].dev].dma # "off" =>
                  sd[pcm[v].dev].locked \/ pcm'[v].at \in {"running", "stopping"}
  <2>1. v = u /\ pcm[v].dev = s /\ pcm'[v] = p /\ sd'[pcm[v].dev] = e /\ hw'[pcm[v].dev] = h
    BY <1>2, <1>3, <1>6
  <2>2. /\ pcm[v].at # "closed" /\ pcm'[v].at # "closed" /\ pcm'[v].dev = pcm[v].dev
        /\ sd'[pcm[v].dev].substream = sd[pcm[v].dev].substream
    BY <2>1
  <2>3. /\ sd'[pcm[v].dev].opened
        /\ sd'[pcm[v].dev].locked <=> sd[pcm[v].dev].locked
        /\ ~sd[pcm[v].dev].locked =>
             \/ sd'[pcm[v].dev].running <=> hw'[pcm[v].dev].dma = "on"
             \/ sd'[pcm[v].dev].params = NoParams /\ pcm'[v].at = "open"
    BY <2>1, Zenon
  <2>4. sd[pcm[v].dev].locked => sd'[pcm[v].dev] = sd[pcm[v].dev] /\ hw'[pcm[v].dev] = hw[pcm[v].dev]
    BY <2>1, Zenon
  <2>5. /\ pcm'[v].at \in {"prepared", "running", "stopping"} =>
             ~sd[pcm[v].dev].locked /\ sd[pcm[v].dev].substream = v
        /\ pcm'[v].at = "running" => hw'[pcm[v].dev].dma = "on"
        /\ pcm'[v].at = "stopping" => hw'[pcm[v].dev].dma = "stopping"
        /\ hw'[pcm[v].dev].dma # "off" =>
             sd[pcm[v].dev].locked \/ pcm'[v].at \in {"running", "stopping"}
    BY <2>1, Zenon
  <2>6. QED
    BY <2>2, <2>3, <2>4, <2>5, Zenon
<1>10. QED
  BY <1>5, <1>7, <1>8, <1>9, ProgramsKeep

\* Each operation of a program keeps StreamInv.
LEMMA SyncStopKeeps ==
  ASSUME StreamInv, NEW u \in Substreams, SyncStop(u)
  PROVE  StreamInv'
<1>1. PICK s : s = pcm[u].dev
  OBVIOUS
<1>2. /\ s \in Sds /\ pcm[u].at = "stopping" /\ hw[s].dma = "stopping"
      /\ sd[s].substream = u
  BY <1>1 DEF SyncStop, StreamInv, Owners, Active
<1>3. sd[s].opened /\ ~sd[s].locked
  BY <1>1, <1>2, Zenon DEF StreamInv, Owners, Active
<1>4. ~sd[s].running
  <2>1. hw[s].dma # "on" /\ ~Bare(s)
    BY <1>1, <1>2 DEF Bare
  <2>2. QED
    BY <1>2, <1>3, <2>1, Zenon DEF StreamInv, FlagRight
<1>5. IsSd(sd[s]) /\ IsHw(hw[s]) /\ IsPcm(pcm[u])
  BY <1>2, EntriesAre DEF StreamInv
<1>6. PICK h : h = [hw[s] EXCEPT !.dma = "off"]
  OBVIOUS
<1>7. IsHw(h) /\ h.dma = "off"
  BY <1>5, <1>6 DEF IsHw, HwFields
<1>8. PICK p : p = [pcm[u] EXCEPT !.at = "prepared"]
  OBVIOUS
<1>9. IsPcm(p) /\ p.at = "prepared" /\ p.dev = s
  BY <1>1, <1>5, <1>8 DEF IsPcm, PcmFields
<1>10. sd' = [sd EXCEPT ![s] = sd[s]]
  BY <1>2 DEF SyncStop, StreamInv, Shapes
<1>11. hw' = [hw EXCEPT ![s] = h] /\ pcm' = [pcm EXCEPT ![u] = p] /\ loader' = loader
  BY <1>1, <1>6, <1>8 DEF SyncStop
<1>12. QED
  BY <1>1, <1>2, <1>3, <1>4, <1>5, <1>7, <1>9, <1>10, <1>11, ProgramKeeps

LEMMA CleanupKeeps ==
  ASSUME StreamInv, NEW u \in Substreams, Cleanup(u)
  PROVE  StreamInv'
<1>1. PICK s : s = pcm[u].dev
  OBVIOUS
<1>2. pcm[u].at \in {"open", "prepared"} /\ s \in Sds /\ ~sd[s].locked
  BY <1>1 DEF Cleanup, StreamInv, Owners
<1>3. sd[s].opened
  BY <1>1, <1>2, Zenon DEF StreamInv, Owners
<1>4. hw[s].dma = "off"
  <2>1. loader.dev # s
    BY <1>2, Zenon DEF StreamInv, Lent
  <2>2. \A v \in Substreams : v # u => pcm[v].dev # s
    BY <1>1, <1>2, NoStreamZero DEF StreamInv, Owners
  <2>3. QED
    BY <1>2, <2>1, <2>2 DEF StreamInv, QuietWhenFree
<1>5. IsSd(sd[s]) /\ IsHw(hw[s]) /\ IsPcm(pcm[u])
  BY <1>2, EntriesAre DEF StreamInv
<1>6. PICK e : e = [sd[s] EXCEPT !.params = NoParams]
  OBVIOUS
<1>7. /\ e = [f \in SdFields |-> e[f]] /\ e.substream = sd[s].substream
      /\ e.opened = sd[s].opened /\ e.running = sd[s].running /\ e.locked = sd[s].locked
      /\ e.params = NoParams
  BY <1>5, <1>6 DEF IsSd, SdFields
<1>8. IsSd(e)
  BY <1>5, <1>7, Zenon DEF IsSd
<1>9. PICK h : h = [dma |-> "off", cbl |-> hw[s].cbl, lvi |-> hw[s].lvi]
  OBVIOUS
<1>10. IsHw(h) /\ h.dma = "off"
  BY <1>9 DEF IsHw, HwFields
<1>11. PICK p : p = [pcm[u] EXCEPT !.at = "open", !.setup = NoSetup]
  OBVIOUS
<1>12. IsPcm(p) /\ p.at = "open" /\ p.dev = s
  BY <1>1, <1>5, <1>11 DEF IsPcm, PcmFields
<1>13. sd' = [sd EXCEPT ![s] = e]
  BY <1>1, <1>6 DEF Cleanup
<1>14. hw' = [hw EXCEPT ![s] = h]
  BY <1>1, <1>2, <1>9 DEF Cleanup, StreamInv, Shapes
<1>15. pcm' = [pcm EXCEPT ![u] = p] /\ loader' = loader
  BY <1>11 DEF Cleanup
<1>16. e.opened /\ (e.locked <=> sd[s].locked)
  BY <1>3, <1>7, Zenon
<1>17. /\ pcm[u].at # "closed" /\ ~(h.dma # "off")
       /\ p.at \notin {"prepared", "running", "stopping"} /\ p.at # "closed"
  BY <1>2, <1>10, <1>12
<1>18. QED
  BY <1>1, <1>2, <1>7, <1>8, <1>10, <1>12, <1>13, <1>14, <1>15, <1>16, <1>17, ProgramKeeps

LEMMA HwParamsKeeps ==
  ASSUME StreamInv, NEW u \in Substreams, NEW x \in Setups, HwParams(u, x)
  PROVE  StreamInv'
<1>1. PICK s : s = pcm[u].dev
  OBVIOUS
<1>2. pcm[u].at = "open" /\ s \in Sds
  BY <1>1 DEF HwParams, StreamInv, Owners
<1>3. sd[s].opened
  BY <1>1, <1>2, Zenon DEF StreamInv, Owners
<1>4. IsSd(sd[s]) /\ IsHw(hw[s]) /\ IsPcm(pcm[u])
  BY <1>2, EntriesAre DEF StreamInv
<1>5. ~sd[s].locked => hw[s].dma = "off"
  <2>1. ~sd[s].locked => loader.dev # s
    BY <1>2, Zenon DEF StreamInv, Lent
  <2>2. \A v \in Substreams : v # u => pcm[v].dev # s
    BY <1>1, <1>2, NoStreamZero DEF StreamInv, Owners
  <2>3. QED
    BY <1>2, <2>1, <2>2 DEF StreamInv, QuietWhenFree
<1>6. ~sd[s].locked => (sd[s].running <=> hw[s].dma = "on") \/ sd[s].params = NoParams
  BY <1>2, Zenon DEF StreamInv, FlagRight, Bare
<1>7. PICK p : p = [pcm[u] EXCEPT !.setup = x]
  OBVIOUS
<1>8. IsPcm(p) /\ p.at = "open" /\ p.dev = s
  BY <1>1, <1>2, <1>4, <1>7 DEF IsPcm, PcmFields
<1>9. sd' = [sd EXCEPT ![s] = sd[s]] /\ hw' = [hw EXCEPT ![s] = hw[s]]
  BY <1>2 DEF HwParams, StreamInv, Shapes
<1>10. pcm' = [pcm EXCEPT ![u] = p] /\ loader' = loader
  BY <1>7 DEF HwParams
<1>11. QED
  BY <1>1, <1>2, <1>3, <1>4, <1>5, <1>6, <1>8, <1>9, <1>10, ProgramKeeps

LEMMA PrepareKeeps ==
  ASSUME StreamInv, NEW u \in Substreams, Prepare(u)
  PROVE  StreamInv'
<1>1. PICK s : s = pcm[u].dev
  OBVIOUS
<1>2. PICK x : x = pcm[u].setup
  OBVIOUS
<1>3. pcm[u].at \in {"open", "prepared"} /\ s \in Sds /\ ~sd[s].locked /\ sd[s].substream = u
  BY <1>1 DEF Prepare, StreamInv, Owners
<1>4. sd[s].opened
  BY <1>1, <1>3, Zenon DEF StreamInv, Owners
<1>5. IsSd(sd[s]) /\ IsHw(hw[s]) /\ IsPcm(pcm[u])
  BY <1>3, EntriesAre DEF StreamInv
<1>6. PICK n : n = IF Changes(s, x) THEN Len(Written(x, TRUE)) ELSE sd[s].frags
  OBVIOUS
<1>7. PICK e : e = [sd[s] EXCEPT !.running = FALSE, !.params = ParamsOf(x), !.nowake = x.nowake, !.frags = n]
  OBVIOUS
<1>8. /\ e = [f \in SdFields |-> e[f]] /\ e.substream = sd[s].substream
      /\ e.opened = sd[s].opened /\ e.running = FALSE /\ e.locked = sd[s].locked
  BY <1>5, <1>7 DEF IsSd, SdFields
<1>9. IsSd(e)
  BY <1>5, <1>8, Zenon DEF IsSd
<1>10. sd' = [sd EXCEPT ![s] = e]
  <2>1. sd' = [sd EXCEPT ![s].running = FALSE, ![s].params = ParamsOf(x), ![s].nowake = x.nowake,
                         ![s].frags = IF Changes(s, x) THEN Len(Written(x, TRUE)) ELSE @]
    BY <1>1, <1>2, Zenon DEF Prepare, SetParams
  <2>2. sd \in [Sds -> {sd[r] : r \in Sds}] /\ DOMAIN sd[s] = SdFields
    BY <1>5 DEF StreamInv, Shapes, IsSd
  <2>3. QED
    BY <1>3, <1>6, <1>7, <2>1, <2>2 DEF SdFields
<1>11. CASE /\ hw' = [hw EXCEPT ![s].dma = "off"]
            /\ pcm' = [pcm EXCEPT ![u].at = "open"]
  <2>1. PICK h : h = [hw[s] EXCEPT !.dma = "off"]
    OBVIOUS
  <2>2. IsHw(h) /\ h.dma = "off"
    BY <1>5, <2>1 DEF IsHw, HwFields
  <2>3. PICK p : p = [pcm[u] EXCEPT !.at = "open"]
    OBVIOUS
  <2>4. IsPcm(p) /\ p.at = "open" /\ p.dev = s
    BY <1>1, <1>5, <2>3 DEF IsPcm, PcmFields
  <2>5. hw' = [hw EXCEPT ![s] = h] /\ pcm' = [pcm EXCEPT ![u] = p] /\ loader' = loader
    BY <1>11, <2>1, <2>3 DEF Prepare
  <2>6. /\ e.opened /\ (e.locked <=> sd[s].locked) /\ (e.running <=> h.dma = "on")
    <3>1. h.dma # "on"
      BY <2>2
    <3>2. QED
      BY <1>4, <1>8, <3>1, Zenon
  <2>7. p.at \notin {"prepared", "running", "stopping"} /\ p.at # "closed" /\ pcm[u].at # "closed"
    BY <1>3, <2>4
  <2>8. QED
    BY <1>1, <1>3, <1>8, <1>9, <1>10, <2>2, <2>4, <2>5, <2>6, <2>7, ProgramKeeps
<1>12. CASE /\ hw' = [hw EXCEPT ![s] = [dma |-> "off", cbl |-> x.bufsize, lvi |-> sd'[s].frags - 1]]
            /\ pcm' = [pcm EXCEPT ![u].at = "prepared"]
  <2>1. PICK h : h = [dma |-> "off", cbl |-> x.bufsize, lvi |-> sd'[s].frags - 1]
    OBVIOUS
  <2>2. IsHw(h) /\ h.dma = "off"
    BY <2>1 DEF IsHw, HwFields
  <2>3. PICK p : p = [pcm[u] EXCEPT !.at = "prepared"]
    OBVIOUS
  <2>4. IsPcm(p) /\ p.at = "prepared" /\ p.dev = s
    BY <1>1, <1>5, <2>3 DEF IsPcm, PcmFields
  <2>5. hw' = [hw EXCEPT ![s] = h] /\ pcm' = [pcm EXCEPT ![u] = p] /\ loader' = loader
    BY <1>12, <2>1, <2>3 DEF Prepare
  <2>6. /\ e.opened /\ (e.locked <=> sd[s].locked) /\ (e.running <=> h.dma = "on")
    <3>1. h.dma # "on"
      BY <2>2
    <3>2. QED
      BY <1>4, <1>8, <3>1, Zenon
  <2>7. p.at # "running" /\ p.at # "stopping" /\ p.at # "closed" /\ pcm[u].at # "closed"
    BY <1>3, <2>4
  <2>8. QED
    BY <1>1, <1>3, <1>8, <1>9, <1>10, <2>2, <2>4, <2>5, <2>6, <2>7, ProgramKeeps
<1>13. QED
  BY <1>1, <1>2, <1>11, <1>12, Zenon DEF Prepare

\* What the streams of a group of programs become, when they are started or stopped.
LEMMA GroupKeeps ==
  ASSUME StreamInv, NEW G \in SUBSET Substreams, NEW b \in BOOLEAN, NEW d, NEW a,
         \/ b = TRUE /\ d = "on" /\ a = "running"
         \/ b = FALSE /\ d = "stopping" /\ a = "stopping",
         \A u \in G : pcm[u].at \in {"prepared", "running"},
         sd' = [s \in Sds |-> IF s \in Group(G) THEN [sd[s] EXCEPT !.running = b] ELSE sd[s]],
         hw' = [s \in Sds |-> IF s \in Group(G) THEN [hw[s] EXCEPT !.dma = d] ELSE hw[s]],
         pcm' = [u \in Substreams |-> IF u \in G THEN [pcm[u] EXCEPT !.at = a] ELSE pcm[u]],
         loader' = loader
  PROVE  StreamInv'
<1>1. \A u \in G : /\ pcm[u].dev \in Sds /\ sd[pcm[u].dev].substream = u
                   /\ pcm[u].dev \in Group(G) /\ pcm[u].at # "closed"
  BY DEF StreamInv, Owners, Active, Group
<1>2. \A u \in G : sd[pcm[u].dev].opened /\ ~sd[pcm[u].dev].locked
  BY Zenon DEF StreamInv, Owners, Active
<1>3. /\ \A s \in Sds : IsSd(sd[s]) /\ IsHw(hw[s])
      /\ \A u \in Substreams : IsPcm(pcm[u])
  BY EntriesAre DEF StreamInv
<1>4. \A s \in Sds : s \notin Group(G) => sd'[s] = sd[s] /\ hw'[s] = hw[s]
  OBVIOUS
<1>5. ASSUME NEW s \in Sds, s \in Group(G)
      PROVE  /\ IsSd(sd'[s]) /\ IsHw(hw'[s]) /\ hw'[s].dma = d /\ sd'[s].substream = sd[s].substream
             /\ sd'[s].running = b /\ sd'[s].locked = sd[s].locked /\ sd'[s].opened = sd[s].opened
  <2>1. sd'[s] = [sd[s] EXCEPT !.running = b] /\ hw'[s] = [hw[s] EXCEPT !.dma = d]
    BY <1>5
  <2>2. sd[s] = [f \in SdFields |-> sd[s][f]] /\ hw[s] = [f \in HwFields |-> hw[s][f]]
    BY <1>3 DEF IsSd, IsHw
  <2>3. /\ sd'[s] = [f \in SdFields |-> sd'[s][f]] /\ sd'[s].substream = sd[s].substream
        /\ sd'[s].running = b /\ sd'[s].locked = sd[s].locked /\ sd'[s].opened = sd[s].opened
    BY <2>1, <2>2 DEF SdFields
  <2>4. hw'[s] = [f \in HwFields |-> hw'[s][f]] /\ hw'[s].dma = d
    BY <2>1, <2>2 DEF HwFields
  <2>5. IsHw(hw'[s])
    BY <2>4 DEF IsHw
  <2>6. IsSd(sd'[s])
    BY <1>3, <2>3, Zenon DEF IsSd
  <2>7. QED
    BY <2>3, <2>4, <2>5, <2>6
<1>6. ASSUME NEW u \in Substreams
      PROVE  /\ IsPcm(pcm'[u]) /\ pcm'[u].dev = pcm[u].dev
             /\ IF u \in G THEN pcm'[u].at = a ELSE pcm'[u] = pcm[u]
  <2>1. CASE u \in G
    <3>1. pcm'[u] = [pcm[u] EXCEPT !.at = a]
      BY <2>1
    <3>2. QED
      <4>1. pcm[u] = [f \in PcmFields |-> pcm[u][f]]
        BY <1>3, Zenon DEF IsPcm
      <4>2. /\ pcm'[u] = [f \in PcmFields |-> pcm'[u][f]]
            /\ pcm'[u].at = a /\ pcm'[u].dev = pcm[u].dev
        BY <3>1, <4>1 DEF PcmFields
      <4>3. a \in {"closed", "open", "prepared", "running", "stopping"}
        OBVIOUS
      <4>4. IsPcm(pcm'[u])
        BY <4>2, <4>3, Zenon DEF IsPcm
      <4>5. QED
        BY <2>1, <4>2, <4>4
  <2>2. CASE u \notin G
    BY <1>3, <2>2
  <2>3. QED
    BY <2>1, <2>2
<1>7. Shapes' /\ Values'
  <2>1. \A r \in Sds : IsSd(sd'[r]) /\ IsHw(hw'[r])
    <3>1. ASSUME NEW r \in Sds, r \notin Group(G) PROVE IsSd(sd'[r]) /\ IsHw(hw'[r])
      BY <1>3, <1>4, <3>1, Zenon
    <3>2. QED
      BY <1>5, <3>1
  <2>2. sd' = [r \in Sds |-> sd'[r]] /\ hw' = [r \in Sds |-> hw'[r]] /\ pcm' = [v \in Substreams |-> pcm'[v]]
    OBVIOUS
  <2>3. QED
    BY <1>6, <2>1, <2>2, ShapesFollow DEF StreamInv, Shapes, Values
<1>8. \A v \in Substreams \ G : pcm'[v] = pcm[v]
  BY <1>6
<1>9. \A r \in Sds : (\A u \in G : pcm[u].dev # r) => sd'[r] = sd[r] /\ hw'[r] = hw[r]
  BY <1>4 DEF Group
<1>10. ASSUME NEW u \in G
       PROVE  /\ pcm[u].at # "closed" /\ pcm'[u].at # "closed" /\ pcm'[u].dev = pcm[u].dev
              /\ sd'[pcm[u].dev].opened /\ sd'[pcm[u].dev].substream = sd[pcm[u].dev].substream
              /\ sd'[pcm[u].dev].locked <=> sd[pcm[u].dev].locked
              /\ sd[pcm[u].dev].locked => sd'[pcm[u].dev] = sd[pcm[u].dev] /\ hw'[pcm[u].dev] = hw[pcm[u].dev]
              /\ ~sd[pcm[u].dev].locked =>
                   \/ sd'[pcm[u].dev].running <=> hw'[pcm[u].dev].dma = "on"
                   \/ sd'[pcm[u].dev].params = NoParams /\ pcm'[u].at = "open"
              /\ pcm'[u].at \in {"prepared", "running", "stopping"} =>
                   ~sd[pcm[u].dev].locked /\ sd[pcm[u].dev].substream = u
              /\ pcm'[u].at = "running" => hw'[pcm[u].dev].dma = "on"
              /\ pcm'[u].at = "stopping" => hw'[pcm[u].dev].dma = "stopping"
              /\ hw'[pcm[u].dev].dma # "off" =>
                   sd[pcm[u].dev].locked \/ pcm'[u].at \in {"running", "stopping"}
  <2>1. PICK s : s = pcm[u].dev
    OBVIOUS
  <2>2. s \in Sds /\ s \in Group(G) /\ sd[s].substream = u /\ pcm[u].at # "closed"
    BY <1>1, <2>1
  <2>3. /\ hw'[s].dma = d /\ sd'[s].substream = sd[s].substream
        /\ sd'[s].running = b /\ sd'[s].locked = sd[s].locked /\ sd'[s].opened = sd[s].opened
    BY <1>5, <2>2
  <2>4. sd[s].opened /\ ~sd[s].locked
    BY <1>2, <2>1, Zenon
  <2>5. pcm'[u].dev = pcm[u].dev /\ pcm'[u].at = a
    BY <1>6
  <2>6. sd'[s].running <=> hw'[s].dma = "on"
    <3>1. CASE b = TRUE /\ d = "on"
      BY <2>3, <3>1, Zenon
    <3>2. CASE b = FALSE /\ d = "stopping"
      <4>1. hw'[s].dma # "on"
        BY <2>3, <3>2
      <4>2. QED
        BY <2>3, <3>2, <4>1, Zenon
    <3>3. QED
      BY <3>1, <3>2, Zenon
  <2>7. /\ pcm'[u].at # "closed" /\ (pcm'[u].at = "running" => hw'[s].dma = "on")
        /\ (pcm'[u].at = "stopping" => hw'[s].dma = "stopping") /\ pcm'[u].at \in {"running", "stopping"}
    BY <2>3, <2>5
  <2>8. sd'[s].opened /\ (sd'[s].locked <=> sd[s].locked)
    BY <2>3, <2>4, Zenon
  <2>9. QED
    BY <2>1, <2>2, <2>3, <2>4, <2>5, <2>6, <2>7, <2>8, Zenon
<1>11. QED
  BY <1>7, <1>8, <1>9, <1>10, ProgramsKeep, Zenon

\* Linked programs start and stop together.
LEMMA StartKeeps ==
  ASSUME StreamInv, NEW G \in SUBSET Substreams, Start(G)
  PROVE  StreamInv'
<1>1. \A u \in G : pcm[u].at \in {"prepared", "running"}
  BY DEF Start
<1>2. /\ sd' = [s \in Sds |-> IF s \in Group(G) THEN [sd[s] EXCEPT !.running = TRUE] ELSE sd[s]]
      /\ hw' = [s \in Sds |-> IF s \in Group(G) THEN [hw[s] EXCEPT !.dma = "on"] ELSE hw[s]]
      /\ pcm' = [u \in Substreams |-> IF u \in G THEN [pcm[u] EXCEPT !.at = "running"] ELSE pcm[u]]
      /\ loader' = loader
  BY Zenon DEF Start
<1>3. QED
  BY <1>1, <1>2, GroupKeeps, Zenon

LEMMA StopKeeps ==
  ASSUME StreamInv, NEW G \in SUBSET Substreams, Stop(G)
  PROVE  StreamInv'
<1>1. \A u \in G : pcm[u].at \in {"prepared", "running"}
  BY DEF Stop
<1>2. /\ sd' = [s \in Sds |-> IF s \in Group(G) THEN [sd[s] EXCEPT !.running = FALSE] ELSE sd[s]]
      /\ hw' = [s \in Sds |-> IF s \in Group(G) THEN [hw[s] EXCEPT !.dma = "stopping"] ELSE hw[s]]
      /\ pcm' = [u \in Substreams |-> IF u \in G THEN [pcm[u] EXCEPT !.at = "stopping"] ELSE pcm[u]]
      /\ loader' = loader
  BY Zenon DEF Stop
<1>3. QED
  BY <1>1, <1>2, GroupKeeps, Zenon

\* A stream is given back at rest, unless it is lent.
LEMMA ReleaseKeeps ==
  ASSUME StreamInv, NEW u \in Substreams, Release(u)
  PROVE  StreamInv'
<1>1. PICK s : s = pcm[u].dev
  OBVIOUS
<1>2. pcm[u].at = "open" /\ s \in Sds
  BY <1>1 DEF Release, StreamInv, Owners
<1>3. \A v \in Substreams : v # u => pcm[v].dev # s
  BY <1>1, <1>2, NoStreamZero DEF StreamInv, Owners
<1>4. hw[s].dma # "off" => loader.dev = s
  BY <1>2, <1>3 DEF StreamInv, QuietWhenFree
<1>5. IsSd(sd[s]) /\ IsHw(hw[s]) /\ IsPcm(pcm[u])
  BY <1>2, EntriesAre DEF StreamInv
<1>6. PICK e : e = [sd[s] EXCEPT !.opened = FALSE, !.running = FALSE, !.substream = None]
  OBVIOUS
<1>7. e = [f \in SdFields |-> e[f]] /\ e.opened = FALSE /\ e.running = FALSE /\ e.locked = sd[s].locked
  BY <1>5, <1>6 DEF IsSd, SdFields
<1>8. IsSd(e)
  BY <1>5, <1>7, Zenon DEF IsSd
<1>9. PICK p : p = [at |-> "closed", dev |-> 0, setup |-> NoSetup]
  OBVIOUS
<1>10. IsPcm(p) /\ p.at = "closed" /\ p.dev = 0
  BY <1>9 DEF IsPcm, PcmFields
<1>11. sd' = [sd EXCEPT ![s] = e]
  BY <1>1, <1>2, <1>6 DEF Release, StreamInv, Shapes
<1>12. hw' = [hw EXCEPT ![s] = hw[s]]
  BY <1>2 DEF Release, StreamInv, Shapes
<1>13. pcm' = [pcm EXCEPT ![u] = p] /\ loader' = loader /\ hw' = hw
  BY <1>9 DEF Release
<1>14. /\ sd' = [r \in Sds |-> sd'[r]] /\ hw' = [r \in Sds |-> hw'[r]]
       /\ \A r \in Sds : IsSd(sd'[r]) /\ IsHw(hw'[r])
       /\ sd'[s] = e /\ \A r \in Sds : r # s => sd'[r] = sd[r]
  BY <1>2, <1>5, <1>8, <1>11, <1>12, EntriesWritten
<1>15. /\ pcm' = [v \in Substreams |-> pcm'[v]]
       /\ pcm'[u] = p /\ \A v \in Substreams : v # u => pcm'[v] = pcm[v]
  BY <1>10, <1>13, PcmIs DEF StreamInv, IsPcm
<1>16. \A v \in Substreams : IsPcm(pcm'[v])
  <2>1. \A v \in Substreams : IsPcm(pcm[v])
    BY EntriesAre DEF StreamInv
  <2>2. QED
    BY <1>10, <1>15, <2>1, Zenon
<1>17. Shapes' /\ Values'
  BY <1>13, <1>14, <1>15, <1>16, ShapesFollow DEF StreamInv, Shapes, Values
<1>18. \A r \in Sds : sd'[r].locked = sd[r].locked
  BY <1>7, <1>14
<1>19. ASSUME NEW v \in Substreams, v # u, pcm[v].at # "closed"
       PROVE  pcm'[v] = pcm[v] /\ pcm[v].dev \in Sds /\ sd'[pcm[v].dev] = sd[pcm[v].dev]
  BY <1>3, <1>14, <1>15, <1>19 DEF StreamInv, Owners
<1>20. Owners'
  <2>1. ASSUME NEW v \in Substreams
        PROVE  IF pcm'[v].at = "closed" THEN pcm'[v].dev = 0
               ELSE pcm'[v].dev \in Sds /\ sd'[pcm'[v].dev].opened /\ sd'[pcm'[v].dev].substream \in {v, None}
    <3>1. CASE v = u
      BY <1>10, <1>15, <3>1
    <3>2. CASE v # u /\ pcm[v].at = "closed"
      BY <1>15, <3>2 DEF StreamInv, Owners
    <3>3. CASE v # u /\ pcm[v].at # "closed"
      <4>1. sd[pcm[v].dev].opened /\ sd[pcm[v].dev].substream \in {v, None}
        BY <3>3, Zenon DEF StreamInv, Owners
      <4>2. QED
        BY <1>19, <3>3, <4>1, Zenon
    <3>4. QED
      BY <3>1, <3>2, <3>3
  <2>2. \A v, w \in Substreams : v # w /\ pcm'[v].dev = pcm'[w].dev => pcm'[v].dev = 0
    BY <1>10, <1>15 DEF StreamInv, Owners
  <2>3. QED
    BY <2>1, <2>2 DEF Owners
<1>21. Active'
  <2>1. ASSUME NEW v \in Substreams, pcm'[v].at \in {"prepared", "running", "stopping"}
        PROVE  /\ v # u /\ pcm[v].at # "closed" /\ pcm'[v] = pcm[v] /\ sd'[pcm[v].dev] = sd[pcm[v].dev]
    <3>1. v # u /\ pcm[v].at # "closed"
      BY <1>10, <1>15, <2>1
    <3>2. QED
      BY <1>19, <3>1
  <2>2. ASSUME NEW v \in Substreams, pcm'[v].at \in {"prepared", "running", "stopping"}
        PROVE  ~sd'[pcm'[v].dev].locked /\ sd'[pcm'[v].dev].substream = v
    <3>1. ~sd[pcm[v].dev].locked /\ sd[pcm[v].dev].substream = v
      BY <2>1, <2>2, Zenon DEF StreamInv, Active
    <3>2. QED
      BY <2>1, <2>2, <3>1, Zenon
  <2>3. \A v \in Substreams : /\ pcm'[v].at = "running" => hw'[pcm'[v].dev].dma = "on"
                              /\ pcm'[v].at = "stopping" => hw'[pcm'[v].dev].dma = "stopping"
    BY <1>10, <1>13, <1>15 DEF StreamInv, Active
  <2>4. QED
    BY <2>2, <2>3, Zenon DEF Active
<1>22. Lent'
  <2>1. \A r \in Sds : sd'[r].locked <=> loader'.dev = r
    BY <1>13, <1>18, Zenon DEF StreamInv, Lent
  <2>2. loader'.at \in {"taken", "ready"} => ~sd'[loader'.dev].running
    <3>1. CASE loader.dev = s
      BY <1>7, <1>13, <1>14, <3>1, Zenon
    <3>2. CASE loader.dev # s /\ loader.at # "idle"
      <4>1. sd'[loader.dev] = sd[loader.dev]
        BY <1>14, <3>2 DEF StreamInv, Lent
      <4>2. QED
        BY <1>13, <4>1, Zenon DEF StreamInv, Lent
    <3>3. CASE loader.at = "idle"
      BY <1>13, <3>3
    <3>4. QED
      BY <3>1, <3>2, <3>3
  <2>3. /\ IF loader'.at = "idle" THEN loader'.dev = 0 ELSE loader'.dev \in Sds
        /\ loader'.at = "taken" => hw'[loader'.dev].dma = "off"
        /\ loader'.at \in {"ready", "loading"} => hw'[loader'.dev].cbl = loader'.bytes
        /\ loader'.at = "loading" => hw'[loader'.dev].dma = "on"
    BY <1>13 DEF StreamInv, Lent
  <2>4. QED
    BY <2>1, <2>2, <2>3, Zenon DEF Lent
<1>23. QuietWhenFree'
  BY <1>2, <1>13, <1>15 DEF StreamInv, QuietWhenFree
<1>24. FlagRight'
  <2>1. ASSUME NEW r \in Sds, r # s, ~sd'[r].locked
        PROVE  (sd'[r].running <=> hw'[r].dma = "on") \/ Bare(r)'
    <3>1. sd'[r] = sd[r] /\ hw' = hw
      BY <1>13, <1>14, <2>1
    <3>2. (sd[r].running <=> hw[r].dma = "on") \/ Bare(r)
      BY <2>1, <3>1, Zenon DEF StreamInv, FlagRight
    <3>3. Bare(r) => Bare(r)'
      BY <1>10, <1>15, <2>1, <3>1, NoStreamZero DEF Bare
    <3>4. QED
      BY <3>1, <3>2, <3>3, Zenon
  <2>2. ASSUME ~sd'[s].locked PROVE ~sd'[s].running /\ hw'[s].dma # "on"
    <3>1. ~sd[s].locked
      BY <1>2, <1>18, <2>2, Zenon
    <3>2. loader.dev # s
      BY <1>2, <3>1, Zenon DEF StreamInv, Lent
    <3>3. hw'[s].dma # "on"
      BY <1>4, <1>13, <3>2
    <3>4. QED
      BY <1>7, <1>14, <3>3, Zenon
  <2>3. QED
    BY <1>2, <2>1, <2>2, Zenon DEF FlagRight
<1>25. QED
  BY <1>17, <1>20, <1>21, <1>22, <1>23, <1>24 DEF StreamInv

\* What the loader does with its stream, which no program is at work with.
LEMMA LoaderKeeps ==
  ASSUME StreamInv, NEW s \in Sds, NEW e, NEW h, NEW l, IsSd(e), IsHw(h), l = [f \in LoaderFields |-> l[f]],
         sd' = [sd EXCEPT ![s] = e], hw' = [hw EXCEPT ![s] = h], pcm' = pcm, loader' = l,
         loader.at = "idle" \/ loader.dev = s,
         sd[s].locked \/ ~sd[s].opened,
         e.opened <=> sd[s].opened, e.substream \in {sd[s].substream, None},
         l.at \in {"idle", "taken", "ready", "loading"},
         l.at = "idle" => l.dev = 0 /\ ~e.locked /\ h.dma = "off",
         l.at = "idle" => ~e.running \/ e.params = NoParams,
         l.at # "idle" => l.dev = s /\ e.locked,
         l.at \in {"taken", "ready"} => ~e.running,
         l.at = "taken" => h.dma = "off",
         l.at \in {"ready", "loading"} => h.cbl = l.bytes,
         l.at = "loading" => h.dma = "on"
  PROVE  StreamInv'
<1>1. /\ sd' = [r \in Sds |-> sd'[r]] /\ hw' = [r \in Sds |-> hw'[r]]
      /\ \A r \in Sds : IsSd(sd'[r]) /\ IsHw(hw'[r])
      /\ sd'[s] = e /\ hw'[s] = h
      /\ \A r \in Sds : r # s => sd'[r] = sd[r] /\ hw'[r] = hw[r]
  BY EntriesWritten
<1>2. \A v \in Substreams : IsPcm(pcm'[v])
  BY EntriesAre DEF StreamInv
<1>3. Shapes' /\ Values'
  BY <1>1, <1>2, ShapesFollow DEF StreamInv, Shapes, Values
<1>4. \A v \in Substreams : pcm[v].dev = s => pcm[v].at \in {"closed", "open"}
  <2>1. ASSUME NEW v \in Substreams, pcm[v].dev = s, pcm[v].at \in {"prepared", "running", "stopping"}
        PROVE  FALSE
    <3>1. ~sd[s].locked
      BY <2>1, Zenon DEF StreamInv, Active
    <3>2. pcm[v].at # "closed"
      BY <2>1
    <3>3. sd[s].opened
      BY <2>1, <3>2, Zenon DEF StreamInv, Owners
    <3>4. QED
      BY <3>1, <3>3, Zenon
  <2>2. QED
    BY <2>1 DEF StreamInv, Values
<1>5. Owners'
  <2>1. ASSUME NEW v \in Substreams, pcm[v].at # "closed"
        PROVE  /\ pcm[v].dev \in Sds /\ sd'[pcm[v].dev].opened
               /\ sd'[pcm[v].dev].substream \in {v, None}
    <3>1. pcm[v].dev \in Sds
      BY <2>1 DEF StreamInv, Owners
    <3>2. sd[pcm[v].dev].opened /\ sd[pcm[v].dev].substream \in {v, None}
      BY <2>1, Zenon DEF StreamInv, Owners
    <3>3. CASE pcm[v].dev = s
      <4>1. sd'[pcm[v].dev].opened
        BY <1>1, <3>2, <3>3, Zenon
      <4>2. sd'[pcm[v].dev].substream \in {v, None}
        BY <1>1, <3>2, <3>3
      <4>3. QED
        BY <3>1, <4>1, <4>2
    <3>4. CASE pcm[v].dev # s
      <4>1. sd'[pcm[v].dev] = sd[pcm[v].dev]
        BY <1>1, <3>1, <3>4
      <4>2. QED
        BY <3>1, <3>2, <4>1, Zenon
    <3>5. QED
      BY <3>3, <3>4
  <2>2. \A v \in Substreams : pcm[v].at = "closed" => pcm[v].dev = 0
    BY DEF StreamInv, Owners
  <2>3. \A v, w \in Substreams : v # w /\ pcm[v].dev = pcm[w].dev => pcm[v].dev = 0
    BY Zenon DEF StreamInv, Owners
  <2>4. QED
    BY <2>1, <2>2, <2>3, Zenon DEF Owners
<1>6. Active'
  <2>1. ASSUME NEW v \in Substreams, pcm[v].at \in {"prepared", "running", "stopping"}
        PROVE  sd'[pcm[v].dev] = sd[pcm[v].dev] /\ hw'[pcm[v].dev] = hw[pcm[v].dev]
    BY <1>1, <1>4, <2>1 DEF StreamInv, Owners
  <2>2. ASSUME NEW v \in Substreams, pcm[v].at \in {"prepared", "running", "stopping"}
        PROVE  ~sd'[pcm[v].dev].locked /\ sd'[pcm[v].dev].substream = v
    <3>1. ~sd[pcm[v].dev].locked /\ sd[pcm[v].dev].substream = v
      BY <2>2, Zenon DEF StreamInv, Active
    <3>2. QED
      BY <2>1, <2>2, <3>1, Zenon
  <2>3. \A v \in Substreams : /\ pcm[v].at = "running" => hw'[pcm[v].dev].dma = "on"
                              /\ pcm[v].at = "stopping" => hw'[pcm[v].dev].dma = "stopping"
    BY <2>1 DEF StreamInv, Active
  <2>4. QED
    BY <2>2, <2>3, Zenon DEF Active
<1>7. \A r \in Sds : r # s => loader.dev # r
  BY NoStreamZero DEF StreamInv, Lent
<1>8. Lent'
  <2>1. \A r \in Sds : sd'[r].locked <=> loader'.dev = r
    <3>1. ASSUME NEW r \in Sds, r # s PROVE ~sd'[r].locked /\ loader'.dev # r
      <4>1. ~sd[r].locked
        BY <1>7, <3>1, Zenon DEF StreamInv, Lent
      <4>2. sd'[r] = sd[r]
        BY <1>1, <3>1
      <4>3. loader'.dev # r
        BY <3>1, NoStreamZero
      <4>4. QED
        BY <4>1, <4>2, <4>3, Zenon
    <3>2. CASE l.at = "idle"
      <4>1. loader'.dev # s
        BY <3>2, NoStreamZero
      <4>2. ~sd'[s].locked
        BY <1>1, <3>2, Zenon
      <4>3. QED
        BY <3>1, <4>1, <4>2, Zenon
    <3>3. CASE l.at # "idle"
      BY <1>1, <3>1, <3>3, Zenon
    <3>4. QED
      BY <3>2, <3>3
  <2>2. loader'.at \in {"taken", "ready"} => ~sd'[loader'.dev].running
    <3>1. ASSUME loader'.at \in {"taken", "ready"} PROVE loader'.dev = s /\ l.at \in {"taken", "ready"}
      BY <3>1
    <3>2. QED
      BY <1>1, <3>1, Zenon
  <2>3. /\ IF loader'.at = "idle" THEN loader'.dev = 0 ELSE loader'.dev \in Sds
        /\ loader'.at = "taken" => hw'[loader'.dev].dma = "off"
        /\ loader'.at \in {"ready", "loading"} => hw'[loader'.dev].cbl = loader'.bytes
        /\ loader'.at = "loading" => hw'[loader'.dev].dma = "on"
    BY <1>1
  <2>4. QED
    BY <2>1, <2>2, <2>3, Zenon DEF Lent
<1>9. QuietWhenFree'
  <2>1. ASSUME NEW r \in Sds, r # s, hw'[r].dma # "off"
        PROVE  \E v \in Substreams : pcm'[v].dev = r /\ pcm'[v].at \in {"running", "stopping"}
    BY <1>1, <1>7, <2>1 DEF StreamInv, QuietWhenFree
  <2>2. hw'[s].dma # "off" => loader'.dev = s
    BY <1>1
  <2>3. QED
    BY <2>1, <2>2 DEF QuietWhenFree
<1>10. FlagRight'
  <2>1. ASSUME NEW r \in Sds, r # s, ~sd'[r].locked
        PROVE  (sd'[r].running <=> hw'[r].dma = "on") \/ Bare(r)'
    <3>1. sd'[r] = sd[r] /\ hw'[r] = hw[r]
      BY <1>1, <2>1
    <3>2. (sd[r].running <=> hw[r].dma = "on") \/ Bare(r)
      BY <2>1, <3>1, Zenon DEF StreamInv, FlagRight
    <3>3. Bare(r) => Bare(r)'
      BY <3>1 DEF Bare
    <3>4. QED
      BY <3>1, <3>2, <3>3, Zenon
  <2>2. ASSUME ~sd'[s].locked
        PROVE  (sd'[s].running <=> hw'[s].dma = "on") \/ Bare(s)'
    <3>1. l.at = "idle"
      BY <1>1, <2>2, Zenon
    <3>2. hw'[s].dma # "on"
      BY <1>1, <3>1
    <3>3. e.params = NoParams => Bare(s)'
      <4>1. \A v \in Substreams : pcm[v].dev = s => pcm[v].at = "open"
        BY <1>4, NoStreamZero DEF StreamInv, Owners
      <4>2. QED
        BY <1>1, <4>1 DEF Bare
    <3>4. QED
      BY <1>1, <3>1, <3>2, <3>3, Zenon
  <2>3. QED
    BY <2>1, <2>2, Zenon DEF FlagRight
<1>11. QED
  BY <1>3, <1>5, <1>6, <1>8, <1>9, <1>10 DEF StreamInv

\* Each operation of the loader keeps StreamInv.
LEMMA DspTakeKeeps ==
  ASSUME StreamInv, NEW s \in Sds, NEW n, DspTake(s, n)
  PROVE  StreamInv'
<1>1. loader.at = "idle" /\ ~sd[s].opened /\ ~sd[s].running /\ ~sd[s].locked
  BY Zenon DEF DspTake
<1>2. hw[s].dma = "off"
  <2>1. loader.dev # s
    BY <1>1, Zenon DEF StreamInv, Lent
  <2>2. ASSUME NEW v \in Substreams, pcm[v].dev = s, pcm[v].at \in {"running", "stopping"} PROVE FALSE
    <3>1. pcm[v].at # "closed"
      BY <2>2
    <3>2. QED
      BY <1>1, <2>2, <3>1, Zenon DEF StreamInv, Owners
  <2>3. QED
    BY <2>1, <2>2 DEF StreamInv, QuietWhenFree
<1>3. IsSd(sd[s]) /\ IsHw(hw[s])
  BY EntriesAre DEF StreamInv
<1>4. PICK e : e = [sd[s] EXCEPT !.locked = TRUE]
  OBVIOUS
<1>5. /\ e = [f \in SdFields |-> e[f]] /\ e.substream = sd[s].substream
      /\ e.opened = sd[s].opened /\ e.running = sd[s].running /\ e.locked = TRUE
  BY <1>3, <1>4 DEF IsSd, SdFields
<1>6. IsSd(e)
  BY <1>3, <1>5, Zenon DEF IsSd
<1>7. PICK l : l = [at |-> "taken", dev |-> s, bytes |-> n]
  OBVIOUS
<1>8. l = [f \in LoaderFields |-> l[f]] /\ l.at = "taken" /\ l.dev = s
  BY <1>7 DEF LoaderFields
<1>9. sd' = [sd EXCEPT ![s] = e]
  BY <1>4 DEF DspTake
<1>10. hw' = [hw EXCEPT ![s] = hw[s]] /\ pcm' = pcm /\ loader' = l
  BY <1>7 DEF DspTake, StreamInv, Shapes
<1>11. (e.opened <=> sd[s].opened) /\ ~e.running /\ e.locked
  BY <1>1, <1>5, Zenon
<1>12. /\ l.at \in {"idle", "taken", "ready", "loading"} /\ l.at # "idle"
       /\ l.at \notin {"ready", "loading"} /\ l.at # "loading" /\ e.substream \in {sd[s].substream, None}
  BY <1>5, <1>8
<1>13. QED
  BY <1>1, <1>2, <1>3, <1>6, <1>8, <1>9, <1>10, <1>11, <1>12, LoaderKeeps, Zenon

\* Where the loader's stream is in an action of the loader.
LEMMA LoaderHas ==
  ASSUME StreamInv, loader.at # "idle"
  PROVE  /\ loader.dev \in Sds /\ sd[loader.dev].locked
         /\ IsSd(sd[loader.dev]) /\ IsHw(hw[loader.dev])
<1>1. loader.dev \in Sds
  BY DEF StreamInv, Lent
<1>2. QED
  BY <1>1, EntriesAre, Zenon DEF StreamInv, Lent

LEMMA DspPrepareKeeps ==
  ASSUME StreamInv, DspPrepare
  PROVE  StreamInv'
<1>1. PICK s : s = loader.dev
  OBVIOUS
<1>2. loader.at = "taken"
  BY DEF DspPrepare
<1>3. s \in Sds /\ sd[s].locked /\ IsSd(sd[s]) /\ IsHw(hw[s])
  <2>1. loader.at # "idle"
    BY <1>2
  <2>2. QED
    BY <1>1, <2>1, LoaderHas, Zenon
<1>4. PICK x : x = LoadSetup(loader.bytes)
  OBVIOUS
<1>5. PICK w : w = Written(LoadSetup(loader.bytes), FALSE)
  OBVIOUS
<1>6. PICK e : e = [sd[s] EXCEPT !.substream = None, !.running = FALSE, !.nowake = TRUE,
                                 !.params = ParamsOf(x), !.frags = Len(w)]
  OBVIOUS
<1>7. /\ e = [f \in SdFields |-> e[f]] /\ e.substream = None
      /\ e.opened = sd[s].opened /\ e.running = FALSE /\ e.locked = sd[s].locked
  BY <1>3, <1>6 DEF IsSd, SdFields
<1>8. IsSd(e)
  BY <1>3, <1>7, Zenon DEF IsSd
<1>9. PICK h : h = [dma |-> "off", cbl |-> loader.bytes, lvi |-> Len(w) - 1]
  OBVIOUS
<1>10. IsHw(h) /\ h.cbl = loader.bytes
  BY <1>9 DEF IsHw, HwFields
<1>11. PICK l : l = [loader EXCEPT !.at = "ready"]
  OBVIOUS
<1>12. l = [f \in LoaderFields |-> l[f]] /\ l.at = "ready" /\ l.dev = s /\ l.bytes = loader.bytes
  BY <1>1, <1>11 DEF StreamInv, Shapes, LoaderFields
<1>13. sd' = [sd EXCEPT ![s] = e]
  <2>1. sd' = [sd EXCEPT ![s].substream = None, ![s].running = FALSE, ![s].nowake = TRUE,
                         ![s].params = ParamsOf(x), ![s].frags = Len(w)]
    BY <1>1, <1>4, <1>5, Zenon DEF DspPrepare
  <2>2. sd \in [Sds -> {sd[r] : r \in Sds}] /\ DOMAIN sd[s] = SdFields
    BY <1>3 DEF StreamInv, Shapes, IsSd
  <2>3. QED
    BY <1>3, <1>6, <2>1, <2>2 DEF SdFields
<1>14. hw' = [hw EXCEPT ![s] = h] /\ pcm' = pcm /\ loader' = l
  BY <1>1, <1>5, <1>9, <1>11 DEF DspPrepare
<1>15. (e.opened <=> sd[s].opened) /\ ~e.running /\ e.locked
  BY <1>3, <1>7, Zenon
<1>16. /\ l.at \in {"idle", "taken", "ready", "loading"} /\ l.at # "idle" /\ l.at # "taken"
       /\ l.at # "loading" /\ e.substream \in {sd[s].substream, None} /\ h.cbl = l.bytes
  BY <1>7, <1>10, <1>12
<1>17. QED
  BY <1>1, <1>3, <1>8, <1>10, <1>12, <1>13, <1>14, <1>15, <1>16, LoaderKeeps, Zenon

\* However it fails, the stream is given back unlocked and at rest.
LEMMA DspFailsKeeps ==
  ASSUME StreamInv, DspFails
  PROVE  StreamInv'
<1>1. PICK s : s = loader.dev
  OBVIOUS
<1>2. loader.at = "taken"
  BY DEF DspFails
<1>3. s \in Sds /\ sd[s].locked /\ IsSd(sd[s]) /\ IsHw(hw[s])
  <2>1. loader.at # "idle"
    BY <1>2
  <2>2. QED
    BY <1>1, <2>1, LoaderHas, Zenon
<1>4. hw[s].dma = "off"
  BY <1>1, <1>2 DEF StreamInv, Lent
<1>5. ~sd[s].running
  <2>1. loader.at \in {"taken", "ready"}
    BY <1>2
  <2>2. QED
    BY <1>1, <2>1, Zenon DEF StreamInv, Lent
<1>6. NoLoad = [f \in LoaderFields |-> NoLoad[f]] /\ NoLoad.at = "idle" /\ NoLoad.dev = 0
  BY DEF NoLoad, LoaderFields
<1>7. pcm' = pcm /\ loader' = NoLoad
  BY DEF DspFails
<1>8. CASE sd' = [sd EXCEPT ![s].locked = FALSE] /\ hw' = hw
  <2>1. PICK e : e = [sd[s] EXCEPT !.locked = FALSE]
    OBVIOUS
  <2>2. /\ e = [f \in SdFields |-> e[f]] /\ e.substream = sd[s].substream
        /\ e.opened = sd[s].opened /\ e.running = sd[s].running /\ e.locked = FALSE
    BY <1>3, <2>1 DEF IsSd, SdFields
  <2>3. IsSd(e)
    BY <1>3, <2>2, Zenon DEF IsSd
  <2>4. sd' = [sd EXCEPT ![s] = e]
    BY <1>8, <2>1
  <2>5. hw' = [hw EXCEPT ![s] = hw[s]]
    BY <1>3, <1>8 DEF StreamInv, Shapes
  <2>6. (e.opened <=> sd[s].opened) /\ ~e.running /\ ~e.locked
    BY <1>5, <2>2, Zenon
  <2>7. /\ NoLoad.at \in {"idle", "taken", "ready", "loading"} /\ NoLoad.at \notin {"taken", "ready"}
        /\ NoLoad.at \notin {"ready", "loading"} /\ NoLoad.at # "taken" /\ NoLoad.at # "loading"
        /\ e.substream \in {sd[s].substream, None}
    BY <1>6, <2>2
  <2>8. QED
    BY <1>1, <1>3, <1>4, <1>6, <1>7, <2>3, <2>4, <2>5, <2>6, <2>7, LoaderKeeps, Zenon
<1>9. CASE /\ sd' = [sd EXCEPT ![s].locked = FALSE, ![s].substream = None, ![s].running = FALSE,
                               ![s].nowake = TRUE, ![s].params = ParamsOf(LoadSetup(loader.bytes)),
                               ![s].frags = BdlEntries]
           /\ hw' = [hw EXCEPT ![s].dma = "off"]
  <2>1. PICK x : x = LoadSetup(loader.bytes)
    OBVIOUS
  <2>2. PICK e : e = [sd[s] EXCEPT !.locked = FALSE, !.substream = None, !.running = FALSE, !.nowake = TRUE,
                                   !.params = ParamsOf(x), !.frags = BdlEntries]
    OBVIOUS
  <2>3. /\ e = [f \in SdFields |-> e[f]] /\ e.substream = None
        /\ e.opened = sd[s].opened /\ e.running = FALSE /\ e.locked = FALSE
    BY <1>3, <2>2 DEF IsSd, SdFields
  <2>4. IsSd(e)
    BY <1>3, <2>3, Zenon DEF IsSd
  <2>5. PICK h : h = [hw[s] EXCEPT !.dma = "off"]
    OBVIOUS
  <2>6. IsHw(h) /\ h.dma = "off"
    BY <1>3, <2>5 DEF IsHw, HwFields
  <2>7. sd' = [sd EXCEPT ![s] = e]
    BY <1>3, <1>9, <2>1, <2>2 DEF StreamInv, Shapes
  <2>8. hw' = [hw EXCEPT ![s] = h]
    BY <1>9, <2>5
  <2>9. (e.opened <=> sd[s].opened) /\ ~e.running /\ ~e.locked
    BY <2>3, Zenon
  <2>10. /\ NoLoad.at \in {"idle", "taken", "ready", "loading"} /\ NoLoad.at \notin {"taken", "ready"}
         /\ NoLoad.at \notin {"ready", "loading"} /\ NoLoad.at # "taken" /\ NoLoad.at # "loading"
         /\ e.substream \in {sd[s].substream, None}
    BY <1>6, <2>3
  <2>11. QED
    BY <1>1, <1>3, <1>6, <1>7, <2>4, <2>6, <2>7, <2>8, <2>9, <2>10, LoaderKeeps, Zenon
<1>10. QED
  BY <1>1, <1>8, <1>9, Zenon DEF DspFails

LEMMA DspStartKeeps ==
  ASSUME StreamInv, DspStart
  PROVE  StreamInv'
<1>1. PICK s : s = loader.dev
  OBVIOUS
<1>2. loader.at = "ready"
  BY DEF DspStart
<1>3. s \in Sds /\ sd[s].locked /\ IsSd(sd[s]) /\ IsHw(hw[s])
  <2>1. loader.at # "idle"
    BY <1>2
  <2>2. QED
    BY <1>1, <2>1, LoaderHas, Zenon
<1>4. hw[s].cbl = loader.bytes
  BY <1>1, <1>2 DEF StreamInv, Lent
<1>5. PICK e : e = [sd[s] EXCEPT !.running = TRUE]
  OBVIOUS
<1>6. /\ e = [f \in SdFields |-> e[f]] /\ e.substream = sd[s].substream
      /\ e.opened = sd[s].opened /\ e.running = TRUE /\ e.locked = sd[s].locked
  BY <1>3, <1>5 DEF IsSd, SdFields
<1>7. IsSd(e)
  BY <1>3, <1>6, Zenon DEF IsSd
<1>8. PICK h : h = [hw[s] EXCEPT !.dma = "on"]
  OBVIOUS
<1>9. IsHw(h) /\ h.dma = "on" /\ h.cbl = hw[s].cbl
  BY <1>3, <1>8 DEF IsHw, HwFields
<1>10. PICK l : l = [loader EXCEPT !.at = "loading"]
  OBVIOUS
<1>11. l = [f \in LoaderFields |-> l[f]] /\ l.at = "loading" /\ l.dev = s /\ l.bytes = loader.bytes
  BY <1>1, <1>10 DEF StreamInv, Shapes, LoaderFields
<1>12. sd' = [sd EXCEPT ![s] = e] /\ hw' = [hw EXCEPT ![s] = h] /\ pcm' = pcm /\ loader' = l
  BY <1>1, <1>5, <1>8, <1>10 DEF DspStart
<1>13. (e.opened <=> sd[s].opened) /\ e.locked
  BY <1>3, <1>6, Zenon
<1>14. /\ l.at \in {"idle", "taken", "ready", "loading"} /\ l.at # "idle" /\ l.at # "taken"
       /\ l.at \notin {"taken", "ready"} /\ e.substream \in {sd[s].substream, None} /\ h.cbl = l.bytes
  BY <1>4, <1>6, <1>9, <1>11
<1>15. QED
  BY <1>1, <1>3, <1>7, <1>9, <1>11, <1>12, <1>13, <1>14, LoaderKeeps, Zenon

LEMMA DspStopKeeps ==
  ASSUME StreamInv, DspStop
  PROVE  StreamInv'
<1>1. PICK s : s = loader.dev
  OBVIOUS
<1>2. loader.at = "loading"
  BY DEF DspStop
<1>3. s \in Sds /\ sd[s].locked /\ IsSd(sd[s]) /\ IsHw(hw[s])
  <2>1. loader.at # "idle"
    BY <1>2
  <2>2. QED
    BY <1>1, <2>1, LoaderHas, Zenon
<1>4. hw[s].cbl = loader.bytes
  BY <1>1, <1>2 DEF StreamInv, Lent
<1>5. PICK e : e = [sd[s] EXCEPT !.running = FALSE]
  OBVIOUS
<1>6. /\ e = [f \in SdFields |-> e[f]] /\ e.substream = sd[s].substream
      /\ e.opened = sd[s].opened /\ e.running = FALSE /\ e.locked = sd[s].locked
  BY <1>3, <1>5 DEF IsSd, SdFields
<1>7. IsSd(e)
  BY <1>3, <1>6, Zenon DEF IsSd
<1>8. PICK h : h = [hw[s] EXCEPT !.dma = "stopping"]
  OBVIOUS
<1>9. IsHw(h) /\ h.cbl = hw[s].cbl
  BY <1>3, <1>8 DEF IsHw, HwFields
<1>10. PICK l : l = [loader EXCEPT !.at = "ready"]
  OBVIOUS
<1>11. l = [f \in LoaderFields |-> l[f]] /\ l.at = "ready" /\ l.dev = s /\ l.bytes = loader.bytes
  BY <1>1, <1>10 DEF StreamInv, Shapes, LoaderFields
<1>12. sd' = [sd EXCEPT ![s] = e] /\ hw' = [hw EXCEPT ![s] = h] /\ pcm' = pcm /\ loader' = l
  BY <1>1, <1>5, <1>8, <1>10 DEF DspStop
<1>13. (e.opened <=> sd[s].opened) /\ ~e.running /\ e.locked
  BY <1>3, <1>6, Zenon
<1>14. /\ l.at \in {"idle", "taken", "ready", "loading"} /\ l.at # "idle" /\ l.at # "taken"
       /\ l.at # "loading" /\ e.substream \in {sd[s].substream, None} /\ h.cbl = l.bytes
  BY <1>4, <1>6, <1>9, <1>11
<1>15. QED
  BY <1>1, <1>3, <1>7, <1>9, <1>11, <1>12, <1>13, <1>14, LoaderKeeps, Zenon

LEMMA DspCleanupKeeps ==
  ASSUME StreamInv, DspCleanup
  PROVE  StreamInv'
<1>1. PICK s : s = loader.dev
  OBVIOUS
<1>2. loader.at \in {"ready", "loading"}
  BY DEF DspCleanup
<1>3. s \in Sds /\ sd[s].locked /\ IsSd(sd[s]) /\ IsHw(hw[s])
  <2>1. loader.at # "idle"
    BY <1>2
  <2>2. QED
    BY <1>1, <2>1, LoaderHas, Zenon
<1>4. PICK e : e = [sd[s] EXCEPT !.params = NoParams, !.locked = FALSE]
  OBVIOUS
<1>5. /\ e = [f \in SdFields |-> e[f]] /\ e.substream = sd[s].substream
      /\ e.opened = sd[s].opened /\ e.running = sd[s].running /\ e.locked = FALSE
      /\ e.params = NoParams
  BY <1>3, <1>4 DEF IsSd, SdFields
<1>6. IsSd(e)
  BY <1>3, <1>5, Zenon DEF IsSd
<1>7. PICK h : h = [hw[s] EXCEPT !.dma = "off"]
  OBVIOUS
<1>8. IsHw(h) /\ h.dma = "off"
  BY <1>3, <1>7 DEF IsHw, HwFields
<1>9. NoLoad = [f \in LoaderFields |-> NoLoad[f]] /\ NoLoad.at = "idle" /\ NoLoad.dev = 0
  BY DEF NoLoad, LoaderFields
<1>10. hw' = [hw EXCEPT ![s] = h] /\ pcm' = pcm /\ loader' = NoLoad
  BY <1>1, <1>7 DEF DspCleanup
<1>11. sd' = [sd EXCEPT ![s] = e]
  BY <1>1, <1>3, <1>4 DEF DspCleanup, StreamInv, Shapes
<1>12. (e.opened <=> sd[s].opened) /\ ~e.locked
  BY <1>5, Zenon
<1>13. /\ NoLoad.at \in {"idle", "taken", "ready", "loading"} /\ NoLoad.at \notin {"taken", "ready"}
       /\ NoLoad.at \notin {"ready", "loading"} /\ NoLoad.at # "taken" /\ NoLoad.at # "loading"
       /\ e.substream \in {sd[s].substream, None}
  BY <1>5, <1>9
<1>14. QED
  BY <1>1, <1>3, <1>5, <1>6, <1>8, <1>9, <1>10, <1>11, <1>12, <1>13, LoaderKeeps, Zenon

\* Streams the controller does not run are marked so.
LEMMA StopStreamsKeeps ==
  ASSUME StreamInv, StopStreams
  PROVE  StreamInv'
<1>1. /\ loader.at = "idle" /\ \A u \in Substreams : pcm[u].at \notin {"running", "stopping"}
      /\ sd' = [s \in Sds |-> [sd[s] EXCEPT !.running = FALSE]]
      /\ hw' = hw /\ pcm' = pcm /\ loader' = loader
  BY DEF StopStreams
<1>2. /\ \A s \in Sds : IsSd(sd[s]) /\ IsHw(hw[s])
      /\ \A u \in Substreams : IsPcm(pcm[u])
  BY EntriesAre DEF StreamInv
<1>3. ASSUME NEW s \in Sds
      PROVE  /\ IsSd(sd'[s]) /\ sd'[s].running = FALSE /\ sd'[s].opened = sd[s].opened
             /\ sd'[s].locked = sd[s].locked /\ sd'[s].substream = sd[s].substream
  <2>1. sd'[s] = [sd[s] EXCEPT !.running = FALSE] /\ sd[s] = [f \in SdFields |-> sd[s][f]]
    BY <1>1, <1>2 DEF IsSd
  <2>2. /\ sd'[s] = [f \in SdFields |-> sd'[s][f]] /\ sd'[s].running = FALSE
        /\ sd'[s].opened = sd[s].opened /\ sd'[s].locked = sd[s].locked
        /\ sd'[s].substream = sd[s].substream
    BY <2>1 DEF SdFields
  <2>3. IsSd(sd'[s])
    BY <1>2, <2>2, Zenon DEF IsSd
  <2>4. QED
    BY <2>2, <2>3
<1>4. \A s \in Sds : hw[s].dma = "off" /\ loader.dev # s
  BY <1>1, NoStreamZero DEF StreamInv, Lent, QuietWhenFree
<1>5. Shapes' /\ Values'
  <2>1. sd' = [r \in Sds |-> sd'[r]] /\ hw' = [r \in Sds |-> hw'[r]] /\ pcm' = [v \in Substreams |-> pcm'[v]]
    BY <1>1 DEF StreamInv, Shapes
  <2>2. \A r \in Sds : IsSd(sd'[r]) /\ IsHw(hw'[r])
    BY <1>1, <1>2, <1>3, Zenon
  <2>3. \A v \in Substreams : IsPcm(pcm'[v])
    BY <1>1, <1>2, Zenon
  <2>4. QED
    BY <1>1, <2>1, <2>2, <2>3, ShapesFollow DEF StreamInv, Shapes, Values
<1>6. Owners'
  <2>1. ASSUME NEW u \in Substreams, pcm[u].at # "closed"
        PROVE  /\ pcm[u].dev \in Sds /\ sd'[pcm[u].dev].opened
               /\ sd'[pcm[u].dev].substream \in {u, None}
    <3>1. pcm[u].dev \in Sds
      BY <2>1 DEF StreamInv, Owners
    <3>2. sd[pcm[u].dev].opened /\ sd[pcm[u].dev].substream \in {u, None}
      BY <2>1, Zenon DEF StreamInv, Owners
    <3>3. QED
      BY <1>3, <3>1, <3>2, Zenon
  <2>2. \A u \in Substreams : pcm[u].at = "closed" => pcm[u].dev = 0
    BY DEF StreamInv, Owners
  <2>3. \A u, v \in Substreams : u # v /\ pcm[u].dev = pcm[v].dev => pcm[u].dev = 0
    BY Zenon DEF StreamInv, Owners
  <2>4. QED
    BY <1>1, <2>1, <2>2, <2>3, Zenon DEF Owners
<1>7. Active'
  <2>1. ASSUME NEW u \in Substreams, pcm[u].at \in {"prepared", "running", "stopping"}
        PROVE  ~sd'[pcm[u].dev].locked /\ sd'[pcm[u].dev].substream = u
    <3>1. pcm[u].dev \in Sds
      BY <2>1 DEF StreamInv, Owners
    <3>2. ~sd[pcm[u].dev].locked /\ sd[pcm[u].dev].substream = u
      BY <2>1, Zenon DEF StreamInv, Active
    <3>3. QED
      BY <1>3, <3>1, <3>2, Zenon
  <2>2. \A u \in Substreams : pcm[u].at # "running" /\ pcm[u].at # "stopping"
    BY <1>1
  <2>3. QED
    BY <1>1, <2>1, <2>2, Zenon DEF Active
<1>8. Lent'
  <2>1. loader'.at = "idle" /\ loader'.dev = 0
    BY <1>1 DEF StreamInv, Lent
  <2>2. \A r \in Sds : sd'[r].locked <=> loader'.dev = r
    BY <1>1, <1>3, Zenon DEF StreamInv, Lent
  <2>3. loader'.at \notin {"taken", "ready", "loading"}
    BY <2>1
  <2>4. loader'.at # "taken" /\ loader'.at # "loading" /\ loader'.at \notin {"taken", "ready"}
        /\ loader'.at \notin {"ready", "loading"}
    BY <2>3
  <2>5. QED
    BY <2>1, <2>2, <2>4, Zenon DEF Lent
<1>9. QuietWhenFree'
  BY <1>1, <1>4 DEF QuietWhenFree
<1>10. FlagRight'
  <2>1. \A s \in Sds : hw'[s].dma # "on"
    BY <1>1, <1>4
  <2>2. QED
    BY <1>3, <2>1, Zenon DEF FlagRight
<1>11. QED
  BY <1>5, <1>6, <1>7, <1>8, <1>9, <1>10 DEF StreamInv

LEMMA StreamInitHolds ==
  ASSUME StreamInit
  PROVE  StreamInv
<1>1. /\ \A s \in Sds : sd[s] = Idle /\ hw[s] = [dma |-> "off", cbl |-> 0, lvi |-> -1]
      /\ \A u \in Substreams : pcm[u] = [at |-> "closed", dev |-> 0, setup |-> NoSetup]
      /\ loader = NoLoad
  BY DEF StreamInit
<1>2. Idle = [f \in SdFields |-> Idle[f]] /\ Idle.opened = FALSE /\ Idle.running = FALSE /\ Idle.locked = FALSE
  BY DEF Idle, SdFields
<1>3. Shapes
  BY <1>1, <1>2 DEF StreamInit, Shapes, HwFields, PcmFields, LoaderFields, NoLoad
<1>4. Values
  <2>1. \A s \in Sds : sd[s].opened \in BOOLEAN /\ sd[s].running \in BOOLEAN /\ sd[s].locked \in BOOLEAN
    BY <1>1, <1>2, Zenon
  <2>2. \A s \in Sds : hw[s].dma = "off"
    BY <1>1
  <2>3. \A u \in Substreams : pcm[u].at = "closed"
    BY <1>1
  <2>4. loader.at = "idle"
    BY <1>1 DEF NoLoad
  <2>5. QED
    BY <2>1, <2>2, <2>3, <2>4, Zenon DEF Values
<1>5. Owners
  BY <1>1 DEF Owners
<1>6. Active
  BY <1>1 DEF Active
<1>7. Lent
  <2>1. loader.at = "idle" /\ loader.dev = 0
    BY <1>1 DEF NoLoad
  <2>2. \A s \in Sds : ~sd[s].locked /\ loader.dev # s
    BY <1>1, <1>2, <2>1, NoStreamZero, Zenon
  <2>3. QED
    BY <2>1, <2>2, Zenon DEF Lent
<1>8. QuietWhenFree
  BY <1>1 DEF QuietWhenFree
<1>9. FlagRight
  <2>1. \A s \in Sds : hw[s].dma # "on"
    BY <1>1
  <2>2. QED
    BY <1>1, <1>2, <2>1, Zenon DEF FlagRight
<1>10. QED
  BY <1>3, <1>4, <1>5, <1>6, <1>7, <1>8, <1>9 DEF StreamInv

\* Every stream has the user its fields tell of, at every step of the programs and of the
\* loader, failures included.
THEOREM StreamInvariant == StreamSpec => []StreamInv
<1>1. StreamInit => StreamInv
  BY StreamInitHolds
<1>2. StreamInv /\ [StreamNext]_streamVars => StreamInv'
  <2>1. ASSUME StreamInv, UNCHANGED streamVars PROVE StreamInv'
    <3>1. sd' = sd /\ bdl' = bdl /\ hw' = hw /\ pcm' = pcm /\ loader' = loader
      BY <2>1, Zenon DEF streamVars
    <3>2. Shapes' /\ Values'
      BY <2>1, <3>1 DEF StreamInv, Shapes, Values
    <3>3. Owners' /\ Active' /\ Lent'
      BY <2>1, <3>1 DEF StreamInv, Owners, Active, Lent
    <3>4. QuietWhenFree' /\ FlagRight'
      BY <2>1, <3>1 DEF StreamInv, QuietWhenFree, FlagRight, Bare
    <3>5. QED
      BY <3>2, <3>3, <3>4, Zenon DEF StreamInv
  <2>2. ASSUME StreamInv, StreamNext PROVE StreamInv'
    BY <2>2, AssignKeeps, PrepareKeeps, SyncStopKeeps, CleanupKeeps, ReleaseKeeps, HwParamsKeeps,
       StartKeeps, StopKeeps, DspTakeKeeps, DspPrepareKeeps, DspFailsKeeps, DspStartKeeps,
       DspStopKeeps, DspCleanupKeeps, StopStreamsKeeps, Zenon DEF StreamNext
  <2>3. QED
    BY <2>1, <2>2
<1>3. QED
  BY <1>1, <1>2, PTL DEF StreamSpec

\* StreamsShared for any number of descriptors and programs: a stream (stream.c) has
\* one user at a time, is unlocked again whenever the loader ends, is at rest when it is
\* handed on or its buffer freed, and its running flag tells what the controller does
\* unless it is lent or was left by a load that failed while it ran.
THEOREM StreamsAreShared == StreamSpec => []StreamsShared
<1>1. StreamInv => StreamsShared
  <2>1. SUFFICES ASSUME StreamInv PROVE OneUser /\ LockReturned /\ QuietWhenFree /\ RunningFlag
    BY DEF StreamsShared
  <2>2. OneUser
    <3>1. \A u, v \in Substreams : u # v /\ pcm[u].dev = pcm[v].dev => pcm[u].dev = 0
      BY <2>1, Zenon DEF StreamInv, Owners
    <3>2. ASSUME NEW u \in Substreams, pcm[u].at \in {"running", "stopping"}
          PROVE  ~sd[pcm[u].dev].locked /\ sd[pcm[u].dev].substream = u
      BY <2>1, <3>2, Zenon DEF StreamInv, Active
    <3>3. loader.at = "loading" => hw[loader.dev].dma = "on" /\ hw[loader.dev].cbl = loader.bytes
      BY <2>1 DEF StreamInv, Lent
    <3>4. QED
      BY <3>1, <3>2, <3>3, Zenon DEF OneUser
  <2>3. LockReturned
    <3>1. \A s \in Sds : sd[s].locked => loader.dev = s
      BY <2>1, Zenon DEF StreamInv, Lent
    <3>2. \A s \in Sds : loader.dev = s => loader.at # "idle"
      BY <2>1, NoStreamZero DEF StreamInv, Lent
    <3>3. QED
      BY <3>1, <3>2, Zenon DEF LockReturned
  <2>4. RunningFlag
    <3>1. ASSUME NEW s \in Sds, sd[s].running # (hw[s].dma = "on"), ~sd[s].locked PROVE LeftRunning(s)
      <4>1. sd[s].running \in BOOLEAN
        BY <2>1, Zenon DEF StreamInv, Values
      <4>2. ~(sd[s].running <=> hw[s].dma = "on")
        BY <3>1, <4>1, Zenon
      <4>3. Bare(s)
        BY <2>1, <3>1, <4>2, Zenon DEF StreamInv, FlagRight
      <4>4. loader.dev # s
        BY <2>1, <3>1, Zenon DEF StreamInv, Lent
      <4>5. hw[s].dma = "off"
        BY <2>1, <4>3, <4>4 DEF StreamInv, QuietWhenFree, Bare
      <4>6. hw[s].dma # "on"
        BY <4>5
      <4>7. sd[s].running
        BY <4>1, <4>2, <4>6, Zenon
      <4>8. QED
        BY <4>3, <4>5, <4>7, Zenon DEF LeftRunning, Bare
    <3>2. QED
      BY <3>1, Zenon DEF RunningFlag
  <2>5. QED
    BY <2>1, <2>2, <2>3, <2>4 DEF StreamInv
<1>2. QED
  BY <1>1, StreamInvariant, PTL

-----------------------------------------------------------------------------
(* HdaStream: the buffer descriptor list.                                  *)

\* Where setup_bdle has to cut whatever it is asked for
Hard(breaks, p) == p \in breaks \/ (Align4K /\ p % Page = 0)

\* The least element is what it says.
LEMMA LeastIs ==
  ASSUME NEW S, S \subseteq Nat, S # {}
  PROVE  Least(S) \in S /\ \A y \in S : Least(S) <= y
BY LeastStream, Zenon DEF Least

\* Rest and quotient, for a divisor that is not known.
LEMMA Divided ==
  ASSUME NEW a \in Nat, NEW d \in Nat \ {0}
  PROVE  /\ a \div d \in Nat /\ a % d \in 0..(d - 1)
         /\ a = d * (a \div d) + (a % d)
<1> DEFINE q == a \div d
           r == a % d
<1>1. r \in 0..(d - 1) /\ q \in Int
  OBVIOUS
<1>2. a = d * q + r
  OBVIOUS
<1>3. ~(q <= -1)
  <2>1. SUFFICES ASSUME q <= -1 PROVE FALSE
    OBVIOUS
  <2>2. d * q <= -d
    BY <1>1, <2>1
  <2>3. QED
    BY <1>1, <1>2, <2>2
<1>4. q \in Nat
  <2> HIDE DEF q, r
  <2>1. QED
    BY <1>1, <1>3
<1>5. QED
  BY <1>1, <1>2, <1>4, Zenon

LEMMA DividedOnce ==
  ASSUME NEW d \in Nat \ {0}, NEW q \in Nat, NEW r \in 0..(d - 1)
  PROVE  (d * q + r) % d = r /\ (d * q + r) \div d = q
<1>1. PICK a : a = d * q + r
  OBVIOUS
<1>2. a \in Nat
  BY <1>1
<1>3. /\ a \div d \in Nat /\ a % d \in 0..(d - 1) /\ a = d * (a \div d) + (a % d)
  BY <1>2, Divided
<1>4. a \div d = q
  <2>1. d * (q - (a \div d)) = (a % d) - r
    BY <1>1, <1>3
  <2>2. (a % d) - r < d /\ -d < (a % d) - r
    BY <1>3
  <2>3. PICK e \in Int : e = q - (a \div d)
    BY <1>3
  <2>4. ~(e >= 1)
    <3>1. SUFFICES ASSUME e >= 1 PROVE FALSE
      OBVIOUS
    <3>2. d * e >= d
      BY <3>1
    <3>3. QED
      BY <2>1, <2>2, <2>3, <3>2
  <2>5. ~(e <= -1)
    <3>1. SUFFICES ASSUME e <= -1 PROVE FALSE
      OBVIOUS
    <3>2. d * e <= -d
      BY <3>1
    <3>3. QED
      BY <2>1, <2>2, <2>3, <3>2
  <2>6. QED
    BY <1>3, <2>3, <2>4, <2>5
<1>5. QED
  BY <1>1, <1>3, <1>4

\* The next page limit: none before it.
LEMMA NextPage ==
  ASSUME NEW ofs \in Nat
  PROVE  /\ Page - (ofs % Page) \in 1..Page
         /\ (ofs + (Page - (ofs % Page))) % Page = 0
         /\ \A p \in Nat : ofs < p /\ p < ofs + (Page - (ofs % Page)) => p % Page # 0
<1>1. Page \in Nat \ {0}
  BY StreamAssumption
<1>2. PICK q \in Nat, r \in 0..(Page - 1) : ofs = Page * q + r /\ r = (ofs % Page)
  BY <1>1, Divided
<1>3. Page - (ofs % Page) \in 1..Page
  BY <1>1, <1>2
<1>4. (ofs + (Page - (ofs % Page))) % Page = 0
  <2>1. Page * (q + 1) = Page * q + Page
    BY <1>1, <1>2
  <2>2. ofs + (Page - (ofs % Page)) = Page * (q + 1) + 0
    BY <1>1, <1>2, <2>1
  <2>3. q + 1 \in Nat /\ 0 \in 0..(Page - 1)
    BY <1>1, <1>2
  <2>4. (Page * (q + 1) + 0) % Page = 0
    BY <1>1, <2>3, DividedOnce
  <2>5. QED
    BY <2>2, <2>4
<1>5. ASSUME NEW p \in Nat, ofs < p, p < ofs + (Page - (ofs % Page))
      PROVE  p % Page # 0
  <2>1. PICK e : e = p - Page * q
    OBVIOUS
  <2>2. e \in 1..(Page - 1) /\ p = Page * q + e
    BY <1>1, <1>2, <1>5, <2>1
  <2>3. (Page * q + e) % Page = e
    <3>1. e \in 0..(Page - 1)
      BY <1>1, <2>2
    <3>2. QED
      BY <1>1, <1>2, <3>1, DividedOnce
  <2>4. QED
    BY <2>2, <2>3
<1>6. QED
  BY <1>3, <1>4, <1>5

\* A chunk ends where a cut is needed, or where the piece does, and not behind a cut.
LEMMA ChunkIs ==
  ASSUME NEW breaks, breaks \subseteq Nat, NEW ofs \in Nat, NEW end \in Nat, ofs < end
  PROVE  /\ Chunk(breaks, ofs, end - ofs) \in 1..(end - ofs)
         /\ ofs + Chunk(breaks, ofs, end - ofs) = end \/ Hard(breaks, ofs + Chunk(breaks, ofs, end - ofs))
         /\ \A p \in Nat : ofs < p /\ p < ofs + Chunk(breaks, ofs, end - ofs) => ~Hard(breaks, p)
<1>1. PICK size : size = end - ofs
  OBVIOUS
<1>2. size \in Nat \ {0} /\ ofs + size = end
  BY <1>1
<1>3. PICK S : S = {size} \cup {b - ofs : b \in {b \in breaks : b > ofs}}
  OBVIOUS
<1>4. S \subseteq Nat \ {0} /\ size \in S
  BY <1>2, <1>3
<1>5. PICK g : g = SgChunk(breaks, ofs, size)
  OBVIOUS
<1>6. g = Least(S)
  BY <1>3, <1>5 DEF SgChunk
<1>7. g \in S /\ \A y \in S : g <= y
  BY <1>4, <1>6, LeastIs
<1>8. g \in 1..size
  BY <1>2, <1>4, <1>7
<1>9. g = size \/ ofs + g \in breaks
  BY <1>3, <1>7
<1>10. ASSUME NEW p \in Nat, ofs < p, p < ofs + g
       PROVE  p \notin breaks
  <2>1. p \in breaks => p - ofs \in S
    BY <1>3, <1>10
  <2>2. p - ofs < g
    BY <1>8, <1>10
  <2>3. QED
    BY <1>4, <1>7, <1>8, <2>1, <2>2
<1>11. CASE ~Align4K
  <2>1. Chunk(breaks, ofs, size) = g
    BY <1>5, <1>11 DEF Chunk
  <2>2. QED
    BY <1>1, <1>2, <1>8, <1>9, <1>10, <1>11, <2>1 DEF Hard
<1>12. CASE Align4K
  <2>1. PICK d : d = Page - (ofs % Page)
    OBVIOUS
  <2>2. /\ d \in 1..Page /\ (ofs + d) % Page = 0
        /\ \A p \in Nat : ofs < p /\ p < ofs + d => p % Page # 0
    BY <2>1, NextPage
  <2>3. PICK c : c = Chunk(breaks, ofs, size)
    OBVIOUS
  <2>4. c = Least({g, d})
    BY <1>5, <1>12, <2>1, <2>3 DEF Chunk
  <2>5. {g, d} \subseteq Nat /\ {g, d} # {}
    BY <1>2, <1>8, <2>2, StreamAssumption
  <2>6. c \in {g, d} /\ c <= g /\ c <= d
    <3>1. Least({g, d}) \in {g, d} /\ \A y \in {g, d} : Least({g, d}) <= y
      BY <2>5, LeastIs
    <3>2. QED
      BY <2>4, <3>1
  <2>7. c \in 1..size
    BY <1>2, <1>8, <2>2, <2>6, StreamAssumption
  <2>8. ofs + c = end \/ Hard(breaks, ofs + c)
    <3>1. CASE c = g
      BY <1>2, <1>9, <3>1 DEF Hard
    <3>2. CASE c = d
      BY <1>12, <2>2, <3>2 DEF Hard
    <3>3. QED
      BY <2>6, <3>1, <3>2
  <2>9. ASSUME NEW p \in Nat, ofs < p, p < ofs + c
        PROVE  ~Hard(breaks, p)
    <3>1. p < ofs + g /\ p < ofs + d
      BY <1>2, <1>8, <2>2, <2>6, <2>7, <2>9, StreamAssumption
    <3>2. QED
      BY <1>10, <2>2, <2>9, <3>1 DEF Hard
  <2>10. QED
    BY <1>1, <2>3, <2>7, <2>8, <2>9
<1>13. QED
  BY <1>11, <1>12

\* An entry of a descriptor list.
BdlEntry == [ofs : Nat, len : Nat, ioc : BOOLEAN]

\* The list covers what lies between from and end, without a gap.
Tiles(list, from, end) ==
  /\ list \in Seq(BdlEntry)
  /\ \A i \in 1..Len(list) :
       /\ list[i].len > 0
       /\ list[i].ofs = (IF i = 1 THEN from ELSE list[i - 1].ofs + list[i - 1].len)
  /\ end = (IF list = <<>> THEN from ELSE list[Len(list)].ofs + list[Len(list)].len)

\* Where its entries end, and where those that interrupt do.
Ends(list) == {list[i].ofs + list[i].len : i \in 1..Len(list)}
IocEnds(list) == {list[i].ofs + list[i].len : i \in {i \in 1..Len(list) : list[i].ioc}}

Only(wakes, p) == IF wakes THEN {p} ELSE {}

\* Two lists one after the other.
LEMMA TilesJoin ==
  ASSUME NEW a \in Nat, NEW b \in Nat, NEW c \in Nat, NEW f, NEW g,
         Tiles(f, a, b), Tiles(g, b, c)
  PROVE  /\ Tiles(f \o g, a, c)
         /\ Ends(f \o g) = Ends(f) \cup Ends(g)
         /\ IocEnds(f \o g) = IocEnds(f) \cup IocEnds(g)
<1>1. f \in Seq(BdlEntry) /\ g \in Seq(BdlEntry)
  BY DEF Tiles
<1>2. PICK h : h = f \o g
  OBVIOUS
<1>3. h \in Seq(BdlEntry) /\ Len(h) = Len(f) + Len(g) /\ Len(f) \in Nat /\ Len(g) \in Nat
  BY <1>1, <1>2
<1>4. \A i \in 1..Len(f) : h[i] = f[i]
  BY <1>1, <1>2
<1>5. \A i \in 1..Len(g) : h[Len(f) + i] = g[i]
  BY <1>1, <1>2
<1>6. \A i \in 1..Len(h) : i \in 1..Len(f) \/ (i - Len(f) \in 1..Len(g) /\ i = Len(f) + (i - Len(f)))
  BY <1>3
<1>7. \A i \in 1..Len(f) : f[i] \in BdlEntry
  BY <1>1
<1>8. \A i \in 1..Len(g) : g[i] \in BdlEntry
  BY <1>1
<1>9. ASSUME NEW i \in 1..Len(h)
      PROVE  h[i].len > 0 /\ h[i].ofs = (IF i = 1 THEN a ELSE h[i - 1].ofs + h[i - 1].len)
  <2>1. CASE i \in 1..Len(f)
    <3>1. h[i] = f[i] /\ (i # 1 => i - 1 \in 1..Len(f) /\ h[i - 1] = f[i - 1])
      BY <1>3, <1>4, <2>1
    <3>2. QED
      BY <2>1, <3>1 DEF Tiles
  <2>2. CASE i \notin 1..Len(f)
    <3>1. PICK j \in 1..Len(g) : i = Len(f) + j /\ h[i] = g[j]
      BY <1>5, <1>6, <2>2
    <3>2. g[j].len > 0 /\ g[j].ofs = (IF j = 1 THEN b ELSE g[j - 1].ofs + g[j - 1].len)
      BY <3>1 DEF Tiles
    <3>3. CASE j # 1
      <4>1. j - 1 \in 1..Len(g) /\ i - 1 = Len(f) + (j - 1) /\ i # 1
        BY <1>3, <3>1, <3>3
      <4>2. h[i - 1] = g[j - 1]
        BY <1>5, <4>1
      <4>3. QED
        BY <3>1, <3>2, <3>3, <4>1, <4>2
    <3>4. CASE j = 1 /\ f = <<>>
      <4>1. Len(f) = 0 /\ i = 1 /\ a = b
        BY <3>1, <3>4 DEF Tiles
      <4>2. QED
        BY <3>1, <3>2, <3>4, <4>1
    <3>5. CASE j = 1 /\ f # <<>>
      <4>1. Len(f) >= 1 /\ i = Len(f) + 1
        BY <1>1, <3>1, <3>5
      <4>2. b = f[Len(f)].ofs + f[Len(f)].len
        BY <3>5 DEF Tiles
      <4>3. i - 1 = Len(f) /\ i # 1 /\ h[i - 1] = f[Len(f)]
        BY <1>3, <1>4, <4>1
      <4>4. QED
        BY <3>1, <3>2, <3>5, <4>2, <4>3
    <3>6. QED
      BY <3>3, <3>4, <3>5
  <2>3. QED
    BY <2>1, <2>2
<1>10. c = (IF h = <<>> THEN a ELSE h[Len(h)].ofs + h[Len(h)].len)
  <2>1. CASE g = <<>>
    <3>1. h = f /\ b = c
      BY <1>1, <1>2, <2>1 DEF Tiles
    <3>2. QED
      BY <3>1 DEF Tiles
  <2>2. CASE g # <<>>
    <3>1. Len(g) >= 1
      BY <1>1, <2>2
    <3>2. h[Len(h)] = g[Len(g)] /\ h # <<>>
      BY <1>3, <1>5, <3>1
    <3>3. QED
      BY <2>2, <3>2 DEF Tiles
  <2>3. QED
    BY <2>1, <2>2
<1>11. \A i \in 1..Len(f) : i \in 1..Len(h)
  BY <1>3
<1>12. \A i \in 1..Len(g) : Len(f) + i \in 1..Len(h)
  BY <1>3
<1>13. Ends(h) = Ends(f) \cup Ends(g)
  <2>1. Ends(f) \subseteq Ends(h)
    BY <1>4, <1>11 DEF Ends
  <2>2. ASSUME NEW i \in 1..Len(g) PROVE g[i].ofs + g[i].len \in Ends(h)
    BY <1>5, <1>12 DEF Ends
  <2>3. ASSUME NEW i \in 1..Len(h) PROVE h[i].ofs + h[i].len \in Ends(f) \cup Ends(g)
    <3>1. CASE i \in 1..Len(f)
      BY <1>4, <3>1 DEF Ends
    <3>2. CASE i \notin 1..Len(f)
      <4>1. PICK j \in 1..Len(g) : h[i] = g[j]
        BY <1>5, <1>6, <3>2
      <4>2. QED
        BY <4>1 DEF Ends
    <3>3. QED
      BY <3>1, <3>2
  <2>4. QED
    BY <2>1, <2>2, <2>3 DEF Ends
<1>14. IocEnds(h) = IocEnds(f) \cup IocEnds(g)
  <2>1. ASSUME NEW i \in 1..Len(f), f[i].ioc PROVE f[i].ofs + f[i].len \in IocEnds(h)
    BY <1>4, <1>11, <2>1 DEF IocEnds
  <2>2. ASSUME NEW i \in 1..Len(g), g[i].ioc PROVE g[i].ofs + g[i].len \in IocEnds(h)
    <3>1. h[Len(f) + i] = g[i] /\ Len(f) + i \in 1..Len(h)
      BY <1>5, <1>12
    <3>2. QED
      BY <2>2, <3>1 DEF IocEnds
  <2>3. ASSUME NEW i \in 1..Len(h), h[i].ioc PROVE h[i].ofs + h[i].len \in IocEnds(f) \cup IocEnds(g)
    <3>1. CASE i \in 1..Len(f)
      BY <1>4, <2>3, <3>1 DEF IocEnds
    <3>2. CASE i \notin 1..Len(f)
      <4>1. PICK j \in 1..Len(g) : h[i] = g[j]
        BY <1>5, <1>6, <3>2
      <4>2. QED
        BY <2>3, <4>1 DEF IocEnds
    <3>3. QED
      BY <3>1, <3>2
  <2>4. QED
    BY <2>1, <2>2, <2>3 DEF IocEnds
<1>15. Tiles(h, a, c)
  BY <1>3, <1>9, <1>10 DEF Tiles
<1>16. QED
  BY <1>2, <1>13, <1>14, <1>15

\* An entry by itself.
LEMMA TilesOne ==
  ASSUME NEW a \in Nat, NEW n \in Nat \ {0}, NEW wakes \in BOOLEAN, NEW e,
         e = [ofs |-> a, len |-> n, ioc |-> wakes]
  PROVE  /\ Tiles(<<e>>, a, a + n) /\ Ends(<<e>>) = {a + n}
         /\ IocEnds(<<e>>) = Only(wakes, a + n)
<1>1. e \in BdlEntry /\ e.ofs = a /\ e.len = n /\ e.ioc = wakes
  BY DEF BdlEntry
<1>2. PICK l : l = <<e>>
  OBVIOUS
<1>3. l \in Seq(BdlEntry) /\ Len(l) = 1 /\ l[1] = e /\ l # <<>>
  BY <1>1, <1>2
<1>4. Tiles(l, a, a + n)
  BY <1>1, <1>3 DEF Tiles
<1>5. Ends(l) = {a + n}
  BY <1>1, <1>3 DEF Ends
<1>6. IocEnds(l) = Only(wakes, a + n)
  BY <1>1, <1>3 DEF IocEnds, Only
<1>7. QED
  BY <1>2, <1>4, <1>5, <1>6

\* What an entry before a list adds.
Fronted(l, g, a, p, c, wakes) ==
  /\ Tiles(l, a, c) /\ Ends(l) = {p} \cup Ends(g)
  /\ IocEnds(l) = Only(wakes, p) \cup IocEnds(g)

LEMMA TilesFront ==
  ASSUME NEW a \in Nat, NEW n \in Nat \ {0}, NEW c \in Nat, NEW wakes \in BOOLEAN, NEW g,
         Tiles(g, a + n, c), NEW l, l = <<[ofs |-> a, len |-> n, ioc |-> wakes]>> \o g
  PROVE  Fronted(l, g, a, a + n, c, wakes)
<1>1. PICK e : e = [ofs |-> a, len |-> n, ioc |-> wakes]
  OBVIOUS
<1>2. PICK f : f = <<e>>
  OBVIOUS
<1>3. Tiles(f, a, a + n) /\ Ends(f) = {a + n} /\ IocEnds(f) = Only(wakes, a + n)
  BY <1>1, <1>2, TilesOne
<1>4. a + n \in Nat /\ l = f \o g
  BY <1>1, <1>2
<1>5. /\ Tiles(f \o g, a, c) /\ Ends(f \o g) = Ends(f) \cup Ends(g)
      /\ IocEnds(f \o g) = IocEnds(f) \cup IocEnds(g)
  BY <1>3, <1>4, TilesJoin
<1>6. QED
  BY <1>3, <1>4, <1>5 DEF Fronted

\* The body of the recursion in SetupBdle.
Body(breaks, end, ioc, g, ofs) ==
  IF ofs = end THEN <<>>
  ELSE <<[ofs |-> ofs, len |-> Chunk(breaks, ofs, end - ofs),
          ioc |-> ioc /\ ofs + Chunk(breaks, ofs, end - ofs) = end]>>
         \o g[ofs + Chunk(breaks, ofs, end - ofs)]

IsBdle(g, breaks, from, end, ioc) == g = [ofs \in from..end |-> Body(breaks, end, ioc, g, ofs)]
BdleDefined(breaks, from, end, ioc) == \E g : IsBdle(g, breaks, from, end, ioc)

\* Down from the end it defines a list for each offset.
LEMMA BdleRecursion ==
  ASSUME NEW breaks, breaks \subseteq Nat, NEW from \in Nat, NEW end \in Nat, from <= end, NEW ioc
  PROVE  BdleDefined(breaks, from, end, ioc)
<1> DEFINE Bad == {a \in Nat : a <= end - from /\ ~BdleDefined(breaks, end - a, end, ioc)}
<1>1. SUFFICES Bad = {}
  <2>1. end - from \in Nat /\ end - from <= end - from /\ end - (end - from) = from
    OBVIOUS
  <2>2. QED
    BY <2>1
<1>2. SUFFICES ASSUME Bad # {} PROVE FALSE
  OBVIOUS
<1>3. PICK a \in Bad : \A b \in Bad : a <= b
  BY <1>2, LeastStream
<1>4. a \in Nat /\ a <= end - from /\ ~BdleDefined(breaks, end - a, end, ioc)
  BY <1>3
<1>5. CASE a = 0
  <2>1. PICK g : g = [ofs \in end..end |-> <<>>]
    OBVIOUS
  <2>2. g = [ofs \in end..end |-> Body(breaks, end, ioc, g, ofs)]
    BY <2>1 DEF Body
  <2>3. end - a = end
    BY <1>5
  <2>4. QED
    BY <1>4, <2>2, <2>3, Zenon DEF BdleDefined, IsBdle
<1>6. CASE a # 0
  <2>1. PICK h : h = [ofs \in (end - (a - 1))..end |-> Body(breaks, end, ioc, h, ofs)]
    <3>1. a - 1 \in Nat /\ a - 1 <= end - from /\ a - 1 \notin Bad
      BY <1>3, <1>4, <1>6
    <3>2. BdleDefined(breaks, end - (a - 1), end, ioc)
      BY <3>1
    <3>3. QED
      BY <3>2, Zenon DEF BdleDefined, IsBdle
  <2>2. PICK g : g = [ofs \in (end - a)..end |-> Body(breaks, end, ioc, h, ofs)]
    OBVIOUS
  <2>3. ASSUME NEW ofs \in (end - a)..end
        PROVE  Body(breaks, end, ioc, g, ofs) = Body(breaks, end, ioc, h, ofs)
    <3>1. CASE ofs = end
      BY <3>1 DEF Body
    <3>2. CASE ofs # end
      <4>1. PICK n : n = ofs + Chunk(breaks, ofs, end - ofs)
        OBVIOUS
      <4>2. n \in (end - (a - 1))..end /\ n \in (end - a)..end
        <5>1. ofs \in Nat /\ ofs < end
          BY <1>4, <3>2
        <5>2. Chunk(breaks, ofs, end - ofs) \in 1..(end - ofs)
          BY <5>1, ChunkIs
        <5>3. QED
          BY <1>4, <1>6, <5>1, <5>2, <4>1
      <4>3. g[n] = h[n]
        <5>1. h[n] = Body(breaks, end, ioc, h, n)
          BY <2>1, <4>2, Zenon
        <5>2. g[n] = Body(breaks, end, ioc, h, n)
          BY <2>2, <4>2, Zenon
        <5>3. QED
          BY <5>1, <5>2
      <4>4. QED
        BY <4>1, <4>3 DEF Body
    <3>3. QED
      BY <3>1, <3>2
  <2>4. g = [ofs \in (end - a)..end |-> Body(breaks, end, ioc, g, ofs)]
    BY <2>2, <2>3
  <2>5. QED
    BY <1>4, <2>4, Zenon DEF BdleDefined, IsBdle
<1>7. QED
  BY <1>5, <1>6

\* The piece from one offset to the end is cut where it has to be and nowhere else, and the
\* interrupt, if one is asked for, comes at the end.
BdleRight(list, breaks, from, end, ioc) ==
  /\ Tiles(list, from, end)
  /\ Ends(list) = {p \in Nat : from < p /\ p <= end /\ (p = end \/ Hard(breaks, p))}
  /\ IocEnds(list) = Only(ioc /\ from # end, end)

LEMMA BdleFrom ==
  ASSUME NEW breaks, breaks \subseteq Nat, NEW from \in Nat, NEW end \in Nat, from <= end,
         NEW ioc \in BOOLEAN, NEW g, IsBdle(g, breaks, from, end, ioc),
         NEW at \in from..end
  PROVE  BdleRight(g[at], breaks, at, end, ioc)
<1> DEFINE Bad == {a \in Nat : a <= end - from /\ ~BdleRight(g[end - a], breaks, end - a, end, ioc)}
<1>1. SUFFICES Bad = {}
  <2>1. end - at \in Nat /\ end - at <= end - from /\ end - (end - at) = at
    OBVIOUS
  <2>2. QED
    BY <2>1
<1>2. SUFFICES ASSUME Bad # {} PROVE FALSE
  OBVIOUS
<1>3. PICK a \in Bad : \A b \in Bad : a <= b
  BY <1>2, LeastStream
<1>4. PICK ofs : ofs = end - a
  OBVIOUS
<1>5. a \in Nat /\ ofs \in from..end /\ ofs \in Nat /\ ~BdleRight(g[ofs], breaks, ofs, end, ioc)
  BY <1>3, <1>4
<1>6. g[ofs] = Body(breaks, end, ioc, g, ofs)
  BY <1>5, Zenon DEF IsBdle
<1>7. CASE ofs = end
  <2>1. g[ofs] = <<>>
    BY <1>6, <1>7 DEF Body
  <2>2. Tiles(<<>>, ofs, end)
    BY <1>7 DEF Tiles
  <2>3. Ends(<<>>) = {} /\ IocEnds(<<>>) = {}
    BY DEF Ends, IocEnds
  <2>4. {p \in Nat : ofs < p /\ p <= end /\ (p = end \/ Hard(breaks, p))} = {}
    BY <1>5, <1>7
  <2>5. QED
    BY <1>5, <1>7, <2>1, <2>2, <2>3, <2>4 DEF BdleRight, Only
<1>8. CASE ofs # end
  <2>1. PICK chunk : chunk = Chunk(breaks, ofs, end - ofs)
    OBVIOUS
  <2>2. ofs < end
    BY <1>5, <1>8
  <2>3. /\ chunk \in 1..(end - ofs) /\ (ofs + chunk = end \/ Hard(breaks, ofs + chunk))
        /\ \A p \in Nat : ofs < p /\ p < ofs + chunk => ~Hard(breaks, p)
    BY <1>5, <2>1, <2>2, ChunkIs
  <2>4. PICK n : n = ofs + chunk
    OBVIOUS
  <2>5. n \in Nat /\ n \in from..end /\ ofs < n
    BY <1>5, <2>3, <2>4
  <2>6. BdleRight(g[n], breaks, n, end, ioc)
    <3>1. end - n \in Nat /\ end - n <= end - from /\ end - n < a /\ end - (end - n) = n
      BY <1>4, <1>5, <2>5
    <3>2. PICK m : m = end - n
      OBVIOUS
    <3>3. ~(a <= m) /\ m \in Nat
      BY <1>5, <3>1, <3>2
    <3>4. m \notin Bad
      BY <1>3, <3>3, Zenon
    <3>5. QED
      BY <3>1, <3>2, <3>3, <3>4
  <2>7. PICK wakes : wakes = (ioc /\ n = end)
    OBVIOUS
  <2>8. PICK h : h = g[n]
    OBVIOUS
  <2>9. wakes \in BOOLEAN /\ chunk \in Nat \ {0} /\ ofs + chunk = n
    BY <1>5, <2>2, <2>3, <2>4, <2>7
  <2>10. g[ofs] = <<[ofs |-> ofs, len |-> chunk, ioc |-> wakes]>> \o h
    BY <1>6, <1>8, <2>1, <2>4, <2>7, <2>8 DEF Body
  <2>12. Tiles(h, ofs + chunk, end)
    BY <2>6, <2>8, <2>9 DEF BdleRight
  <2> HIDE DEF Bad
  <2>13. /\ Tiles(g[ofs], ofs, end) /\ Ends(g[ofs]) = {n} \cup Ends(g[n])
         /\ IocEnds(g[ofs]) = Only(wakes, n) \cup IocEnds(g[n])
    <3>1. PICK l : l = g[ofs]
      OBVIOUS
    <3>2. ofs \in Nat /\ l = <<[ofs |-> ofs, len |-> chunk, ioc |-> wakes]>> \o h
      BY <1>5, <2>10, <3>1
    <3>3. Fronted(l, h, ofs, ofs + chunk, end, wakes)
      BY <2>9, <2>12, <3>2, TilesFront, Zenon
    <3>4. QED
      BY <2>8, <2>9, <3>1, <3>3 DEF Fronted
  <2>14. Ends(g[ofs]) = {p \in Nat : ofs < p /\ p <= end /\ (p = end \/ Hard(breaks, p))}
    <3>1. Ends(g[n]) = {p \in Nat : n < p /\ p <= end /\ (p = end \/ Hard(breaks, p))}
      BY <2>6 DEF BdleRight
    <3>2. ASSUME NEW p \in Nat, ofs < p, p <= end, p = end \/ Hard(breaks, p)
          PROVE  p = n \/ n < p
      BY <2>3, <2>4, <2>5, <3>2
    <3>3. n \in {p \in Nat : ofs < p /\ p <= end /\ (p = end \/ Hard(breaks, p))}
      BY <2>3, <2>4, <2>5
    <3>4. \A p \in Nat : n < p => ofs < p
      BY <1>5, <2>5
    <3>5. QED
      BY <2>13, <3>1, <3>2, <3>3, <3>4
  <2>15. IocEnds(g[ofs]) = Only(ioc /\ ofs # end, end)
    <3>1. IocEnds(g[n]) = Only(ioc /\ n # end, end)
      BY <2>6 DEF BdleRight
    <3>2. QED
      BY <1>8, <2>7, <2>13, <3>1 DEF Only
  <2>16. QED
    BY <1>5, <2>13, <2>14, <2>15 DEF BdleRight
<1>9. QED
  BY <1>7, <1>8

\* setup_bdle does that.
LEMMA SetupBdleIs ==
  ASSUME NEW breaks, breaks \subseteq Nat, NEW from \in Nat, NEW size \in Nat, NEW ioc \in BOOLEAN
  PROVE  BdleRight(SetupBdle(breaks, from, size, ioc), breaks, from, from + size, ioc)
<1> DEFINE g == CHOOSE g : g = [ofs \in from..(from + size) |-> Body(breaks, from + size, ioc, g, ofs)]
<1>1. from + size \in Nat /\ from <= from + size /\ from \in from..(from + size)
  OBVIOUS
<1>2. BdleDefined(breaks, from, from + size, ioc)
  BY <1>1, BdleRecursion
<1>3. IsBdle(g, breaks, from, from + size, ioc)
  BY <1>2, Zenon DEF BdleDefined, IsBdle
<1>4. SetupBdle(breaks, from, size, ioc) = g[from]
  BY DEF SetupBdle, Body
<1> HIDE DEF g
<1>5. QED
  BY <1>1, <1>3, <1>4, BdleFrom

\* The adjustment of a program's list.
Adj(x) == Adjust(x, TRUE)

\* The adjustment is less than a period, and nothing unless the program wants interrupts.
LEMMA AdjustIs ==
  ASSUME NEW x \in SetupType
  PROVE  /\ Adj(x) \in Nat /\ Adj(x) < x.period_bytes
         /\ x.nowake => Adj(x) = 0
<1>1. x.rate \in Nat /\ x.period_bytes \in Nat \ {0} /\ x.nowake \in BOOLEAN /\ PosAdj \in Nat
  BY StreamAssumption DEF SetupType
<1>2. PICK m, scaled : m = PosAdj * x.rate + 47999 /\ scaled = m \div 48000
  OBVIOUS
<1>3. PICK bytes : bytes = IF scaled = 0 THEN PosAdj ELSE RoundUp(scaled, PosAdj)
  OBVIOUS
<1>4. Adj(x) = IF x.nowake \/ PosAdj = 0 \/ bytes >= x.period_bytes THEN 0 ELSE bytes
  BY <1>2, <1>3 DEF Adjust, Adj
<1>5. CASE PosAdj = 0
  <2>1. Adj(x) = 0
    BY <1>4, <1>5
  <2>2. QED
    BY <1>1, <2>1
<1>6. CASE PosAdj # 0
  <2>1. PosAdj \in Nat \ {0}
    BY <1>1, <1>6
  <2>2. m \in Nat
    BY <1>1, <1>2
  <2>3. scaled \in Nat
    BY <1>2, <2>2
  <2>4. PICK k : k = scaled + PosAdj - 1
    OBVIOUS
  <2>5. k \in Nat
    BY <2>1, <2>3, <2>4
  <2>6. k \div PosAdj \in Nat
    BY <2>1, <2>5, Divided
  <2>7. RoundUp(scaled, PosAdj) = (k \div PosAdj) * PosAdj
    BY <2>4 DEF RoundUp
  <2>8. bytes \in Nat
    BY <1>1, <1>3, <2>6, <2>7
  <2>9. CASE x.nowake \/ bytes >= x.period_bytes
    <3>1. Adj(x) = 0
      BY <1>4, <2>9
    <3>2. QED
      BY <1>1, <3>1
  <2>10. CASE ~x.nowake /\ ~(bytes >= x.period_bytes)
    <3>1. Adj(x) = bytes
      BY <1>4, <1>6, <2>10
    <3>2. QED
      BY <1>1, <2>8, <2>10, <3>1
  <2>11. QED
    BY <2>9, <2>10
<1>7. QED
  BY <1>5, <1>6

\* A buffer of whole periods.
Whole(x) == x \in SetupType /\ x.bufsize % x.period_bytes = 0

Periods(x) == x.bufsize \div x.period_bytes
PieceCount(x) == Periods(x) + (IF Adj(x) > 0 THEN 1 ELSE 0)
\* Where the pieces end that the buffer is asked for in, and which of them interrupt.
PieceEnd(x, j) ==
  IF j = 0 THEN 0
  ELSE IF Adj(x) = 0 THEN j * x.period_bytes
  ELSE IF j = PieceCount(x) THEN x.bufsize
  ELSE Adj(x) + (j - 1) * x.period_bytes
PieceWakes(x, j) == ~x.nowake /\ (Adj(x) = 0 \/ j # PieceCount(x))

LEMMA WholeIs ==
  ASSUME NEW x, Whole(x)
  PROVE  /\ x.bufsize \in Nat \ {0} /\ x.period_bytes \in Nat \ {0} /\ x.breaks \subseteq Nat
         /\ x.nowake \in BOOLEAN /\ Periods(x) \in Nat \ {0}
         /\ x.bufsize = Periods(x) * x.period_bytes
<1>1. /\ x.bufsize \in Nat \ {0} /\ x.period_bytes \in Nat \ {0} /\ x.breaks \subseteq Nat
      /\ x.nowake \in BOOLEAN /\ x.bufsize % x.period_bytes = 0
  BY DEF Whole, SetupType
<1>2. /\ x.bufsize \div x.period_bytes \in Nat
      /\ x.bufsize = x.period_bytes * (x.bufsize \div x.period_bytes) + (x.bufsize % x.period_bytes)
  BY <1>1, Divided
<1>3. PICK n : n = Periods(x)
  OBVIOUS
<1>4. n \in Nat /\ x.bufsize = x.period_bytes * n
  BY <1>1, <1>2, <1>3 DEF Periods
<1>5. n # 0
  BY <1>1, <1>4
<1>6. x.bufsize = n * x.period_bytes
  BY <1>1, <1>4
<1>7. QED
  BY <1>1, <1>3, <1>4, <1>5, <1>6

\* The pieces follow each other to the end of the buffer.
LEMMA PieceEnds ==
  ASSUME NEW x, Whole(x)
  PROVE  /\ PieceCount(x) \in Nat \ {0} /\ PieceEnd(x, 0) = 0 /\ PieceEnd(x, PieceCount(x)) = x.bufsize
         /\ \A j \in 0..PieceCount(x) : PieceEnd(x, j) \in Nat
         /\ \A j \in 1..PieceCount(x) : PieceEnd(x, j - 1) < PieceEnd(x, j)
<1>1. PICK a, n, per : a = Adj(x) /\ n = Periods(x) /\ per = x.period_bytes
  OBVIOUS
<1>2. /\ a \in Nat /\ a < per /\ n \in Nat \ {0} /\ per \in Nat \ {0}
      /\ x.bufsize = n * per /\ x.bufsize \in Nat \ {0}
  BY <1>1, WholeIs, AdjustIs DEF Whole
<1>3. \A j \in Nat : j * per \in Nat /\ (j + 1) * per = j * per + per
  BY <1>2
<1>4. CASE a = 0
  <2>1. PieceCount(x) = n
    BY <1>1, <1>2, <1>4 DEF PieceCount
  <2>2. \A j \in Nat : PieceEnd(x, j) = j * per
    BY <1>1, <1>2, <1>4 DEF PieceEnd
  <2>3. ASSUME NEW j \in 1..n PROVE PieceEnd(x, j - 1) < PieceEnd(x, j)
    <3>1. PICK i \in Nat : i = j - 1 /\ j = i + 1
      BY <1>2
    <3>2. PieceEnd(x, i) = i * per /\ PieceEnd(x, i + 1) = i * per + per /\ i * per \in Nat
      BY <1>3, <2>2, <3>1
    <3>3. QED
      BY <1>2, <3>1, <3>2
  <2>4. QED
    BY <1>2, <1>3, <2>1, <2>2, <2>3
<1>5. CASE a # 0
  <2>1. PieceCount(x) = n + 1
    BY <1>1, <1>2, <1>5 DEF PieceCount
  <2>2. PieceEnd(x, 0) = 0 /\ PieceEnd(x, n + 1) = x.bufsize
        /\ \A j \in 1..n : PieceEnd(x, j) = a + (j - 1) * per
    BY <1>1, <1>2, <1>5, <2>1 DEF PieceEnd
  <2>3. \A j \in 1..n : j - 1 \in Nat /\ (j - 1) * per \in Nat /\ j * per = (j - 1) * per + per
    <3>1. ASSUME NEW j \in 1..n
          PROVE  j - 1 \in Nat /\ (j - 1) * per \in Nat /\ j * per = (j - 1) * per + per
      <4>1. PICK i \in Nat : i = j - 1 /\ j = i + 1
        BY <1>2
      <4>2. QED
        BY <1>3, <4>1
    <3>2. QED
      BY <3>1
  <2>4. ASSUME NEW j \in 1..(n + 1) PROVE PieceEnd(x, j - 1) < PieceEnd(x, j)
    <3>1. CASE j = 1
      <4>1. 1 \in 1..n /\ (1 - 1) * per = 0
        BY <1>2
      <4>2. PieceEnd(x, 1) = a + (1 - 1) * per
        BY <2>2, <4>1
      <4>3. PieceEnd(x, 1) = a
        BY <1>2, <4>1, <4>2
      <4>4. QED
        BY <1>2, <1>5, <2>2, <3>1, <4>3
    <3>2. CASE j = n + 1
      <4>1. PieceEnd(x, n) = a + (n - 1) * per /\ n * per = (n - 1) * per + per /\ (n - 1) * per \in Nat
        BY <1>2, <2>2, <2>3
      <4>2. j - 1 = n
        BY <1>2, <3>2
      <4>3. PieceEnd(x, n) < x.bufsize
        BY <1>2, <4>1
      <4>4. QED
        BY <2>2, <3>2, <4>2, <4>3
    <3>3. CASE j # 1 /\ j # n + 1
      <4>1. PICK i \in 1..n : i = j - 1 /\ j = i + 1 /\ j \in 1..n
        BY <1>2, <3>3
      <4>2. PieceEnd(x, i) = a + (i - 1) * per /\ PieceEnd(x, j) = a + (j - 1) * per
        BY <2>2, <4>1
      <4>3. (j - 1) * per = (i - 1) * per + per /\ (i - 1) * per \in Nat
        BY <2>3, <4>1
      <4>4. QED
        BY <1>2, <4>1, <4>2, <4>3
    <3>4. QED
      BY <3>1, <3>2, <3>3
  <2>5. ASSUME NEW j \in 0..(n + 1) PROVE PieceEnd(x, j) \in Nat
    <3>1. CASE j = 0 \/ j = n + 1
      BY <1>2, <2>2, <3>1
    <3>2. CASE j # 0 /\ j # n + 1
      <4>1. j \in 1..n
        BY <1>2, <3>2
      <4>2. QED
        BY <1>2, <2>2, <2>3, <4>1
    <3>3. QED
      BY <3>1, <3>2
  <2>6. QED
    BY <1>2, <2>1, <2>2, <2>4, <2>5
<1>6. QED
  BY <1>4, <1>5

PieceList(x) == Pieces(x, TRUE)

\* They are what setup_bdle is asked for.
LEMMA PiecesAre ==
  ASSUME NEW x, Whole(x), NEW p, p = PieceList(x)
  PROVE  /\ Len(p) = PieceCount(x)
         /\ \A j \in 1..PieceCount(x) :
              /\ p[j].ofs = PieceEnd(x, j - 1) /\ p[j].len = PieceEnd(x, j) - PieceEnd(x, j - 1)
              /\ p[j].ioc = PieceWakes(x, j)
<1>1. PICK a, n, per : a = Adj(x) /\ n = Periods(x) /\ per = x.period_bytes
  OBVIOUS
<1>2. /\ a \in Nat /\ a < per /\ n \in Nat \ {0} /\ per \in Nat \ {0}
      /\ x.bufsize = n * per /\ x.bufsize \in Nat \ {0} /\ x.nowake \in BOOLEAN /\ (x.nowake => a = 0)
  BY <1>1, WholeIs, AdjustIs DEF Whole
<1>3. PICK front : front = IF a > 0 THEN <<[ofs |-> 0, len |-> a, ioc |-> TRUE]>> ELSE <<>>
  OBVIOUS
<1>4. PICK rest : rest = [i \in 1..n |-> [ofs |-> a + (i - 1) * per, len |-> per - (IF i = n THEN a ELSE 0),
                                          ioc |-> ~x.nowake /\ ~(i = n /\ a > 0)]]
  OBVIOUS
<1>10. p = front \o rest
  BY <1>1, <1>3, <1>4 DEF PieceList, Pieces, Periods, Adj
<1>11. PICK S : rest \in [1..n -> S] /\ [ofs |-> 0, len |-> a, ioc |-> TRUE] \in S
  <2>1. PICK T : T = {rest[i] : i \in 1..n} \cup {[ofs |-> 0, len |-> a, ioc |-> TRUE]}
    OBVIOUS
  <2>2. rest \in [1..n -> T]
    BY <1>4, <2>1
  <2>3. QED
    BY <2>1, <2>2
<1>12. Len(rest) = n /\ rest \in Seq(S)
  BY <1>2, <1>11, SeqDef, LenProperties
<1>5. \A i \in 1..n : /\ rest[i].ofs = a + (i - 1) * per /\ rest[i].len = per - (IF i = n THEN a ELSE 0)
                      /\ rest[i].ioc = (~x.nowake /\ ~(i = n /\ a > 0))
  BY <1>4
<1>6. \A j \in 1..n : j - 1 \in Nat /\ (j - 1) * per \in Nat /\ j * per = (j - 1) * per + per
  <2>1. ASSUME NEW j \in 1..n
        PROVE  j - 1 \in Nat /\ (j - 1) * per \in Nat /\ j * per = (j - 1) * per + per
    <3>1. PICK i \in Nat : i = j - 1 /\ j = i + 1
      BY <1>2
    <3>2. i * per \in Nat /\ (i + 1) * per = i * per + per
      BY <1>2
    <3>3. QED
      BY <3>1, <3>2
  <2>2. QED
    BY <2>1
<1>7. CASE a = 0
  <2>1. front = <<>> /\ p = rest
    <3>1. front = <<>>
      BY <1>2, <1>3, <1>7
    <3>2. QED
      BY <1>10, <1>12, <3>1
  <2>2. PieceCount(x) = n
    BY <1>1, <1>2, <1>7 DEF PieceCount
  <2>3. \A j \in Nat : PieceEnd(x, j) = j * per
    BY <1>1, <1>2, <1>7 DEF PieceEnd
  <2>4. ASSUME NEW j \in 1..n
        PROVE  /\ p[j].ofs = PieceEnd(x, j - 1) /\ p[j].len = PieceEnd(x, j) - PieceEnd(x, j - 1)
               /\ p[j].ioc = PieceWakes(x, j)
    <3>1. p[j].ofs = 0 + (j - 1) * per /\ p[j].len = per - 0 /\ p[j].ioc = ~x.nowake
      BY <1>2, <1>5, <1>7, <2>1
    <3>2. PieceEnd(x, j - 1) = (j - 1) * per /\ PieceEnd(x, j) = (j - 1) * per + per /\ (j - 1) * per \in Nat
      BY <1>6, <2>3
    <3>3. PieceWakes(x, j) = ~x.nowake
      BY <1>1, <1>2, <1>7 DEF PieceWakes
    <3>4. QED
      BY <1>2, <3>1, <3>2, <3>3
  <2>5. QED
    BY <1>12, <2>1, <2>2, <2>4
<1>8. CASE a # 0
  <2>1. PICK e : e = [ofs |-> 0, len |-> a, ioc |-> TRUE]
    OBVIOUS
  <2>2. p = <<e>> \o rest /\ ~x.nowake
    <3>1. front = <<e>>
      <4>1. a > 0
        BY <1>2, <1>8
      <4>2. QED
        BY <1>3, <2>1, <4>1, Zenon
    <3>2. QED
      BY <1>2, <1>8, <1>10, <3>1
  <2>3. Len(p) = n + 1 /\ p[1] = e /\ \A i \in 1..n : p[i + 1] = rest[i]
    <3>3. PICK f : f = <<e>>
      OBVIOUS
    <3>4. f \in Seq(S) /\ Len(f) = 1 /\ f[1] = e /\ p = f \o rest
      BY <1>11, <2>1, <2>2, <3>3
    <3>5. Len(p) = 1 + n /\ p[1] = f[1] /\ \A i \in 1..n : p[1 + i] = rest[i]
      <4>1. f \in Seq(S) /\ rest \in Seq(S) /\ Len(rest) = n /\ Len(f) = 1 /\ p = f \o rest
        BY <1>12, <3>4
      <4>2. Len(p) = Len(f) + Len(rest)
            /\ \A i \in 1..(Len(f) + Len(rest)) :
                 p[i] = IF i <= Len(f) THEN f[i] ELSE rest[i - Len(f)]
        <5>1. /\ Len(f \o rest) = Len(f) + Len(rest)
              /\ \A i \in 1..(Len(f) + Len(rest)) :
                   (f \o rest)[i] = IF i <= Len(f) THEN f[i] ELSE rest[i - Len(f)]
          BY <4>1, ConcatProperties, Zenon
        <5>2. QED
          BY <4>1, <5>1, Zenon
      <4>3. \A i \in 1..n : 1 + i \in 1..(1 + n) /\ ~(1 + i <= 1) /\ (1 + i) - 1 = i
        BY <1>2
      <4>4. QED
        BY <1>2, <4>1, <4>2, <4>3
    <3>6. \A i \in 1..n : 1 + i = i + 1
      OBVIOUS
    <3>7. QED
      BY <1>2, <3>4, <3>5, <3>6
  <2>4. PieceCount(x) = n + 1
    BY <1>1, <1>2, <1>8 DEF PieceCount
  <2>5. PieceEnd(x, 0) = 0 /\ PieceEnd(x, n + 1) = n * per
        /\ \A j \in 1..n : PieceEnd(x, j) = a + (j - 1) * per
    BY <1>1, <1>2, <1>8, <2>4 DEF PieceEnd
  <2>6. \A j \in 1..(n + 1) : PieceWakes(x, j) = (j # n + 1)
    BY <1>1, <1>2, <1>8, <2>2, <2>4 DEF PieceWakes
  <2>7. ASSUME NEW j \in 1..(n + 1)
        PROVE  /\ p[j].ofs = PieceEnd(x, j - 1) /\ p[j].len = PieceEnd(x, j) - PieceEnd(x, j - 1)
               /\ p[j].ioc = PieceWakes(x, j)
    <3>1. CASE j = 1
      <4>1. p[1].ofs = 0 /\ p[1].len = a /\ p[1].ioc = TRUE
        BY <2>1, <2>3
      <4>2. 1 \in 1..n /\ (1 - 1) * per = 0 /\ 1 # n + 1
        BY <1>2
      <4>3. PieceEnd(x, 1) = a + (1 - 1) * per
        BY <2>5, <4>2
      <4>4. PieceEnd(x, 1) = a
        BY <1>2, <4>2, <4>3
      <4>5. p[1].ioc = PieceWakes(x, 1)
        <5>1. 1 \in 1..(n + 1)
          BY <1>2
        <5>2. PieceWakes(x, 1) = (1 # n + 1)
          BY <2>6, <5>1
        <5>3. QED
          BY <4>1, <4>2, <5>2
      <4>6. p[1].len = PieceEnd(x, 1) - PieceEnd(x, 1 - 1) /\ p[1].ofs = PieceEnd(x, 1 - 1)
        BY <1>2, <2>5, <4>1, <4>4
      <4>7. QED
        BY <3>1, <4>1, <4>5, <4>6
    <3>2. CASE j # 1
      <4>1. PICK i \in 1..n : i = j - 1 /\ j = i + 1
        BY <1>2, <3>2
      <4>2. p[j].ofs = a + (i - 1) * per /\ p[j].len = per - (IF i = n THEN a ELSE 0) /\ p[j].ioc = (i # n)
        <5>1. p[j] = rest[i]
          BY <2>3, <4>1
        <5>2. rest[i].ioc = (i # n)
          BY <1>2, <1>5, <1>8, <2>2
        <5>3. QED
          BY <1>5, <5>1, <5>2
      <4>3. PieceEnd(x, i) = a + (i - 1) * per /\ i * per = (i - 1) * per + per /\ (i - 1) * per \in Nat
        BY <1>6, <2>5
      <4>4. CASE i = n
        <5>1. PieceEnd(x, j) = i * per
          BY <2>5, <4>1, <4>4
        <5>2. per - a = i * per - (a + (i - 1) * per)
          BY <1>2, <4>3
        <5>3. QED
          BY <2>6, <4>1, <4>2, <4>3, <4>4, <5>1, <5>2
      <4>5. CASE i # n
        <5>1. i + 1 \in 1..n /\ (i + 1) - 1 = i
          BY <1>2, <4>5
        <5>2. PieceEnd(x, j) = a + i * per
          BY <2>5, <4>1, <5>1
        <5>3. per - 0 = (a + i * per) - (a + (i - 1) * per)
          BY <1>2, <4>3
        <5>4. j # n + 1
          BY <1>2, <4>1, <4>5
        <5>5. QED
          BY <2>6, <4>1, <4>2, <4>3, <4>5, <5>2, <5>3, <5>4
      <4>6. QED
        BY <4>4, <4>5
    <3>3. QED
      BY <3>1, <3>2
  <2>8. QED
    BY <2>3, <2>4, <2>7
<1>9. QED
  BY <1>7, <1>8

\* The body of the recursion in Entries: the lists of the pieces one after the other.
JoinBody(x, p, g, i) ==
  IF i = 0 THEN <<>> ELSE g[i - 1] \o SetupBdle(x.breaks, p[i].ofs, p[i].len, p[i].ioc)
IsJoin(g, x, p, m) == g = [i \in 0..m |-> JoinBody(x, p, g, i)]
JoinDefined(x, p, m) == \E g : IsJoin(g, x, p, m)

LEMMA JoinRecursion ==
  ASSUME NEW x, NEW p, NEW m \in Nat
  PROVE  JoinDefined(x, p, m)
<1> DEFINE Bad == {k \in Nat : ~JoinDefined(x, p, k)}
<1>1. SUFFICES ASSUME Bad # {} PROVE FALSE
  OBVIOUS
<1>2. PICK k \in Bad : \A b \in Bad : k <= b
  BY <1>1, LeastStream
<1>3. k \in Nat /\ ~JoinDefined(x, p, k)
  BY <1>2
<1>4. CASE k = 0
  <2>1. PICK g : g = [i \in 0..0 |-> <<>>]
    OBVIOUS
  <2>2. g = [i \in 0..0 |-> JoinBody(x, p, g, i)]
    BY <2>1 DEF JoinBody
  <2>3. QED
    BY <1>3, <1>4, <2>2, Zenon DEF JoinDefined, IsJoin
<1>5. CASE k # 0
  <2>1. PICK n : n = k - 1
    OBVIOUS
  <2>2. n \in Nat /\ ~(k <= n) /\ 0..n \subseteq 0..k /\ \A i \in 0..k : i # 0 => i - 1 \in 0..n /\ i - 1 \in 0..k
    BY <1>3, <1>5, <2>1
  <2>3. n \notin Bad
    BY <1>2, <2>2, Zenon
  <2>4. PICK h : IsJoin(h, x, p, n)
    BY <2>2, <2>3, Zenon DEF JoinDefined
  <2>5. PICK g : g = [i \in 0..k |-> JoinBody(x, p, h, i)]
    OBVIOUS
  <2>6. ASSUME NEW i \in 0..k
        PROVE  JoinBody(x, p, g, i) = JoinBody(x, p, h, i)
    <3>1. CASE i = 0
      BY <3>1 DEF JoinBody
    <3>2. CASE i # 0
      <4>1. PICK j : j = i - 1
        OBVIOUS
      <4>2. j \in 0..n /\ j \in 0..k
        BY <2>2, <3>2, <4>1
      <4>3. h[j] = JoinBody(x, p, h, j)
        BY <2>4, <4>2, Zenon DEF IsJoin
      <4>4. g[j] = JoinBody(x, p, h, j)
        BY <2>5, <4>2, Zenon
      <4>5. g[i - 1] = h[i - 1]
        BY <4>1, <4>3, <4>4
      <4>6. QED
        BY <4>5, Zenon DEF JoinBody
    <3>3. QED
      BY <3>1, <3>2
  <2>7. g = [i \in 0..k |-> JoinBody(x, p, g, i)]
    BY <2>5, <2>6
  <2>8. QED
    BY <1>3, <2>7, Zenon DEF JoinDefined, IsJoin
<1>6. QED
  BY <1>4, <1>5

EntryList(x) == Entries(x, TRUE)

LEMMA EntriesJoin ==
  ASSUME NEW x, Whole(x)
  PROVE  \E g : IsJoin(g, x, PieceList(x), PieceCount(x)) /\ EntryList(x) = g[PieceCount(x)]
<1>1. PieceCount(x) \in Nat /\ Len(PieceList(x)) = PieceCount(x)
  BY PieceEnds, PiecesAre
<1> DEFINE g == CHOOSE g : g = [i \in 0..Len(PieceList(x)) |-> JoinBody(x, PieceList(x), g, i)]
<1>2. EntryList(x) = g[Len(PieceList(x))]
  BY DEF EntryList, Entries, JoinBody, PieceList
<1>3. JoinDefined(x, PieceList(x), Len(PieceList(x)))
  BY <1>1, JoinRecursion
<1>4. IsJoin(g, x, PieceList(x), Len(PieceList(x)))
  BY <1>3, Zenon DEF JoinDefined, IsJoin
<1> HIDE DEF g
<1>5. QED
  BY <1>1, <1>2, <1>4

\* The list of the first i pieces.
JoinRight(list, x, i) ==
  /\ Tiles(list, 0, PieceEnd(x, i))
  /\ \A j \in 1..i : PieceEnd(x, j) <= PieceEnd(x, i)
  /\ Ends(list) = {q \in Nat : 0 < q /\ q <= PieceEnd(x, i)
                               /\ (Hard(x.breaks, q) \/ \E j \in 1..i : q = PieceEnd(x, j))}
  /\ IocEnds(list) = {PieceEnd(x, j) : j \in {j \in 1..i : PieceWakes(x, j)}}

\* One more piece.
LEMMA JoinStep ==
  ASSUME NEW x, Whole(x), NEW i \in 1..PieceCount(x), NEW f, JoinRight(f, x, i - 1), NEW h,
         BdleRight(h, x.breaks, PieceEnd(x, i - 1), PieceEnd(x, i), PieceWakes(x, i))
  PROVE  JoinRight(f \o h, x, i)
<1>1. /\ PieceCount(x) \in Nat /\ i \in Nat /\ i - 1 \in Nat
      /\ PieceEnd(x, i - 1) \in Nat /\ PieceEnd(x, i) \in Nat /\ PieceEnd(x, i - 1) < PieceEnd(x, i)
  <2>1. PieceCount(x) \in Nat \ {0}
    BY PieceEnds
  <2>2. i \in 0..PieceCount(x) /\ i - 1 \in 0..PieceCount(x) /\ i - 1 \in Nat /\ i \in Nat
    BY <2>1
  <2>3. QED
    BY <2>1, <2>2, PieceEnds
<1>2. PICK a, b : a = PieceEnd(x, i - 1) /\ b = PieceEnd(x, i)
  OBVIOUS
<1>3. a \in Nat /\ b \in Nat /\ a < b
  BY <1>1, <1>2
<1>4. Tiles(f, 0, a) /\ Tiles(h, a, b)
  BY <1>2 DEF JoinRight, BdleRight
<1>5. Tiles(f \o h, 0, b) /\ Ends(f \o h) = Ends(f) \cup Ends(h) /\ IocEnds(f \o h) = IocEnds(f) \cup IocEnds(h)
  BY <1>3, <1>4, TilesJoin
<1>6. \A j \in 1..i : j # i => j \in 1..(i - 1)
  BY <1>1
<1>7. \A j \in 1..(i - 1) : j \in 1..i /\ PieceEnd(x, j) <= a /\ PieceEnd(x, j) \in Nat
  <2>1. ASSUME NEW j \in 1..(i - 1) PROVE j \in 1..i /\ PieceEnd(x, j) <= a /\ PieceEnd(x, j) \in Nat
    <3>1. j \in 1..i /\ j \in 0..PieceCount(x)
      BY <1>1
    <3>2. PieceEnd(x, j) <= a
      BY <1>2 DEF JoinRight
    <3>3. QED
      BY <3>1, <3>2, PieceEnds
  <2>2. QED
    BY <2>1
<1>8. \A j \in 1..i : PieceEnd(x, j) <= b
  <2>1. ASSUME NEW j \in 1..i PROVE PieceEnd(x, j) <= b
    <3>1. CASE j = i
      BY <1>2, <1>3, <3>1
    <3>2. CASE j # i
      <4>1. PieceEnd(x, j) <= a /\ PieceEnd(x, j) \in Nat
        BY <1>6, <1>7, <3>2
      <4>2. QED
        BY <1>3, <4>1
    <3>3. QED
      BY <3>1, <3>2
  <2>2. QED
    BY <2>1
<1>9. Ends(f \o h) = {q \in Nat : 0 < q /\ q <= b /\ (Hard(x.breaks, q) \/ \E j \in 1..i : q = PieceEnd(x, j))}
  <2>1. /\ Ends(f) = {q \in Nat : 0 < q /\ q <= a
                                  /\ (Hard(x.breaks, q) \/ \E j \in 1..(i - 1) : q = PieceEnd(x, j))}
        /\ Ends(h) = {q \in Nat : a < q /\ q <= b /\ (q = b \/ Hard(x.breaks, q))}
    BY <1>2 DEF JoinRight, BdleRight
  <2>2. ASSUME NEW q \in Ends(f)
        PROVE  q \in Nat /\ 0 < q /\ q <= b /\ (Hard(x.breaks, q) \/ \E j \in 1..i : q = PieceEnd(x, j))
    <3>1. q \in Nat /\ 0 < q /\ q <= a /\ (Hard(x.breaks, q) \/ \E j \in 1..(i - 1) : q = PieceEnd(x, j))
      BY <2>1
    <3>2. q <= b
      BY <1>3, <3>1
    <3>3. QED
      BY <1>7, <3>1, <3>2
  <2>3. ASSUME NEW q \in Ends(h)
        PROVE  q \in Nat /\ 0 < q /\ q <= b /\ (Hard(x.breaks, q) \/ \E j \in 1..i : q = PieceEnd(x, j))
    <3>1. q \in Nat /\ a < q /\ q <= b /\ (q = b \/ Hard(x.breaks, q))
      BY <2>1
    <3>2. i \in 1..i
      BY <1>1
    <3>3. QED
      BY <1>2, <1>3, <3>1, <3>2
  <2>4. ASSUME NEW q \in Nat, 0 < q, q <= b, Hard(x.breaks, q) \/ \E j \in 1..i : q = PieceEnd(x, j)
        PROVE  q \in Ends(f) \cup Ends(h)
    <3>1. CASE q <= a
      <4>1. ASSUME NEW j \in 1..i, q = PieceEnd(x, j) PROVE j \in 1..(i - 1)
        <5>1. j # i
          BY <1>2, <1>3, <3>1, <4>1
        <5>2. QED
          BY <1>6, <5>1
      <4>2. Hard(x.breaks, q) \/ \E j \in 1..(i - 1) : q = PieceEnd(x, j)
        BY <2>4, <4>1
      <4>3. QED
        BY <2>1, <2>4, <3>1, <4>2
    <3>2. CASE a < q
      <4>1. ASSUME NEW j \in 1..i, q = PieceEnd(x, j) PROVE q = b
        <5>1. j \in 1..(i - 1) => q <= a
          BY <1>7, <4>1
        <5>2. ~(q <= a)
          BY <1>3, <3>2
        <5>3. j = i
          BY <1>6, <5>1, <5>2
        <5>4. QED
          BY <1>2, <4>1, <5>3
      <4>2. q = b \/ Hard(x.breaks, q)
        BY <2>4, <4>1
      <4>3. QED
        BY <2>1, <2>4, <3>2, <4>2
    <3>3. QED
      BY <1>3, <3>1, <3>2
  <2>5. QED
    BY <1>5, <2>2, <2>3, <2>4
<1>10. IocEnds(f \o h) = {PieceEnd(x, j) : j \in {j \in 1..i : PieceWakes(x, j)}}
  <2>1. /\ IocEnds(f) = {PieceEnd(x, j) : j \in {j \in 1..(i - 1) : PieceWakes(x, j)}}
        /\ IocEnds(h) = Only(PieceWakes(x, i) /\ a # b, b)
    BY <1>2 DEF JoinRight, BdleRight
  <2>2. IocEnds(h) = IF PieceWakes(x, i) THEN {b} ELSE {}
    BY <1>3, <2>1 DEF Only
  <2>3. i \in 1..i
    BY <1>1
  <2>4. QED
    BY <1>2, <1>5, <1>6, <1>7, <2>1, <2>2, <2>3
<1>11. QED
  BY <1>2, <1>5, <1>8, <1>9, <1>10 DEF JoinRight

LEMMA JoinedUpTo ==
  ASSUME NEW x, Whole(x), NEW g, IsJoin(g, x, PieceList(x), PieceCount(x)), NEW m \in 0..PieceCount(x)
  PROVE  JoinRight(g[m], x, m)
<1>1. PieceCount(x) \in Nat
  BY PieceEnds
<1> DEFINE Bad == {i \in Nat : i <= PieceCount(x) /\ ~JoinRight(g[i], x, i)}
<1>2. SUFFICES ASSUME Bad # {} PROVE FALSE
  BY <1>1
<1>3. PICK i \in Bad : \A b \in Bad : i <= b
  BY <1>2, LeastStream
<1>4. i \in Nat /\ i \in 0..PieceCount(x) /\ ~JoinRight(g[i], x, i)
  BY <1>1, <1>3
<1>5. g[i] = JoinBody(x, PieceList(x), g, i)
  BY <1>4, Zenon DEF IsJoin
<1>6. CASE i = 0
  <2>1. g[i] = <<>>
    BY <1>5, <1>6 DEF JoinBody
  <2>2. PieceEnd(x, 0) = 0
    BY PieceEnds
  <2>3. Tiles(<<>>, 0, 0) /\ Ends(<<>>) = {} /\ IocEnds(<<>>) = {}
    BY DEF Tiles, Ends, IocEnds
  <2>4. QED
    BY <1>4, <1>6, <2>1, <2>2, <2>3 DEF JoinRight
<1>7. CASE i # 0
  <2>1. PICK k : k = i - 1
    OBVIOUS
  <2>2. k \in Nat /\ ~(i <= k) /\ k <= PieceCount(x) /\ i \in 1..PieceCount(x)
    BY <1>1, <1>4, <1>7, <2>1
  <2>3. k \notin Bad
    BY <1>3, <2>2, Zenon
  <2>4. JoinRight(g[k], x, k)
    BY <2>2, <2>3
  <2>5. PICK e : e = PieceList(x)[i]
    OBVIOUS
  <2>6. g[i] = g[k] \o SetupBdle(x.breaks, e.ofs, e.len, e.ioc)
    BY <1>5, <1>7, <2>1, <2>5, Zenon DEF JoinBody
  <2>7. /\ e.ofs = PieceEnd(x, k) /\ e.len = PieceEnd(x, i) - PieceEnd(x, k) /\ e.ioc = PieceWakes(x, i)
    BY <2>1, <2>2, <2>5, PiecesAre
  <2>8. PieceEnd(x, k) \in Nat /\ PieceEnd(x, i) \in Nat /\ PieceEnd(x, k) < PieceEnd(x, i)
    <3>1. k \in 0..PieceCount(x) /\ i \in 0..PieceCount(x)
      BY <1>1, <1>4, <2>2
    <3>2. QED
      BY <2>1, <2>2, <3>1, PieceEnds
  <2>9. PICK ofs, len, ioc : ofs = e.ofs /\ len = e.len /\ ioc = e.ioc
    OBVIOUS
  <2>10. ofs \in Nat /\ len \in Nat /\ ioc \in BOOLEAN /\ ofs + len = PieceEnd(x, i) /\ x.breaks \subseteq Nat
    <3>1. e.ioc \in BOOLEAN
      BY <2>7 DEF PieceWakes
    <3>2. QED
      BY <2>7, <2>8, <2>9, <3>1, WholeIs
  <2>11. BdleRight(SetupBdle(x.breaks, ofs, len, ioc), x.breaks, ofs, ofs + len, ioc)
    BY <2>10, SetupBdleIs
  <2>12. PICK h : h = SetupBdle(x.breaks, ofs, len, ioc)
    OBVIOUS
  <2>13. BdleRight(h, x.breaks, PieceEnd(x, i - 1), PieceEnd(x, i), PieceWakes(x, i))
    BY <2>1, <2>7, <2>9, <2>10, <2>11, <2>12
  <2>14. JoinRight(g[k], x, i - 1)
    BY <2>1, <2>4
  <2>15. JoinRight(g[k] \o h, x, i)
    BY <2>2, <2>13, <2>14, JoinStep
  <2>16. g[k] \o h = g[i]
    BY <2>6, <2>9, <2>12
  <2>17. QED
    BY <1>4, <2>15, <2>16
<1>8. QED
  BY <1>6, <1>7

\* What grows from each index to the next grows from each to every later one.
LEMMA Growing ==
  ASSUME NEW n \in Nat, NEW e, \A i \in 1..n : e[i] \in Nat, \A i \in 1..n : i # 1 => e[i - 1] < e[i],
         NEW i \in 1..n, NEW j \in 1..n, i < j
  PROVE  e[i] < e[j]
<1> DEFINE Bad == {k \in Nat : k <= n /\ i < k /\ ~(e[i] < e[k])}
<1>1. SUFFICES ASSUME Bad # {} PROVE FALSE
  OBVIOUS
<1>2. PICK k \in Bad : \A b \in Bad : k <= b
  BY <1>1, LeastStream
<1>3. k \in 1..n /\ i < k /\ ~(e[i] < e[k]) /\ k # 1
  BY <1>2
<1>4. PICK p : p = k - 1
  OBVIOUS
<1>5. p \in 1..n /\ p \in Nat /\ p <= n /\ ~(k <= p) /\ e[p] < e[k]
  BY <1>3, <1>4
<1>6. p \notin Bad
  BY <1>2, <1>5, Zenon
<1>7. CASE i = p
  BY <1>3, <1>5, <1>7
<1>8. CASE i # p
  <2>1. i < p
    BY <1>3, <1>4, <1>8
  <2>2. e[i] < e[p]
    BY <1>5, <1>6, <2>1
  <2>3. e[i] \in Nat /\ e[p] \in Nat /\ e[k] \in Nat
    BY <1>3, <1>5
  <2>4. QED
    BY <1>3, <1>5, <2>2, <2>3
<1>9. QED
  BY <1>7, <1>8

\* A list without gaps has an end for each of its entries.
LEMMA EndsCount ==
  ASSUME NEW a \in Nat, NEW b \in Nat, NEW list, Tiles(list, a, b)
  PROVE  IsFiniteSet(Ends(list)) /\ Cardinality(Ends(list)) = Len(list) /\ Len(list) \in Nat
<1>1. PICK n : n = Len(list)
  OBVIOUS
<1>2. n \in Nat /\ list \in Seq(BdlEntry) /\ \A i \in 1..n : list[i] \in BdlEntry
  BY <1>1 DEF Tiles
<1>3. PICK e : e = [i \in 1..n |-> list[i].ofs + list[i].len]
  OBVIOUS
<1>4. \A i \in 1..n : e[i] = list[i].ofs + list[i].len /\ e[i] \in Nat /\ list[i].ofs \in Nat /\ list[i].len \in Nat
  BY <1>2, <1>3 DEF BdlEntry
<1>5. ASSUME NEW i \in 1..n, i # 1 PROVE e[i - 1] < e[i]
  <2>1. PICK k : k = i - 1
    OBVIOUS
  <2>2. k \in 1..n
    BY <1>2, <1>5, <2>1
  <2>3. list[i].len > 0 /\ list[i].ofs = list[k].ofs + list[k].len
    BY <1>1, <1>5, <2>1 DEF Tiles
  <2>4. e[k] = list[i].ofs /\ e[i] = list[i].ofs + list[i].len
    BY <1>4, <1>5, <2>2, <2>3
  <2>5. QED
    BY <1>4, <1>5, <2>1, <2>3, <2>4
<1>6. \A i, j \in 1..n : i < j => e[i] < e[j]
  BY <1>2, <1>4, <1>5, Growing
<1>7. \A i, j \in 1..n : e[i] = e[j] => i = j
  <2>1. ASSUME NEW i \in 1..n, NEW j \in 1..n, e[i] = e[j], i # j PROVE FALSE
    <3>1. e[i] \in Nat /\ e[j] \in Nat
      BY <1>4
    <3>2. i < j \/ j < i
      BY <1>2, <2>1
    <3>3. ~(e[i] < e[j]) /\ ~(e[j] < e[i])
      BY <2>1, <3>1
    <3>4. QED
      BY <1>6, <3>2, <3>3
  <2>2. QED
    BY <2>1
<1>8. Ends(list) = {e[i] : i \in 1..n}
  BY <1>1, <1>4 DEF Ends
<1>9. e \in Bijection(1..n, Ends(list))
  <2>1. e \in [1..n -> Ends(list)]
    BY <1>3, <1>8
  <2>2. e \in Injection(1..n, Ends(list))
    BY <1>7, <2>1 DEF Injection, IsInjective
  <2>3. e \in Surjection(1..n, Ends(list))
    BY <1>8, <2>1 DEF Surjection
  <2>4. QED
    BY <2>2, <2>3 DEF Bijection
<1>10. IsFiniteSet(1..n) /\ Cardinality(1..n) = n
  <2>1. 1 \in Int /\ n \in Int /\ ((1 > n) => n = 0) /\ n - 1 + 1 = n
    BY <1>2
  <2>2. IsFiniteSet(1..n) /\ Cardinality(1..n) = IF 1 > n THEN 0 ELSE n - 1 + 1
    BY <2>1, FS_Interval
  <2>3. QED
    BY <2>1, <2>2
<1>11. ExistsBijection(1..n, Ends(list))
  BY <1>9 DEF ExistsBijection
<1>12. IsFiniteSet(Ends(list)) /\ Cardinality(Ends(list)) = Cardinality(1..n)
  BY <1>10, <1>11, FS_Bijection
<1>13. QED
  BY <1>1, <1>2, <1>10, <1>12

\* A multiple of the page size, in the two forms the model has for it.
LEMMA PageMultiple ==
  ASSUME NEW q \in Nat, NEW b \in Nat, q <= b
  PROVE  (q % Page = 0) <=> \E k \in 0..(b \div Page) : q = k * Page
<1>1. Page \in Nat \ {0}
  BY StreamAssumption
<1>2. ASSUME q % Page = 0 PROVE \E k \in 0..(b \div Page) : q = k * Page
  <2>1. PICK k, m, r : k = q \div Page /\ m = b \div Page /\ r = (b % Page)
    OBVIOUS
  <2>2. k \in Nat /\ q = Page * k + (q % Page)
    BY <1>1, <2>1, Divided
  <2>3. m \in Nat /\ r \in 0..(Page - 1) /\ b = Page * m + r
    BY <1>1, <2>1, Divided
  <2>4. q = k * Page
    BY <1>1, <1>2, <2>2
  <2>5. ~(k >= m + 1)
    <3>1. SUFFICES ASSUME k >= m + 1 PROVE FALSE
      OBVIOUS
    <3>2. PICK d \in Nat : k = m + 1 + d
      BY <2>2, <2>3, <3>1
    <3>3. d * Page \in Nat /\ m * Page \in Nat
      BY <1>1, <2>3, <3>2
    <3>4. k * Page = m * Page + Page + d * Page
      BY <1>1, <2>3, <3>2
    <3>5. b = m * Page + r
      BY <1>1, <2>3
    <3>6. QED
      BY <1>1, <2>3, <2>4, <3>3, <3>4, <3>5
  <2>6. k \in 0..m
    BY <2>2, <2>3, <2>5
  <2>7. QED
    BY <2>1, <2>4, <2>6
<1>3. ASSUME NEW k \in 0..(b \div Page), q = k * Page PROVE q % Page = 0
  <2>1. b \div Page \in Nat
    BY <1>1, Divided
  <2>2. k \in Nat /\ 0 \in 0..(Page - 1)
    BY <1>1, <2>1
  <2>3. (Page * k + 0) % Page = 0
    BY <1>1, <2>2, DividedOnce
  <2>4. q = Page * k + 0
    BY <1>1, <1>3, <2>2
  <2>5. QED
    BY <2>3, <2>4
<1>4. QED
  BY <1>2, <1>3

\* The pieces' ends, as the points CutPoints names.
LEMMA PiecePoints ==
  ASSUME NEW x, Whole(x), NEW q \in Nat, q <= x.bufsize, NEW a, a = Adj(x), NEW per, per = x.period_bytes,
         NEW n, n = Periods(x)
  PROVE  (q = 0 \/ \E j \in 1..PieceCount(x) : q = PieceEnd(x, j))
           <=> \/ q = 0 \/ q = x.bufsize
               \/ \E k \in 0..(n - 1) : q = a + k * per
               \/ a = 0 /\ \E k \in 0..n : q = k * per
               \/ a # 0 /\ \E k \in {0} : q = k * per
<1>2. /\ a \in Nat /\ a < per /\ n \in Nat \ {0} /\ per \in Nat \ {0}
      /\ x.bufsize = n * per /\ x.bufsize \in Nat \ {0} /\ 0 * per = 0
  BY WholeIs, AdjustIs DEF Whole
<1>3. CASE a = 0
  <2>1. PieceCount(x) = n
    BY <1>2, <1>3 DEF PieceCount
  <2>2. \A j \in Nat : PieceEnd(x, j) = j * per
    BY <1>2, <1>3 DEF PieceEnd
  <2>3. ASSUME NEW j \in 1..n PROVE j \in 0..n /\ j \in Nat /\ PieceEnd(x, j) = j * per
    BY <1>2, <2>2
  <2>4. ASSUME NEW k \in 0..n, k # 0 PROVE k \in 1..n /\ PieceEnd(x, k) = k * per
    BY <1>2, <2>2, <2>4
  <2>5. ASSUME NEW k \in 0..(n - 1) PROVE k \in 0..n /\ k * per \in Nat /\ a + k * per = k * per
    <3>1. k \in Nat /\ k \in 0..n
      BY <1>2
    <3>2. k * per \in Nat
      BY <1>2, <3>1
    <3>3. QED
      BY <1>3, <3>1, <3>2
  <2>6. n \in 0..n
    BY <1>2
  <2>7. ASSUME NEW k \in 0..n, q = k * per PROVE q = 0 \/ \E j \in 1..n : q = PieceEnd(x, j)
    <3>1. CASE k = 0
      BY <1>2, <2>7, <3>1
    <3>2. CASE k # 0
      BY <2>4, <2>7, <3>2
    <3>3. QED
      BY <3>1, <3>2
  <2>8. ASSUME NEW j \in 1..n, q = PieceEnd(x, j) PROVE \E k \in 0..n : q = k * per
    BY <2>3, <2>8
  <2>9. (q = x.bufsize \/ \E k \in 0..(n - 1) : q = a + k * per) => \E k \in 0..n : q = k * per
    <3>1. q = x.bufsize => q = n * per
      BY <1>2
    <3>2. QED
      BY <2>5, <2>6, <3>1
  <2>10. QED
    BY <1>3, <2>1, <2>7, <2>8, <2>9
<1>4. CASE a # 0
  <2>1. PieceCount(x) = n + 1
    BY <1>2, <1>4 DEF PieceCount
  <2>2. PieceEnd(x, n + 1) = n * per /\ \A j \in 1..n : PieceEnd(x, j) = a + (j - 1) * per
    BY <1>2, <1>4, <2>1 DEF PieceEnd
  <2>3. ASSUME NEW j \in 1..(n + 1), q = PieceEnd(x, j)
        PROVE  q = x.bufsize \/ \E k \in 0..(n - 1) : q = a + k * per
    <3>1. CASE j = n + 1
      BY <1>2, <2>2, <2>3, <3>1
    <3>2. CASE j # n + 1
      <4>1. j \in 1..n /\ j - 1 \in 0..(n - 1)
        BY <1>2, <3>2
      <4>2. q = a + (j - 1) * per
        BY <2>2, <2>3, <4>1
      <4>3. QED
        BY <4>1, <4>2
    <3>3. QED
      BY <3>1, <3>2
  <2>4. ASSUME NEW k \in 0..(n - 1), q = a + k * per
        PROVE  \E j \in 1..(n + 1) : q = PieceEnd(x, j)
    <3>1. PICK j : j = k + 1
      OBVIOUS
    <3>2. j \in 1..n /\ j \in 1..(n + 1) /\ j - 1 = k
      BY <1>2, <3>1
    <3>3. PieceEnd(x, j) = a + (j - 1) * per
      BY <2>2, <3>2
    <3>4. QED
      BY <2>4, <3>2, <3>3
  <2>5. q = x.bufsize => \E j \in 1..(n + 1) : q = PieceEnd(x, j)
    <3>1. n + 1 \in 1..(n + 1)
      BY <1>2
    <3>2. QED
      BY <1>2, <2>2, <3>1
  <2>6. (\E k \in {0} : q = k * per) => q = 0
    BY <1>2
  <2>7. QED
    BY <1>4, <2>1, <2>3, <2>4, <2>5, <2>6
<1>5. QED
  BY <1>3, <1>4

\* The points a list may be cut at, for adjustment a, n periods of per bytes and a
\* buffer of top bytes.
MayCut(a, n, per, top, breaks) ==
  {0, top}
    \cup {a + k * per : k \in 0..(n - 1)}
    \cup {k * per : k \in IF a = 0 THEN 0..n ELSE {0}}
    \cup breaks
    \cup (IF Align4K THEN {k * Page : k \in 0..(top \div Page)} ELSE {})

\* A correct list is cut at 0, at the pieces' ends and where a cut is needed.
LEMMA CutsAre ==
  ASSUME NEW x, Whole(x)
  PROVE  CutPoints(x) = {q \in Nat : q <= x.bufsize /\ (\/ q = 0 \/ Hard(x.breaks, q)
                                                        \/ \E j \in 1..PieceCount(x) : q = PieceEnd(x, j))}
<1>1. PICK a, n, per, top : a = Adj(x) /\ n = Periods(x) /\ per = x.period_bytes /\ top = x.bufsize
  OBVIOUS
<1>2. /\ a \in Nat /\ n \in Nat \ {0} /\ per \in Nat \ {0} /\ x.breaks \subseteq Nat /\ top \in Nat
  BY <1>1, WholeIs, AdjustIs DEF Whole
<1>3. PICK S1, S2, S3, S4 :
        /\ S1 = {a + k * per : k \in 0..(n - 1)}
        /\ S2 = {k * per : k \in IF a = 0 THEN 0..n ELSE {0}}
        /\ S3 = x.breaks
        /\ S4 = IF Align4K THEN {k * Page : k \in 0..(top \div Page)} ELSE {}
  OBVIOUS
<1>4. CutPoints(x) = {q \in {0, top} \cup S1 \cup S2 \cup S3 \cup S4 : q <= top}
  <2>1. CutPoints(x) = {q \in MayCut(Adj(x), Periods(x), x.period_bytes, x.bufsize, x.breaks) : q <= x.bufsize}
    BY Zenon DEF CutPoints, MayCut, Adj, Periods
  <2>2. MayCut(Adj(x), Periods(x), x.period_bytes, x.bufsize, x.breaks) = MayCut(a, n, per, top, x.breaks)
    BY <1>1, Zenon
  <2>3. MayCut(a, n, per, top, x.breaks) = {0, top} \cup S1 \cup S2 \cup S3 \cup S4
    BY <1>3, Zenon DEF MayCut
  <2>4. QED
    BY <1>1, <2>1, <2>2, <2>3
<1>5. ASSUME NEW k \in 0..n PROVE k * per \in Nat /\ a + k * per \in Nat
  <2>1. k \in Nat
    BY <1>2
  <2>2. k * per \in Nat
    BY <1>2, <2>1
  <2>3. QED
    BY <1>2, <2>2
<1>6. {0, top} \subseteq Nat /\ S1 \subseteq Nat /\ S2 \subseteq Nat /\ S3 \subseteq Nat /\ S4 \subseteq Nat
  <2>1. 0..(n - 1) \subseteq 0..n /\ 0 \in 0..n
    BY <1>2
  <2>2. S1 \subseteq Nat
    BY <1>3, <1>5, <2>1
  <2>3. S2 \subseteq Nat
    BY <1>3, <1>5, <2>1
  <2>4. S4 \subseteq Nat
    <3>1. Page \in Nat \ {0}
      BY StreamAssumption
    <3>2. top \div Page \in Nat
      BY <1>2, <3>1, Divided
    <3>3. \A k \in 0..(top \div Page) : k * Page \in Nat
      <4>1. ASSUME NEW k \in 0..(top \div Page) PROVE k * Page \in Nat
        <5>1. k \in Nat
          BY <3>2
        <5>2. QED
          BY <3>1, <5>1
      <4>2. QED
        BY <4>1
    <3>4. QED
      BY <1>3, <3>3
  <2>5. QED
    BY <1>2, <1>3, <2>2, <2>3, <2>4
<1>7. ASSUME NEW q \in Nat, q <= top
      PROVE  (q \in {0, top} \cup S1 \cup S2 \cup S3 \cup S4)
               <=> \/ q = 0 \/ Hard(x.breaks, q) \/ \E j \in 1..PieceCount(x) : q = PieceEnd(x, j)
  <2>1. (q \in S3 \cup S4) <=> Hard(x.breaks, q)
    <3>1. (q % Page = 0) <=> \E k \in 0..(top \div Page) : q = k * Page
      BY <1>2, <1>7, PageMultiple
    <3>2. CASE Align4K
      <4>1. q \in S4 <=> q % Page = 0
        BY <1>3, <3>1, <3>2, Zenon
      <4>2. QED
        BY <1>3, <3>2, <4>1, Zenon DEF Hard
    <3>3. CASE ~Align4K
      BY <1>3, <3>3 DEF Hard
    <3>4. QED
      BY <3>2, <3>3
  <2>2. (q = 0 \/ \E j \in 1..PieceCount(x) : q = PieceEnd(x, j))
          <=> \/ q = 0 \/ q = top
              \/ \E k \in 0..(n - 1) : q = a + k * per
              \/ a = 0 /\ \E k \in 0..n : q = k * per
              \/ a # 0 /\ \E k \in {0} : q = k * per
    <3>1. q <= x.bufsize
      BY <1>1, <1>7
    <3>2. QED
      BY <1>1, <3>1, PiecePoints
  <2>3. q \in S1 <=> \E k \in 0..(n - 1) : q = a + k * per
    BY <1>3, Zenon
  <2>4. q \in S2 <=> \/ a = 0 /\ \E k \in 0..n : q = k * per
                     \/ a # 0 /\ \E k \in {0} : q = k * per
    <3>1. CASE a = 0
      <4>1. S2 = {k * per : k \in 0..n}
        BY <1>3, <3>1
      <4>2. QED
        BY <3>1, <4>1, Zenon
    <3>2. CASE a # 0
      <4>1. S2 = {k * per : k \in {0}}
        BY <1>3, <3>2
      <4>2. QED
        BY <3>2, <4>1, Zenon
    <3>3. QED
      BY <3>1, <3>2
  <2>5. QED
    BY <2>1, <2>2, <2>3, <2>4, Zenon
<1>8. QED
  BY <1>1, <1>4, <1>6, <1>7

\* The period ends at which a list interrupts.
WakePoints(a, n, per) ==
  {a + k * per : k \in (IF a = 0 THEN 1 ELSE 0)..(n - (IF a = 0 THEN 0 ELSE 1))}

\* Where the pieces end that interrupt.
LEMMA WakesAre ==
  ASSUME NEW x, Whole(x)
  PROVE  {PieceEnd(x, j) : j \in {j \in 1..PieceCount(x) : PieceWakes(x, j)}}
           = IF x.nowake THEN {} ELSE WakePoints(Adj(x), Periods(x), x.period_bytes)
<1>1. PICK a, n, per, W : /\ a = Adj(x) /\ n = Periods(x) /\ per = x.period_bytes
                          /\ W = {PieceEnd(x, j) : j \in {j \in 1..PieceCount(x) : PieceWakes(x, j)}}
  OBVIOUS
<1>2. /\ a \in Nat /\ a < per /\ n \in Nat \ {0} /\ per \in Nat \ {0} /\ x.nowake \in BOOLEAN
  BY <1>1, WholeIs, AdjustIs DEF Whole
<1>3. CASE x.nowake
  <2>1. W = {}
    BY <1>1, <1>3 DEF PieceWakes
  <2>2. QED
    BY <1>1, <1>3, <2>1
<1>4. CASE ~x.nowake /\ a = 0
  <2>1. PieceCount(x) = n /\ \A j \in 1..n : PieceWakes(x, j)
    BY <1>1, <1>2, <1>4 DEF PieceCount, PieceWakes
  <2>2. \A j \in 1..n : PieceEnd(x, j) = a + j * per
    <3>1. ASSUME NEW j \in 1..n PROVE PieceEnd(x, j) = a + j * per
      <4>1. j \in Nat /\ j # 0
        BY <1>2
      <4>2. j * per \in Nat
        BY <1>2, <4>1
      <4>3. PieceEnd(x, j) = j * per
        BY <1>1, <1>4, <4>1 DEF PieceEnd
      <4>4. QED
        BY <1>4, <4>2, <4>3
    <3>2. QED
      BY <3>1
  <2>3. W = {a + j * per : j \in 1..n}
    BY <1>1, <2>1, <2>2
  <2>4. n - 0 = n
    BY <1>2
  <2>5. W = WakePoints(a, n, per)
    <3>1. WakePoints(a, n, per) = {a + k * per : k \in 1..n}
      BY <1>4, <2>4 DEF WakePoints
    <3>2. QED
      BY <2>3, <3>1, Zenon
  <2>6. QED
    BY <1>1, <1>4, <2>5, Zenon
<1>5. CASE ~x.nowake /\ a # 0
  <2>1. PieceCount(x) = n + 1 /\ \A j \in 1..(n + 1) : PieceWakes(x, j) <=> j # n + 1
    BY <1>1, <1>2, <1>5 DEF PieceCount, PieceWakes
  <2>2. \A j \in 1..n : PieceEnd(x, j) = a + (j - 1) * per
    BY <1>1, <1>2, <1>5, <2>1 DEF PieceEnd
  <2>3. {j \in 1..PieceCount(x) : PieceWakes(x, j)} = 1..n
    BY <1>2, <2>1
  <2>4. W = {a + (j - 1) * per : j \in 1..n}
    BY <1>1, <2>2, <2>3
  <2>5. \A j \in 1..n : j - 1 \in 0..(n - 1)
    BY <1>2
  <2>6. \A k \in 0..(n - 1) : k + 1 \in 1..n /\ (k + 1) - 1 = k
    BY <1>2
  <2>7. W = {a + k * per : k \in 0..(n - 1)}
    BY <2>4, <2>5, <2>6
  <2>8. W = WakePoints(a, n, per)
    <3>1. WakePoints(a, n, per) = {a + k * per : k \in 0..(n - 1)}
      BY <1>5 DEF WakePoints
    <3>2. QED
      BY <2>7, <3>1, Zenon
  <2>9. QED
    BY <1>1, <1>5, <2>8, Zenon
<1>6. QED
  BY <1>2, <1>3, <1>4, <1>5

\* The list of a set-up describes its buffer.
LEMMA DescribesRight ==
  ASSUME NEW x, Whole(x), NEW list, list = EntryList(x)
  PROVE  Describes(list, x)
<1>1. PICK g : IsJoin(g, x, PieceList(x), PieceCount(x)) /\ list = g[PieceCount(x)]
  BY EntriesJoin
<1>2. PICK m : m = PieceCount(x)
  OBVIOUS
<1>3. m \in Nat \ {0} /\ m \in 0..PieceCount(x) /\ PieceEnd(x, m) = x.bufsize /\ x.bufsize \in Nat
  BY <1>2, PieceEnds, WholeIs
<1>4. JoinRight(list, x, m)
  BY <1>1, <1>2, <1>3, JoinedUpTo
<1>5. PICK C : C = CutPoints(x)
  OBVIOUS
<1>6. C = Ends(list) \cup {0} /\ 0 \notin Ends(list)
  <2>1. Ends(list) = {q \in Nat : 0 < q /\ q <= x.bufsize
                                  /\ (Hard(x.breaks, q) \/ \E j \in 1..m : q = PieceEnd(x, j))}
    BY <1>3, <1>4 DEF JoinRight
  <2>2. C = {q \in Nat : q <= x.bufsize /\ (\/ q = 0 \/ Hard(x.breaks, q)
                                            \/ \E j \in 1..m : q = PieceEnd(x, j))}
    BY <1>2, <1>5, CutsAre
  <2>3. 0 \in C
    BY <1>3, <2>2
  <2>4. \A q \in Nat : 0 < q <=> q # 0
    OBVIOUS
  <2>5. QED
    BY <2>1, <2>2, <2>3, <2>4
<1>7. Tiles(list, 0, x.bufsize)
  BY <1>3, <1>4 DEF JoinRight
<1>8. IsFiniteSet(Ends(list)) /\ Cardinality(Ends(list)) = Len(list) /\ Len(list) \in Nat
  BY <1>3, <1>7, EndsCount
<1>9. Len(list) = Cardinality(C) - 1
  <2>1. Cardinality(Ends(list) \cup {0}) = Cardinality(Ends(list)) + 1
    BY <1>6, <1>8, FS_AddElement
  <2>2. QED
    BY <1>6, <1>8, <2>1
<1>10. ASSUME NEW i \in 1..Len(list)
       PROVE  /\ list[i].len > 0
              /\ list[i].ofs \in C /\ list[i].ofs + list[i].len \in C
              /\ list[i].ofs = (IF i = 1 THEN 0 ELSE list[i - 1].ofs + list[i - 1].len)
  <2>1. /\ list[i].len > 0
        /\ list[i].ofs = (IF i = 1 THEN 0 ELSE list[i - 1].ofs + list[i - 1].len)
    BY <1>7 DEF Tiles
  <2>2. list[i].ofs + list[i].len \in C
    BY <1>6 DEF Ends
  <2>3. list[i].ofs \in C
    <3>1. CASE i = 1
      BY <1>6, <2>1, <3>1
    <3>2. CASE i # 1
      <4>1. i - 1 \in 1..Len(list)
        BY <1>8, <3>2
      <4>2. list[i - 1].ofs + list[i - 1].len \in C
        BY <1>6, <4>1 DEF Ends
      <4>3. QED
        BY <2>1, <3>2, <4>2
    <3>3. QED
      BY <3>1, <3>2
  <2>4. QED
    BY <2>1, <2>2, <2>3
<1>11. IocEnds(list) = IF x.nowake THEN {} ELSE WakePoints(Adj(x), Periods(x), x.period_bytes)
  <2>1. IocEnds(list) = {PieceEnd(x, j) : j \in {j \in 1..PieceCount(x) : PieceWakes(x, j)}}
    BY <1>2, <1>4, Zenon DEF JoinRight
  <2>2. QED
    BY <2>1, WakesAre, Zenon
<1>12. QED
  BY <1>5, <1>9, <1>10, <1>11, Zenon DEF Describes, IocEnds, Adj, Periods, WakePoints

-----------------------------------------------------------------------------
(* HdaStream: the list a stream has is the one of its parameters.          *)

\* What the steps below need of a list, by name.
Crowded(x) == TooMany(x, TRUE)
WrittenList(x) == Written(x, TRUE)
LoadCrowded(n) == TooMany(LoadSetup(n), FALSE)

\* The loader has written its own list into the stream.
Overlaid(s) == loader.dev = s /\ loader.at \in {"ready", "loading"}

\* snd_hdac_stream_set_params has these parameters already.
StoredFor(s, x) == sd[s].params = ParamsOf(x) /\ sd[s].nowake = x.nowake

FullList(s, x) == bdl[s] = WrittenList(x) /\ sd[s].frags = Len(bdl[s])

Excused(x) == Crowded(x) \/ LooksLoaded(x)

SetupKept(u) ==
  pcm[u].setup \in Setups \cup {NoSetup} /\ (pcm[u].at = "closed" => pcm[u].setup = NoSetup)

\* A prepared stream has its program's parameters, and so has the controller.
Programmed(u) ==
  pcm[u].at \in {"prepared", "running", "stopping"} =>
    /\ pcm[u].setup # NoSetup /\ StoredFor(pcm[u].dev, pcm[u].setup)
    /\ hw[pcm[u].dev].cbl = pcm[u].setup.bufsize /\ hw[pcm[u].dev].lvi = sd[pcm[u].dev].frags - 1

\* A stream that has the parameters of its program has its list, whenever it was written.
ListWritten(u) ==
  pcm[u].setup # NoSetup /\ StoredFor(pcm[u].dev, pcm[u].setup) /\ ~Overlaid(pcm[u].dev) =>
    Excused(pcm[u].setup) \/ FullList(pcm[u].dev, pcm[u].setup)

\* Parameters the loader has stored: it has the stream, or its list did not fit.
Leftover(s) ==
  \E n \in LoadSizes : /\ sd[s].params = ParamsOf(LoadSetup(n)) /\ sd[s].nowake = TRUE
                       /\ LoadCrowded(n) \/ Overlaid(s)

\* Parameters are a program's that has the stream, or the loader's.
ParamsOwned(s) ==
  \/ sd[s].params = NoParams \/ Leftover(s)
  \/ \E u \in Substreams : pcm[u].dev = s /\ pcm[u].setup # NoSetup

BytesKnown == loader.at # "idle" => loader.bytes \in LoadSizes

ListInv ==
  /\ bdl = [s \in Sds |-> bdl[s]]
  /\ \A u \in Substreams : SetupKept(u) /\ Programmed(u) /\ ListWritten(u)
  /\ \A s \in Sds : ParamsOwned(s)
  /\ BytesKnown

\* The step leaves the stream's parameters, list and registers alone.
Same(s) ==
  /\ sd'[s].params = sd[s].params /\ sd'[s].nowake = sd[s].nowake /\ sd'[s].frags = sd[s].frags
  /\ bdl'[s] = bdl[s] /\ hw'[s].cbl = hw[s].cbl /\ hw'[s].lvi = hw[s].lvi
  /\ Overlaid(s)' <=> Overlaid(s)

\* What holds of a program and its stream still does when neither has changed.
LEMMA SameKeeps ==
  ASSUME ListInv, StreamInv, NEW u \in Substreams, pcm'[u].setup = pcm[u].setup,
         pcm'[u].dev = pcm[u].dev, pcm'[u].at = "closed" => pcm[u].at = "closed",
         pcm'[u].at \in {"prepared", "running", "stopping"} =>
           pcm[u].at \in {"prepared", "running", "stopping"},
         pcm[u].dev \in Sds => Same(pcm[u].dev)
  PROVE  SetupKept(u)' /\ Programmed(u)' /\ ListWritten(u)'
<1>1. SetupKept(u) /\ Programmed(u) /\ ListWritten(u)
  BY DEF ListInv
<1>2. SetupKept(u)'
  BY <1>1 DEF SetupKept
<1>3. CASE pcm[u].at = "closed"
  <2>1. pcm[u].setup = NoSetup
    BY <1>1, <1>3 DEF SetupKept
  <2>2. pcm'[u].at \notin {"prepared", "running", "stopping"}
    BY <1>3
  <2>3. QED
    BY <1>2, <2>1, <2>2 DEF Programmed, ListWritten
<1>4. CASE pcm[u].at # "closed"
  <2>1. Same(pcm[u].dev)
    BY <1>4 DEF StreamInv, Owners
  <2>2. PICK s, x : s = pcm[u].dev /\ x = pcm[u].setup
    OBVIOUS
  <2>3. /\ StoredFor(s, x)' <=> StoredFor(s, x)
        /\ FullList(s, x)' <=> FullList(s, x)
        /\ Overlaid(s)' <=> Overlaid(s)
        /\ hw'[s].cbl = hw[s].cbl /\ hw'[s].lvi = hw[s].lvi /\ sd'[s].frags = sd[s].frags
    BY <2>1, <2>2 DEF Same, StoredFor, FullList
  <2>4. Programmed(u)'
    BY <1>1, <2>2, <2>3 DEF Programmed, StoredFor
  <2>5. ListWritten(u)'
    BY <1>1, <2>2, <2>3 DEF ListWritten, StoredFor, FullList, Overlaid
  <2>6. QED
    BY <1>2, <2>4, <2>5
<1>5. QED
  BY <1>3, <1>4

\* A step that changes the programs U and the streams T, what it makes of them, and
\* nothing else.
LEMMA ListKeeps ==
  ASSUME StreamInv, ListInv, bdl' = [s \in Sds |-> bdl'[s]], BytesKnown',
         NEW U \in SUBSET Substreams, NEW T \in SUBSET Sds,
         \A r \in Sds \ T : Same(r),
         \A v \in Substreams \ U :
           /\ pcm[v].dev \notin T /\ pcm'[v].setup = pcm[v].setup /\ pcm'[v].dev = pcm[v].dev
           /\ pcm'[v].at = "closed" => pcm[v].at = "closed"
           /\ pcm'[v].at \in {"prepared", "running", "stopping"} =>
                pcm[v].at \in {"prepared", "running", "stopping"},
         \A u \in U : /\ SetupKept(u)' /\ Programmed(u)' /\ ListWritten(u)'
                      /\ pcm[u].setup # NoSetup =>
                           \/ pcm[u].dev \in T
                           \/ pcm'[u].setup # NoSetup /\ pcm'[u].dev = pcm[u].dev,
         \A s \in T : ParamsOwned(s)'
  PROVE  ListInv'
<1>1. ASSUME NEW v \in Substreams \ U
      PROVE  SetupKept(v)' /\ Programmed(v)' /\ ListWritten(v)'
  <2>1. pcm[v].dev \in Sds => Same(pcm[v].dev)
    BY <1>1
  <2>2. /\ pcm'[v].setup = pcm[v].setup /\ pcm'[v].dev = pcm[v].dev
        /\ pcm'[v].at = "closed" => pcm[v].at = "closed"
        /\ pcm'[v].at \in {"prepared", "running", "stopping"} =>
             pcm[v].at \in {"prepared", "running", "stopping"}
    BY <1>1
  <2>3. QED
    BY <2>1, <2>2, SameKeeps
<1>2. ASSUME NEW r \in Sds \ T PROVE ParamsOwned(r)'
  <2>1. Same(r) /\ ParamsOwned(r)
    BY <1>2 DEF ListInv
  <2>2. CASE sd[r].params = NoParams
    BY <2>1, <2>2 DEF Same, ParamsOwned
  <2>3. CASE Leftover(r)
    <3>1. PICK n \in LoadSizes : /\ sd[r].params = ParamsOf(LoadSetup(n)) /\ sd[r].nowake = TRUE
                                 /\ LoadCrowded(n) \/ Overlaid(r)
      BY <2>3 DEF Leftover
    <3>2. sd'[r].params = ParamsOf(LoadSetup(n)) /\ sd'[r].nowake = TRUE
      BY <2>1, <3>1 DEF Same
    <3>3. LoadCrowded(n) \/ Overlaid(r)'
      BY <2>1, <3>1 DEF Same
    <3>4. Leftover(r)'
      BY <3>2, <3>3 DEF Leftover
    <3>5. QED
      BY <3>4 DEF ParamsOwned
  <2>4. CASE \E u \in Substreams : pcm[u].dev = r /\ pcm[u].setup # NoSetup
    <3>1. PICK u \in Substreams : pcm[u].dev = r /\ pcm[u].setup # NoSetup
      BY <2>4
    <3>2. pcm'[u].dev = r /\ pcm'[u].setup # NoSetup
      BY <1>2, <3>1
    <3>3. QED
      BY <3>2 DEF ParamsOwned
  <2>5. QED
    BY <2>1, <2>2, <2>3, <2>4 DEF ParamsOwned
<1>3. QED
  BY <1>1, <1>2 DEF ListInv

\* A set-up is not the absence of one, and no parameters are none.
LEMMA SetupIs ==
  /\ NoSetup \notin Setups
  /\ \A x \in Setups : Whole(x) /\ ParamsOf(x) # NoParams
<1>1. ASSUME NEW x \in Setups PROVE Whole(x) /\ ParamsOf(x) # NoParams /\ x # NoSetup
  <2>1. x \in SetupType /\ x.bufsize % x.period_bytes = 0
    BY StreamAssumption
  <2>2. x.bufsize # 0
    BY <2>1 DEF SetupType
  <2>3. ParamsOf(x).bufsize = x.bufsize /\ NoParams.bufsize = 0 /\ NoSetup.bufsize = 0
    BY DEF ParamsOf, NoParams, NoSetup
  <2>4. QED
    BY <2>1, <2>2, <2>3 DEF Whole
<1>2. QED
  BY <1>1

\* A program's stream that is not locked is not the loader's.
LEMMA NotOverlaid ==
  ASSUME StreamInv, NEW s \in Sds, ~sd[s].locked
  PROVE  loader.dev # s /\ ~Overlaid(s)
<1>1. loader.dev # s
  BY Zenon DEF StreamInv, Lent
<1>2. QED
  BY <1>1 DEF Overlaid

LEMMA ListAssign ==
  ASSUME StreamInv, ListInv, NEW u \in Substreams, Assign(u)
  PROVE  ListInv'
<1>1. PICK s : s = Chosen(u)
  OBVIOUS
<1>2. PICK p : p = [at |-> "open", dev |-> s, setup |-> NoSetup]
  OBVIOUS
<1>3. p = [f \in PcmFields |-> p[f]] /\ p.at = "open" /\ p.dev = s /\ p.setup = NoSetup
  BY <1>2 DEF PcmFields
<1>4. pcm'[u] = p /\ \A v \in Substreams : v # u => pcm'[v] = pcm[v]
  <2>1. pcm' = [pcm EXCEPT ![u] = p]
    BY <1>1, <1>2 DEF Assign
  <2>2. QED
    BY <1>3, <2>1, PcmIs DEF StreamInv
<1>5. hw' = hw /\ bdl' = bdl /\ loader' = loader
  BY DEF Assign
<1>6. ASSUME NEW r \in Sds PROVE Same(r)
  <2>1. sd' = [sd EXCEPT ![s].opened = TRUE, ![s].running = FALSE, ![s].key = u, ![s].substream = u]
    BY <1>1, Zenon DEF Assign
  <2>2. sd'[r].params = sd[r].params /\ sd'[r].nowake = sd[r].nowake /\ sd'[r].frags = sd[r].frags
    <3>1. CASE r # s
      BY <2>1, <3>1 DEF StreamInv, Shapes
    <3>2. CASE r = s
      BY <2>1, <3>2 DEF StreamInv, Shapes, SdFields
    <3>3. QED
      BY <3>1, <3>2
  <2>3. Overlaid(r)' <=> Overlaid(r)
    BY <1>5 DEF Overlaid
  <2>4. QED
    BY <1>5, <2>2, <2>3 DEF Same
<1>7. pcm[u].setup = NoSetup
  BY DEF Assign, ListInv, SetupKept
<1>8. SetupKept(u)' /\ Programmed(u)' /\ ListWritten(u)'
  BY <1>3, <1>4 DEF SetupKept, Programmed, ListWritten
<1>9. PICK U, T : U = {u} /\ T = {}
  OBVIOUS
<1>10. bdl' = [r \in Sds |-> bdl'[r]] /\ BytesKnown'
  BY <1>5 DEF ListInv, BytesKnown
<1>11. U \in SUBSET Substreams /\ T \in SUBSET Sds
  BY <1>9
<1>12. /\ \A r \in Sds \ T : Same(r)
       /\ \A v \in Substreams \ U : pcm[v].dev \notin T /\ pcm'[v] = pcm[v]
       /\ \A v \in U : SetupKept(v)' /\ Programmed(v)' /\ ListWritten(v)' /\ pcm[v].setup = NoSetup
  BY <1>4, <1>6, <1>7, <1>8, <1>9
<1>13. \A r \in T : ParamsOwned(r)'
  BY <1>9
<1>14. QED
  BY <1>10, <1>11, <1>12, <1>13, ListKeeps

LEMMA ListRelease ==
  ASSUME StreamInv, ListInv, NEW u \in Substreams, Release(u)
  PROVE  ListInv'
<1>1. PICK s : s = pcm[u].dev
  OBVIOUS
<1>2. PICK p : p = [at |-> "closed", dev |-> 0, setup |-> NoSetup]
  OBVIOUS
<1>3. p = [f \in PcmFields |-> p[f]] /\ p.at = "closed" /\ p.setup = NoSetup
  BY <1>2 DEF PcmFields
<1>4. pcm'[u] = p /\ \A v \in Substreams : v # u => pcm'[v] = pcm[v]
  <2>1. pcm' = [pcm EXCEPT ![u] = p]
    BY <1>2 DEF Release
  <2>2. QED
    BY <1>3, <2>1, PcmIs DEF StreamInv
<1>5. hw' = hw /\ bdl' = bdl /\ loader' = loader /\ pcm[u].setup = NoSetup
  BY DEF Release
<1>6. ASSUME NEW r \in Sds PROVE Same(r)
  <2>1. sd' = [sd EXCEPT ![s].opened = FALSE, ![s].running = FALSE, ![s].substream = None]
    BY <1>1, Zenon DEF Release
  <2>2. sd'[r].params = sd[r].params /\ sd'[r].nowake = sd[r].nowake /\ sd'[r].frags = sd[r].frags
    <3>1. CASE r # s
      BY <2>1, <3>1 DEF StreamInv, Shapes
    <3>2. CASE r = s
      BY <2>1, <3>2 DEF StreamInv, Shapes, SdFields
    <3>3. QED
      BY <3>1, <3>2
  <2>3. Overlaid(r)' <=> Overlaid(r)
    BY <1>5 DEF Overlaid
  <2>4. QED
    BY <1>5, <2>2, <2>3 DEF Same
<1>7. SetupKept(u)' /\ Programmed(u)' /\ ListWritten(u)'
  BY <1>3, <1>4 DEF SetupKept, Programmed, ListWritten
<1>8. PICK U, T : U = {u} /\ T = {}
  OBVIOUS
<1>9. bdl' = [r \in Sds |-> bdl'[r]] /\ BytesKnown' /\ U \in SUBSET Substreams /\ T \in SUBSET Sds
  BY <1>5, <1>8 DEF ListInv, BytesKnown
<1>10. /\ \A r \in Sds \ T : Same(r)
       /\ \A v \in Substreams \ U : pcm[v].dev \notin T /\ pcm'[v] = pcm[v]
       /\ \A v \in U : SetupKept(v)' /\ Programmed(v)' /\ ListWritten(v)' /\ pcm[v].setup = NoSetup
       /\ \A r \in T : ParamsOwned(r)'
  BY <1>4, <1>5, <1>6, <1>7, <1>8
<1>11. QED
  BY <1>9, <1>10, ListKeeps

\* A program chooses parameters: the stream has the same only if a load that failed
\* has left them.
LEMMA ListHwParams ==
  ASSUME StreamInv, ListInv, NEW u \in Substreams, NEW x \in Setups, HwParams(u, x)
  PROVE  ListInv'
<1>1. PICK s : s = pcm[u].dev
  OBVIOUS
<1>2. pcm[u].at = "open" /\ s \in Sds /\ pcm[u].setup = NoSetup
  BY <1>1 DEF HwParams, StreamInv, Owners
<1>3. sd' = sd /\ hw' = hw /\ bdl' = bdl /\ loader' = loader
  BY DEF HwParams
<1>4. pcm[u] = [f \in PcmFields |-> pcm[u][f]]
  BY DEF StreamInv, Shapes
<1>5. PICK p : p = [pcm[u] EXCEPT !.setup = x]
  OBVIOUS
<1>6. p = [f \in PcmFields |-> p[f]] /\ p.at = "open" /\ p.dev = s /\ p.setup = x
  BY <1>1, <1>2, <1>4, <1>5 DEF PcmFields
<1>7. pcm'[u] = p /\ \A v \in Substreams : v # u => pcm'[v] = pcm[v]
  <2>1. pcm' = [pcm EXCEPT ![u] = p]
    BY <1>5 DEF HwParams
  <2>2. QED
    BY <1>6, <2>1, PcmIs DEF StreamInv
<1>8. ASSUME NEW r \in Sds PROVE Same(r)
  BY <1>3 DEF Same, Overlaid
<1>9. ASSUME StoredFor(s, x), ~Overlaid(s)
      PROVE  LooksLoaded(x)
  <2>1. sd[s].params # NoParams
    BY <1>9, SetupIs DEF StoredFor
  <2>2. ~ \E v \in Substreams : pcm[v].dev = s /\ pcm[v].setup # NoSetup
    <3>1. \A v \in Substreams : v # u => pcm[v].dev # s
      BY <1>1, <1>2, NoStreamZero DEF StreamInv, Owners
    <3>2. QED
      BY <1>2, <3>1
  <2>3. Leftover(s)
    BY <1>2, <2>1, <2>2 DEF ListInv, ParamsOwned
  <2>4. PICK n \in LoadSizes : /\ sd[s].params = ParamsOf(LoadSetup(n)) /\ sd[s].nowake = TRUE
                               /\ LoadCrowded(n)
    BY <1>9, <2>3 DEF Leftover
  <2>5. ParamsOf(x) = ParamsOf(LoadSetup(n)) /\ x.nowake = TRUE
    BY <1>9, <2>4 DEF StoredFor
  <2>6. x.bufsize = n
    <3>1. ParamsOf(x).bufsize = x.bufsize /\ ParamsOf(LoadSetup(n)).bufsize = n
      BY DEF ParamsOf, LoadSetup
    <3>2. QED
      BY <2>5, <3>1
  <2>7. QED
    BY <2>4, <2>5, <2>6, Zenon DEF LooksLoaded, LoadCrowded
<1>10. SetupKept(u)' /\ Programmed(u)'
  BY <1>6, <1>7 DEF SetupKept, Programmed
<1>11. ListWritten(u)'
  <2>1. StoredFor(s, x)' => StoredFor(s, x)
    BY <1>3 DEF StoredFor
  <2>2. Overlaid(s)' <=> Overlaid(s)
    BY <1>3 DEF Overlaid
  <2>3. StoredFor(s, x)' /\ ~Overlaid(s)' => Excused(x)
    BY <1>9, <2>1, <2>2 DEF Excused
  <2>4. QED
    BY <1>6, <1>7, <2>3 DEF ListWritten, StoredFor, Overlaid
<1>12. PICK U, T : U = {u} /\ T = {}
  OBVIOUS
<1>13. bdl' = [r \in Sds |-> bdl'[r]] /\ BytesKnown' /\ U \in SUBSET Substreams /\ T \in SUBSET Sds
  BY <1>3, <1>12 DEF ListInv, BytesKnown
<1>14. /\ \A r \in Sds \ T : Same(r)
       /\ \A v \in Substreams \ U : pcm[v].dev \notin T /\ pcm'[v] = pcm[v]
       /\ \A v \in U : SetupKept(v)' /\ Programmed(v)' /\ ListWritten(v)' /\ pcm[v].setup = NoSetup
       /\ \A r \in T : ParamsOwned(r)'
  BY <1>2, <1>7, <1>8, <1>10, <1>11, <1>12
<1>15. QED
  BY <1>13, <1>14, ListKeeps

\* snd_hdac_stream_set_params writes the list, or finds the parameters stored.
LEMMA ListPrepare ==
  ASSUME StreamInv, ListInv, NEW u \in Substreams, Prepare(u)
  PROVE  ListInv'
<1>1. PICK s, x : s = pcm[u].dev /\ x = pcm[u].setup
  OBVIOUS
<1>2. /\ pcm[u].at \in {"open", "prepared"} /\ s \in Sds /\ ~sd[s].locked /\ x # NoSetup
      /\ x \in Setups /\ loader' = loader
  BY <1>1 DEF Prepare, StreamInv, Owners, ListInv, SetupKept
<1>3. loader.dev # s /\ ~Overlaid(s) /\ ~Overlaid(s)'
  BY <1>2, NotOverlaid DEF Overlaid
<1>4. \A v \in Substreams : v # u => pcm[v].dev # s
  BY <1>1, <1>2, NoStreamZero DEF StreamInv, Owners
<1>5. PICK w, n : w = WrittenList(x) /\ n = IF Changes(s, x) THEN Len(w) ELSE sd[s].frags
  OBVIOUS
<1>6. /\ sd' = [sd EXCEPT ![s].running = FALSE, ![s].params = ParamsOf(x), ![s].nowake = x.nowake,
                          ![s].frags = n]
      /\ bdl' = IF Changes(s, x) THEN [bdl EXCEPT ![s] = w] ELSE bdl
  <2>1. sd' = [sd EXCEPT ![s].running = FALSE, ![s].params = ParamsOf(x), ![s].nowake = x.nowake,
                         ![s].frags = IF Changes(s, x) THEN Len(Written(x, TRUE)) ELSE @]
    BY <1>1, Zenon DEF Prepare, SetParams
  <2>2. bdl' = IF Changes(s, x) THEN [bdl EXCEPT ![s] = Written(x, TRUE)] ELSE bdl
    BY <1>1, Zenon DEF Prepare, SetParams
  <2>3. w = Written(x, TRUE)
    BY <1>5, Zenon DEF WrittenList
  <2>4. sd = [r \in Sds |-> sd[r]] /\ sd[s] = [f \in SdFields |-> sd[s][f]]
    BY <1>2 DEF StreamInv, Shapes
  <2>5. sd' = [sd EXCEPT ![s].running = FALSE, ![s].params = ParamsOf(x), ![s].nowake = x.nowake,
                         ![s].frags = IF Changes(s, x) THEN Len(w) ELSE @]
    BY <2>1, <2>3, Zenon
  <2>6. bdl' = IF Changes(s, x) THEN [bdl EXCEPT ![s] = w] ELSE bdl
    BY <2>2, <2>3, Zenon
  <2>7. QED
    BY <1>2, <1>5, <2>4, <2>5, <2>6 DEF SdFields
<1>7. /\ sd'[s].params = ParamsOf(x) /\ sd'[s].nowake = x.nowake /\ sd'[s].frags = n
      /\ \A r \in Sds : r # s => sd'[r] = sd[r]
  BY <1>2, <1>6 DEF StreamInv, Shapes, SdFields
<1>8. /\ bdl' = [r \in Sds |-> bdl'[r]] /\ \A r \in Sds : r # s => bdl'[r] = bdl[r]
      /\ bdl'[s] = IF Changes(s, x) THEN w ELSE bdl[s]
  <2>1. bdl = [r \in Sds |-> bdl[r]]
    BY DEF ListInv
  <2>2. QED
    BY <1>2, <1>6, <2>1
<1>9. StoredFor(s, x)'
  BY <1>7 DEF StoredFor
<1>10. Excused(x) \/ FullList(s, x)'
  <2>1. CASE Changes(s, x)
    <3>1. bdl'[s] = WrittenList(x) /\ sd'[s].frags = Len(bdl'[s])
      BY <1>5, <1>7, <1>8, <2>1
    <3>2. QED
      BY <3>1 DEF FullList
  <2>2. CASE ~Changes(s, x)
    <3>1. StoredFor(s, x)
      BY <2>2 DEF Changes, StoredFor
    <3>2. Excused(x) \/ FullList(s, x)
      BY <1>1, <1>2, <1>3, <3>1 DEF ListInv, ListWritten
    <3>3. bdl'[s] = bdl[s] /\ sd'[s].frags = sd[s].frags
      BY <1>5, <1>7, <1>8, <2>2
    <3>4. QED
      BY <3>2, <3>3 DEF FullList
  <2>3. QED
    BY <2>1, <2>2
<1>11. pcm[u] = [f \in PcmFields |-> pcm[u][f]] /\ hw[s] = [f \in HwFields |-> hw[s][f]]
  BY <1>2 DEF StreamInv, Shapes
<1>12. PICK U, T : U = {u} /\ T = {s}
  OBVIOUS
<1>13. /\ bdl' = [r \in Sds |-> bdl'[r]] /\ BytesKnown' /\ U \in SUBSET Substreams /\ T \in SUBSET Sds
  BY <1>2, <1>8, <1>12 DEF ListInv, BytesKnown
<1>14. ASSUME NEW h, h = [f \in HwFields |-> h[f]], hw' = [hw EXCEPT ![s] = h],
              NEW p, p = [f \in PcmFields |-> p[f]], pcm' = [pcm EXCEPT ![u] = p],
              p.setup = x, p.dev = s,
              \/ p.at = "open"
              \/ p.at = "prepared" /\ h.cbl = x.bufsize /\ h.lvi = n - 1
       PROVE  ListInv'
  <2>1. hw'[s] = h /\ \A r \in Sds : r # s => hw'[r] = hw[r]
    BY <1>2, <1>14, HwIs DEF StreamInv
  <2>2. pcm'[u] = p /\ \A v \in Substreams : v # u => pcm'[v] = pcm[v]
    BY <1>14, PcmIs DEF StreamInv
  <2>3. ASSUME NEW r \in Sds, r # s PROVE Same(r)
    BY <1>2, <1>7, <1>8, <2>1, <2>3 DEF Same, Overlaid
  <2>4. SetupKept(u)'
    BY <1>2, <1>14, <2>2 DEF SetupKept
  <2>5. Programmed(u)'
    <3>1. CASE p.at = "open"
      BY <2>2, <3>1 DEF Programmed
    <3>2. CASE p.at = "prepared" /\ h.cbl = x.bufsize /\ h.lvi = n - 1
      BY <1>2, <1>7, <1>9, <1>14, <2>1, <2>2, <3>2 DEF Programmed, StoredFor
    <3>3. QED
      BY <1>14, <3>1, <3>2
  <2>6. ListWritten(u)'
    BY <1>10, <1>14, <2>2 DEF ListWritten, FullList
  <2>7. ParamsOwned(s)'
    BY <1>2, <1>14, <2>2 DEF ParamsOwned
  <2>8. /\ \A r \in Sds \ T : Same(r)
        /\ \A v \in Substreams \ U : pcm[v].dev \notin T /\ pcm'[v] = pcm[v]
        /\ \A v \in U : SetupKept(v)' /\ Programmed(v)' /\ ListWritten(v)' /\ pcm[v].dev \in T
        /\ \A r \in T : ParamsOwned(r)'
    BY <1>1, <1>4, <1>12, <2>2, <2>3, <2>4, <2>5, <2>6, <2>7
  <2>9. QED
    BY <1>13, <2>8, ListKeeps
<1>15. CASE hw' = [hw EXCEPT ![s].dma = "off"] /\ pcm' = [pcm EXCEPT ![u].at = "open"]
  <2>1. PICK h, p : h = [hw[s] EXCEPT !.dma = "off"] /\ p = [pcm[u] EXCEPT !.at = "open"]
    OBVIOUS
  <2>2. h = [f \in HwFields |-> h[f]] /\ hw' = [hw EXCEPT ![s] = h]
    BY <1>11, <1>15, <2>1 DEF HwFields
  <2>3. /\ p = [f \in PcmFields |-> p[f]] /\ p.at = "open" /\ p.dev = s /\ p.setup = x
        /\ pcm' = [pcm EXCEPT ![u] = p]
    BY <1>1, <1>11, <1>15, <2>1 DEF PcmFields
  <2>4. QED
    BY <1>14, <2>2, <2>3
<1>16. CASE /\ hw' = [hw EXCEPT ![s] = [dma |-> "off", cbl |-> x.bufsize, lvi |-> sd'[s].frags - 1]]
            /\ pcm' = [pcm EXCEPT ![u].at = "prepared"]
  <2>1. PICK h, p : /\ h = [dma |-> "off", cbl |-> x.bufsize, lvi |-> sd'[s].frags - 1]
                    /\ p = [pcm[u] EXCEPT !.at = "prepared"]
    OBVIOUS
  <2>2. /\ h = [f \in HwFields |-> h[f]] /\ hw' = [hw EXCEPT ![s] = h]
        /\ h.cbl = x.bufsize /\ h.lvi = n - 1
    BY <1>7, <1>16, <2>1 DEF HwFields
  <2>3. /\ p = [f \in PcmFields |-> p[f]] /\ p.at = "prepared" /\ p.dev = s /\ p.setup = x
        /\ pcm' = [pcm EXCEPT ![u] = p]
    BY <1>1, <1>11, <1>16, <2>1 DEF PcmFields
  <2>4. QED
    BY <1>14, <2>2, <2>3
<1>17. QED
  BY <1>1, <1>15, <1>16, Zenon DEF Prepare

LEMMA ListCleanup ==
  ASSUME StreamInv, ListInv, NEW u \in Substreams, Cleanup(u)
  PROVE  ListInv'
<1>1. PICK s : s = pcm[u].dev
  OBVIOUS
<1>2. pcm[u].at \in {"open", "prepared"} /\ s \in Sds /\ bdl' = bdl /\ loader' = loader
  BY <1>1 DEF Cleanup, StreamInv, Owners
<1>3. \A v \in Substreams : v # u => pcm[v].dev # s
  BY <1>1, <1>2, NoStreamZero DEF StreamInv, Owners
<1>4. pcm[u] = [f \in PcmFields |-> pcm[u][f]]
  BY DEF StreamInv, Shapes
<1>5. PICK h, p : /\ h = [dma |-> "off", cbl |-> hw[s].cbl, lvi |-> hw[s].lvi]
                  /\ p = [pcm[u] EXCEPT !.at = "open", !.setup = NoSetup]
  OBVIOUS
<1>6. /\ h = [f \in HwFields |-> h[f]]
      /\ p = [f \in PcmFields |-> p[f]] /\ p.at = "open" /\ p.setup = NoSetup
  BY <1>4, <1>5 DEF HwFields, PcmFields
<1>7. hw' = [hw EXCEPT ![s] = h]
  BY <1>1, <1>2, <1>5 DEF Cleanup, StreamInv, Shapes
<1>8. \A r \in Sds : r # s => hw'[r] = hw[r]
  BY <1>2, <1>6, <1>7, HwIs DEF StreamInv
<1>9. pcm'[u] = p /\ \A v \in Substreams : v # u => pcm'[v] = pcm[v]
  <2>1. pcm' = [pcm EXCEPT ![u] = p]
    BY <1>5 DEF Cleanup
  <2>2. QED
    BY <1>6, <2>1, PcmIs DEF StreamInv
<1>10. sd'[s].params = NoParams /\ \A r \in Sds : r # s => sd'[r] = sd[r]
  <2>1. sd' = [sd EXCEPT ![s].params = NoParams]
    BY <1>1 DEF Cleanup
  <2>2. QED
    BY <1>2, <2>1 DEF StreamInv, Shapes, SdFields
<1>11. ASSUME NEW r \in Sds, r # s PROVE Same(r)
  BY <1>2, <1>8, <1>10, <1>11 DEF Same, Overlaid
<1>12. SetupKept(u)' /\ Programmed(u)' /\ ListWritten(u)' /\ ParamsOwned(s)'
  BY <1>6, <1>9, <1>10 DEF SetupKept, Programmed, ListWritten, ParamsOwned
<1>13. PICK U, T : U = {u} /\ T = {s}
  OBVIOUS
<1>14. bdl' = [r \in Sds |-> bdl'[r]] /\ BytesKnown' /\ U \in SUBSET Substreams /\ T \in SUBSET Sds
  BY <1>2, <1>13 DEF ListInv, BytesKnown
<1>15. /\ \A r \in Sds \ T : Same(r)
       /\ \A v \in Substreams \ U : pcm[v].dev \notin T /\ pcm'[v] = pcm[v]
       /\ \A v \in U : SetupKept(v)' /\ Programmed(v)' /\ ListWritten(v)' /\ pcm[v].dev \in T
       /\ \A r \in T : ParamsOwned(r)'
  BY <1>1, <1>3, <1>9, <1>11, <1>12, <1>13
<1>16. QED
  BY <1>14, <1>15, ListKeeps

\* Steps that change no list and no parameters, of any stream.
LEMMA ListAlone ==
  ASSUME StreamInv, ListInv, bdl' = bdl, BytesKnown', \A r \in Sds : Same(r),
         \A v \in Substreams :
           /\ pcm'[v].setup = pcm[v].setup /\ pcm'[v].dev = pcm[v].dev
           /\ pcm'[v].at = "closed" => pcm[v].at = "closed"
           /\ pcm'[v].at \in {"prepared", "running", "stopping"} =>
                pcm[v].at \in {"prepared", "running", "stopping"}
  PROVE  ListInv'
<1>1. PICK U, T : U = {} /\ T = {}
  OBVIOUS
<1>2. bdl' = [r \in Sds |-> bdl'[r]] /\ U \in SUBSET Substreams /\ T \in SUBSET Sds
  BY <1>1 DEF ListInv
<1>3. /\ \A r \in Sds \ T : Same(r)
      /\ \A v \in Substreams \ U :
           /\ pcm[v].dev \notin T /\ pcm'[v].setup = pcm[v].setup /\ pcm'[v].dev = pcm[v].dev
           /\ pcm'[v].at = "closed" => pcm[v].at = "closed"
           /\ pcm'[v].at \in {"prepared", "running", "stopping"} =>
                pcm[v].at \in {"prepared", "running", "stopping"}
      /\ \A v \in U : /\ SetupKept(v)' /\ Programmed(v)' /\ ListWritten(v)'
                      /\ pcm[v].setup # NoSetup =>
                           \/ pcm[v].dev \in T
                           \/ pcm'[v].setup # NoSetup /\ pcm'[v].dev = pcm[v].dev
      /\ \A r \in T : ParamsOwned(r)'
  BY <1>1
<1>4. QED
  BY <1>2, <1>3, ListKeeps

\* The controller's registers but for the run bit.
LEMMA DmaOnly ==
  ASSUME StreamInv, NEW s, NEW d, hw' = [hw EXCEPT ![s].dma = d]
  PROVE  \A r \in Sds : hw'[r].cbl = hw[r].cbl /\ hw'[r].lvi = hw[r].lvi
<1>1. ASSUME NEW r \in Sds PROVE hw'[r].cbl = hw[r].cbl /\ hw'[r].lvi = hw[r].lvi
  <2>1. CASE r # s
    BY <2>1 DEF StreamInv, Shapes
  <2>2. CASE r = s
    BY <2>2 DEF StreamInv, Shapes, HwFields
  <2>3. QED
    BY <2>1, <2>2
<1>2. QED
  BY <1>1

LEMMA ListSyncStop ==
  ASSUME StreamInv, ListInv, NEW u \in Substreams, SyncStop(u)
  PROVE  ListInv'
<1>1. bdl' = bdl /\ sd' = sd /\ loader' = loader /\ pcm[u].at = "stopping"
  BY DEF SyncStop
<1>2. \A r \in Sds : hw'[r].cbl = hw[r].cbl /\ hw'[r].lvi = hw[r].lvi
  BY DmaOnly DEF SyncStop
<1>3. \A r \in Sds : Same(r)
  BY <1>1, <1>2 DEF Same, Overlaid
<1>4. ASSUME NEW v \in Substreams
      PROVE  /\ pcm'[v].setup = pcm[v].setup /\ pcm'[v].dev = pcm[v].dev
             /\ pcm'[v].at = "closed" => pcm[v].at = "closed"
             /\ pcm'[v].at \in {"prepared", "running", "stopping"} =>
                  pcm[v].at \in {"prepared", "running", "stopping"}
  <2>1. pcm' = [pcm EXCEPT ![u].at = "prepared"]
    BY DEF SyncStop
  <2>2. CASE v # u
    BY <2>1, <2>2 DEF StreamInv, Shapes
  <2>3. CASE v = u
    BY <1>1, <2>1, <2>3 DEF StreamInv, Shapes, PcmFields
  <2>4. QED
    BY <2>2, <2>3
<1>5. BytesKnown'
  BY <1>1 DEF ListInv, BytesKnown
<1>6. QED
  BY <1>1, <1>3, <1>4, <1>5, ListAlone

\* A group is started or stopped.
LEMMA ListGroup ==
  ASSUME StreamInv, ListInv, NEW G \in SUBSET Substreams, NEW b \in BOOLEAN, NEW d, NEW a,
         a \in {"running", "stopping"}, \A u \in G : pcm[u].at \in {"prepared", "running"},
         sd' = [s \in Sds |-> IF s \in Group(G) THEN [sd[s] EXCEPT !.running = b] ELSE sd[s]],
         hw' = [s \in Sds |-> IF s \in Group(G) THEN [hw[s] EXCEPT !.dma = d] ELSE hw[s]],
         pcm' = [u \in Substreams |-> IF u \in G THEN [pcm[u] EXCEPT !.at = a] ELSE pcm[u]],
         loader' = loader, bdl' = bdl
  PROVE  ListInv'
<1>1. ASSUME NEW r \in Sds PROVE Same(r)
  <2>1. sd'[r].params = sd[r].params /\ sd'[r].nowake = sd[r].nowake /\ sd'[r].frags = sd[r].frags
    BY DEF StreamInv, Shapes, SdFields
  <2>2. hw'[r].cbl = hw[r].cbl /\ hw'[r].lvi = hw[r].lvi
    BY DEF StreamInv, Shapes, HwFields
  <2>3. QED
    BY <2>1, <2>2 DEF Same, Overlaid
<1>2. ASSUME NEW v \in Substreams
      PROVE  /\ pcm'[v].setup = pcm[v].setup /\ pcm'[v].dev = pcm[v].dev
             /\ pcm'[v].at = "closed" => pcm[v].at = "closed"
             /\ pcm'[v].at \in {"prepared", "running", "stopping"} =>
                  pcm[v].at \in {"prepared", "running", "stopping"}
  <2>1. CASE v \in G
    <3>1. pcm'[v] = [pcm[v] EXCEPT !.at = a]
      BY <2>1
    <3>2. pcm[v] = [f \in PcmFields |-> pcm[v][f]]
      BY Zenon DEF StreamInv, Shapes
    <3>3. pcm'[v].at = a /\ pcm'[v].setup = pcm[v].setup /\ pcm'[v].dev = pcm[v].dev
      BY <3>1, <3>2 DEF PcmFields
    <3>4. pcm[v].at \in {"prepared", "running"}
      BY <2>1
    <3>5. QED
      BY <3>3, <3>4
  <2>2. CASE v \notin G
    BY <2>2
  <2>3. QED
    BY <2>1, <2>2
<1>3. BytesKnown'
  BY DEF ListInv, BytesKnown
<1>4. QED
  BY <1>1, <1>2, <1>3, ListAlone

LEMMA ListStartStop ==
  ASSUME StreamInv, ListInv, NEW G \in SUBSET Substreams, Start(G) \/ Stop(G)
  PROVE  ListInv'
<1>1. CASE Start(G)
  <2>1. \A u \in G : pcm[u].at \in {"prepared", "running"}
    BY <1>1 DEF Start
  <2>2. /\ sd' = [s \in Sds |-> IF s \in Group(G) THEN [sd[s] EXCEPT !.running = TRUE] ELSE sd[s]]
        /\ hw' = [s \in Sds |-> IF s \in Group(G) THEN [hw[s] EXCEPT !.dma = "on"] ELSE hw[s]]
        /\ pcm' = [u \in Substreams |-> IF u \in G THEN [pcm[u] EXCEPT !.at = "running"] ELSE pcm[u]]
        /\ loader' = loader /\ bdl' = bdl
    BY <1>1, Zenon DEF Start
  <2>3. "running" \in {"running", "stopping"}
    OBVIOUS
  <2>4. QED
    BY <2>1, <2>2, <2>3, ListGroup, Zenon
<1>2. CASE Stop(G)
  <2>1. \A u \in G : pcm[u].at \in {"prepared", "running"}
    BY <1>2 DEF Stop
  <2>2. /\ sd' = [s \in Sds |-> IF s \in Group(G) THEN [sd[s] EXCEPT !.running = FALSE] ELSE sd[s]]
        /\ hw' = [s \in Sds |-> IF s \in Group(G) THEN [hw[s] EXCEPT !.dma = "stopping"] ELSE hw[s]]
        /\ pcm' = [u \in Substreams |-> IF u \in G THEN [pcm[u] EXCEPT !.at = "stopping"] ELSE pcm[u]]
        /\ loader' = loader /\ bdl' = bdl
    BY <1>2, Zenon DEF Stop
  <2>3. "stopping" \in {"running", "stopping"}
    OBVIOUS
  <2>4. QED
    BY <2>1, <2>2, <2>3, ListGroup, Zenon
<1>3. QED
  BY <1>1, <1>2

\* Only the flags of one stream change, and where the loader is.
LEMMA ListLoader ==
  ASSUME StreamInv, ListInv, bdl' = bdl, pcm' = pcm, BytesKnown',
         \A r \in Sds : /\ sd'[r].params = sd[r].params /\ sd'[r].nowake = sd[r].nowake
                        /\ sd'[r].frags = sd[r].frags
                        /\ hw'[r].cbl = hw[r].cbl /\ hw'[r].lvi = hw[r].lvi
                        /\ Overlaid(r)' <=> Overlaid(r)
  PROVE  ListInv'
<1>1. \A r \in Sds : Same(r)
  BY DEF Same
<1>2. QED
  BY <1>1, ListAlone

LEMMA ListDspTake ==
  ASSUME StreamInv, ListInv, NEW s \in Sds, NEW n \in LoadSizes, DspTake(s, n)
  PROVE  ListInv'
<1>1. /\ loader.at = "idle" /\ bdl' = bdl /\ pcm' = pcm /\ hw' = hw
      /\ loader' = [at |-> "taken", dev |-> s, bytes |-> n] /\ sd' = [sd EXCEPT ![s].locked = TRUE]
  BY DEF DspTake
<1>2. loader'.at = "taken" /\ loader'.bytes = n
  BY <1>1
<1>3. ASSUME NEW r \in Sds
      PROVE  sd'[r].params = sd[r].params /\ sd'[r].nowake = sd[r].nowake /\ sd'[r].frags = sd[r].frags
  BY <1>1 DEF StreamInv, Shapes, SdFields
<1>4. BytesKnown' /\ \A r \in Sds : ~Overlaid(r) /\ ~Overlaid(r)'
  BY <1>1, <1>2 DEF BytesKnown, Overlaid
<1>5. QED
  BY <1>1, <1>3, <1>4, ListLoader

LEMMA ListDspStart ==
  ASSUME StreamInv, ListInv, DspStart \/ DspStop
  PROVE  ListInv'
<1>1. PICK s : s = loader.dev
  OBVIOUS
<1>2. PICK b, d, a : /\ a \in {"ready", "loading"}
                    /\ sd' = [sd EXCEPT ![s].running = b] /\ hw' = [hw EXCEPT ![s].dma = d]
                    /\ loader' = [loader EXCEPT !.at = a]
  <2>1. CASE DspStart
    <3>1. /\ "loading" \in {"ready", "loading"}
          /\ sd' = [sd EXCEPT ![s].running = TRUE] /\ hw' = [hw EXCEPT ![s].dma = "on"]
          /\ loader' = [loader EXCEPT !.at = "loading"]
      BY <1>1, <2>1, Zenon DEF DspStart
    <3>2. QED
      BY <3>1, Zenon
  <2>2. CASE DspStop
    <3>1. /\ "ready" \in {"ready", "loading"}
          /\ sd' = [sd EXCEPT ![s].running = FALSE] /\ hw' = [hw EXCEPT ![s].dma = "stopping"]
          /\ loader' = [loader EXCEPT !.at = "ready"]
      BY <1>1, <2>2, Zenon DEF DspStop
    <3>2. QED
      BY <3>1, Zenon
  <2>3. QED
    BY <2>1, <2>2
<1>3. loader.at \in {"ready", "loading"} /\ bdl' = bdl /\ pcm' = pcm
  BY DEF DspStart, DspStop
<1>4. \A r \in Sds : hw'[r].cbl = hw[r].cbl /\ hw'[r].lvi = hw[r].lvi
  BY <1>2, DmaOnly
<1>5. ASSUME NEW r \in Sds
      PROVE  sd'[r].params = sd[r].params /\ sd'[r].nowake = sd[r].nowake /\ sd'[r].frags = sd[r].frags
  BY <1>2 DEF StreamInv, Shapes, SdFields
<1>6. loader'.at \in {"ready", "loading"} /\ loader'.dev = loader.dev /\ loader'.bytes = loader.bytes
  BY <1>2 DEF StreamInv, Shapes, LoaderFields
<1>7. BytesKnown' /\ \A r \in Sds : Overlaid(r)' <=> Overlaid(r)
  BY <1>3, <1>6 DEF ListInv, BytesKnown, Overlaid
<1>8. QED
  BY <1>3, <1>4, <1>5, <1>7, ListLoader

\* The stream the loader has: no program has prepared it, whatever it is left with.
LEMMA ListLent ==
  ASSUME StreamInv, ListInv, NEW s, s = loader.dev, loader.at # "idle", pcm' = pcm,
         bdl' = [r \in Sds |-> bdl'[r]], BytesKnown', ParamsOwned(s)',
         \A r \in Sds : r # s => sd'[r] = sd[r] /\ hw'[r] = hw[r] /\ bdl'[r] = bdl[r],
         loader'.dev \in {s, 0},
         \/ Overlaid(s)'
         \/ \A x \in Setups : StoredFor(s, x)' => Excused(x)
  PROVE  ListInv'
<1>1. s \in Sds /\ sd[s].locked
  BY LoaderHas
<1>2. ASSUME NEW v \in Substreams, pcm[v].dev = s
      PROVE  SetupKept(v)' /\ Programmed(v)' /\ ListWritten(v)'
  <2>1. SetupKept(v)
    BY DEF ListInv
  <2>2. pcm[v].at \notin {"prepared", "running", "stopping"}
    <3>1. pcm[v].at \in {"prepared", "running", "stopping"} => ~sd[pcm[v].dev].locked
      BY Zenon DEF StreamInv, Active
    <3>2. QED
      BY <1>1, <1>2, <3>1
  <2>3. SetupKept(v)' /\ Programmed(v)'
    BY <2>1, <2>2 DEF SetupKept, Programmed
  <2>4. PICK x : x = pcm[v].setup
    OBVIOUS
  <2>5. x # NoSetup => x \in Setups
    BY <2>1, <2>4 DEF SetupKept
  <2>6. x # NoSetup /\ StoredFor(s, x)' /\ ~Overlaid(s)' => Excused(x)
    BY <2>5
  <2>7. pcm'[v].setup = x /\ pcm'[v].dev = s
    BY <1>2, <2>4
  <2>8. ListWritten(v)'
    BY <2>6, <2>7 DEF ListWritten, StoredFor, Overlaid
  <2>9. QED
    BY <2>3, <2>8
<1>3. ASSUME NEW r \in Sds, r # s PROVE Same(r)
  <2>1. ~Overlaid(r) /\ ~Overlaid(r)'
    BY <1>1, <1>3, NoStreamZero DEF Overlaid
  <2>2. QED
    BY <1>3, <2>1 DEF Same
<1>4. PICK U, T : U = {v \in Substreams : pcm[v].dev = s} /\ T = {s}
  OBVIOUS
<1>5. U \in SUBSET Substreams /\ T \in SUBSET Sds
  BY <1>1, <1>4
<1>6. /\ \A r \in Sds \ T : Same(r)
      /\ \A v \in Substreams \ U : pcm[v].dev \notin T /\ pcm'[v] = pcm[v]
      /\ \A v \in U : SetupKept(v)' /\ Programmed(v)' /\ ListWritten(v)' /\ pcm[v].dev \in T
      /\ \A r \in T : ParamsOwned(r)'
  BY <1>2, <1>3, <1>4
<1>7. QED
  BY <1>5, <1>6, ListKeeps

LEMMA ListDspPrepare ==
  ASSUME StreamInv, ListInv, DspPrepare
  PROVE  ListInv'
<1>1. PICK s, n : s = loader.dev /\ n = loader.bytes
  OBVIOUS
<1>2. loader.at = "taken" /\ loader.at # "idle" /\ pcm' = pcm
  BY DEF DspPrepare
<1>3. s \in Sds /\ n \in LoadSizes
  BY <1>1, <1>2, LoaderHas DEF ListInv, BytesKnown
<1>4. PICK w : w = Written(LoadSetup(loader.bytes), FALSE)
  OBVIOUS
<1>5. /\ sd' = [sd EXCEPT ![s].substream = None, ![s].running = FALSE, ![s].nowake = TRUE,
                          ![s].params = ParamsOf(LoadSetup(n)), ![s].frags = Len(w)]
      /\ bdl' = [bdl EXCEPT ![s] = w]
      /\ hw' = [hw EXCEPT ![s] = [dma |-> "off", cbl |-> n, lvi |-> Len(w) - 1]]
      /\ loader' = [loader EXCEPT !.at = "ready"]
  BY <1>1, <1>4, Zenon DEF DspPrepare
<1>6. loader'.at = "ready" /\ loader'.dev = s /\ loader'.bytes = n
  BY <1>1, <1>5 DEF StreamInv, Shapes, LoaderFields
<1>7. sd'[s].params = ParamsOf(LoadSetup(n)) /\ sd'[s].nowake = TRUE
  BY <1>3, <1>5 DEF StreamInv, Shapes, SdFields
<1>8. \A r \in Sds : r # s => sd'[r] = sd[r] /\ hw'[r] = hw[r] /\ bdl'[r] = bdl[r]
  <2>1. sd = [r \in Sds |-> sd[r]] /\ hw = [r \in Sds |-> hw[r]] /\ bdl = [r \in Sds |-> bdl[r]]
    BY DEF StreamInv, Shapes, ListInv
  <2>2. QED
    BY <1>5, <2>1
<1>9. bdl' = [r \in Sds |-> bdl'[r]]
  <2>1. bdl = [r \in Sds |-> bdl[r]]
    BY DEF ListInv
  <2>2. QED
    BY <1>5, <2>1
<1>10. Overlaid(s)' /\ BytesKnown'
  BY <1>3, <1>6 DEF Overlaid, BytesKnown
<1>11. ParamsOwned(s)'
  BY <1>3, <1>7, <1>10 DEF ParamsOwned, Leftover
<1>12. loader'.dev \in {s, 0}
  BY <1>6
<1>13. QED
  BY <1>1, <1>2, <1>8, <1>9, <1>10, <1>11, <1>12, ListLent

\* A load whose list does not fit leaves its parameters in the stream: a set-up with the
\* same is taken for one whose list is written.
LEMMA ListDspFails ==
  ASSUME StreamInv, ListInv, DspFails
  PROVE  ListInv'
<1>1. PICK s, n : s = loader.dev /\ n = loader.bytes
  OBVIOUS
<1>2. loader.at = "taken" /\ loader.at # "idle" /\ pcm' = pcm /\ loader' = NoLoad
  BY DEF DspFails
<1>3. s \in Sds /\ n \in LoadSizes
  BY <1>1, <1>2, LoaderHas DEF ListInv, BytesKnown
<1>4. loader'.at = "idle" /\ loader'.dev = 0
  BY <1>2 DEF NoLoad
<1>5. BytesKnown' /\ \A r \in Sds : ~Overlaid(r) /\ ~Overlaid(r)'
  BY <1>2, <1>4 DEF Overlaid, BytesKnown
<1>6. CASE sd' = [sd EXCEPT ![s].locked = FALSE] /\ bdl' = bdl /\ hw' = hw
  <2>1. ASSUME NEW r \in Sds
        PROVE  sd'[r].params = sd[r].params /\ sd'[r].nowake = sd[r].nowake /\ sd'[r].frags = sd[r].frags
    BY <1>6 DEF StreamInv, Shapes, SdFields
  <2>2. QED
    BY <1>2, <1>5, <1>6, <2>1, ListLoader
<1>7. CASE /\ LoadCrowded(n)
           /\ sd' = [sd EXCEPT ![s].locked = FALSE, ![s].substream = None, ![s].running = FALSE,
                               ![s].nowake = TRUE, ![s].params = ParamsOf(LoadSetup(n)),
                               ![s].frags = BdlEntries]
           /\ bdl' = [bdl EXCEPT ![s] = Written(LoadSetup(loader.bytes), FALSE)]
           /\ hw' = [hw EXCEPT ![s].dma = "off"]
  <2>1. sd'[s].params = ParamsOf(LoadSetup(n)) /\ sd'[s].nowake = TRUE
    BY <1>3, <1>7 DEF StreamInv, Shapes, SdFields
  <2>2. PICK w : w = Written(LoadSetup(loader.bytes), FALSE)
    OBVIOUS
  <2>3. bdl' = [bdl EXCEPT ![s] = w] /\ bdl = [r \in Sds |-> bdl[r]]
    BY <1>7, <2>2, Zenon DEF ListInv
  <2>4. bdl' = [r \in Sds |-> bdl'[r]]
    BY <2>3
  <2>5. \A r \in Sds : r # s => sd'[r] = sd[r] /\ hw'[r] = hw[r] /\ bdl'[r] = bdl[r]
    <3>1. sd = [r \in Sds |-> sd[r]] /\ hw = [r \in Sds |-> hw[r]]
      BY DEF StreamInv, Shapes
    <3>2. QED
      BY <1>7, <2>3, <3>1
  <2>6. ASSUME NEW x \in Setups, StoredFor(s, x)' PROVE Excused(x)
    <3>1. ParamsOf(x) = ParamsOf(LoadSetup(n)) /\ x.nowake = TRUE
      BY <2>1, <2>6 DEF StoredFor
    <3>2. ParamsOf(x).bufsize = x.bufsize /\ ParamsOf(LoadSetup(n)).bufsize = n
      BY DEF ParamsOf, LoadSetup
    <3>3. x.bufsize = n
      BY <3>1, <3>2
    <3>4. LooksLoaded(x)
      BY <1>3, <1>7, <3>1, <3>3, Zenon DEF LooksLoaded, LoadCrowded
    <3>5. QED
      BY <3>4 DEF Excused
  <2>7. ParamsOwned(s)'
    BY <1>3, <1>7, <2>1 DEF ParamsOwned, Leftover
  <2>8. loader'.dev \in {s, 0}
    BY <1>4
  <2>9. QED
    BY <1>1, <1>2, <1>5, <2>4, <2>5, <2>6, <2>7, <2>8, ListLent
<1>8. QED
  BY <1>1, <1>6, <1>7, Zenon DEF DspFails, LoadCrowded

LEMMA ListDspCleanup ==
  ASSUME StreamInv, ListInv, DspCleanup
  PROVE  ListInv'
<1>1. PICK s : s = loader.dev
  OBVIOUS
<1>2. loader.at # "idle" /\ pcm' = pcm /\ bdl' = bdl /\ loader' = NoLoad
  BY DEF DspCleanup
<1>3. s \in Sds
  BY <1>1, <1>2, LoaderHas
<1>4. loader'.at = "idle" /\ loader'.dev = 0
  BY <1>2 DEF NoLoad
<1>5. /\ sd' = [sd EXCEPT ![s].params = NoParams, ![s].locked = FALSE]
      /\ hw' = [hw EXCEPT ![s].dma = "off"]
  BY <1>1 DEF DspCleanup
<1>6. sd'[s].params = NoParams
  BY <1>3, <1>5 DEF StreamInv, Shapes, SdFields
<1>7. \A r \in Sds : r # s => sd'[r] = sd[r] /\ hw'[r] = hw[r] /\ bdl'[r] = bdl[r]
  <2>1. sd = [r \in Sds |-> sd[r]] /\ hw = [r \in Sds |-> hw[r]]
    BY DEF StreamInv, Shapes
  <2>2. QED
    BY <1>2, <1>5, <2>1
<1>8. ASSUME NEW x \in Setups PROVE ~StoredFor(s, x)'
  BY <1>6, SetupIs DEF StoredFor
<1>9. bdl' = [r \in Sds |-> bdl'[r]] /\ BytesKnown' /\ ParamsOwned(s)' /\ loader'.dev \in {s, 0}
  BY <1>2, <1>4, <1>6 DEF ListInv, BytesKnown, ParamsOwned
<1>10. QED
  BY <1>1, <1>2, <1>7, <1>8, <1>9, ListLent

LEMMA ListStopStreams ==
  ASSUME StreamInv, ListInv, StopStreams
  PROVE  ListInv'
<1>1. /\ bdl' = bdl /\ pcm' = pcm /\ hw' = hw /\ loader' = loader
      /\ sd' = [s \in Sds |-> [sd[s] EXCEPT !.running = FALSE]]
  BY DEF StopStreams
<1>2. ASSUME NEW r \in Sds
      PROVE  sd'[r].params = sd[r].params /\ sd'[r].nowake = sd[r].nowake /\ sd'[r].frags = sd[r].frags
  BY <1>1 DEF StreamInv, Shapes, SdFields
<1>3. BytesKnown' /\ \A r \in Sds : Overlaid(r)' <=> Overlaid(r)
  BY <1>1 DEF ListInv, BytesKnown, Overlaid
<1>4. QED
  BY <1>1, <1>2, <1>3, ListLoader

LEMMA ListInitHolds ==
  ASSUME StreamInit
  PROVE  ListInv
<1>1. /\ \A s \in Sds : sd[s] = Idle
      /\ \A u \in Substreams : pcm[u] = [at |-> "closed", dev |-> 0, setup |-> NoSetup]
      /\ loader = NoLoad /\ bdl = [s \in Sds |-> <<>>]
  BY DEF StreamInit
<1>2. \A u \in Substreams : pcm[u].at = "closed" /\ pcm[u].setup = NoSetup
  BY <1>1
<1>3. \A s \in Sds : sd[s].params = NoParams
  BY <1>1 DEF Idle
<1>4. loader.at = "idle"
  BY <1>1 DEF NoLoad
<1>5. QED
  BY <1>1, <1>2, <1>3, <1>4
     DEF ListInv, SetupKept, Programmed, ListWritten, ParamsOwned, BytesKnown

\* Parameters, list and registers of every stream agree at every step.
THEOREM ListInvariant == StreamSpec => []ListInv
<1>1. StreamInit => ListInv
  BY ListInitHolds
<1>2. StreamInv /\ ListInv /\ [StreamNext]_streamVars => ListInv'
  <2>1. ASSUME StreamInv, ListInv, UNCHANGED streamVars PROVE ListInv'
    <3>1. \A r \in Sds : Same(r)
      BY <2>1 DEF streamVars, Same, Overlaid
    <3>2. bdl' = bdl /\ pcm' = pcm /\ BytesKnown'
      BY <2>1 DEF streamVars, ListInv, BytesKnown
    <3>3. QED
      BY <2>1, <3>1, <3>2, ListAlone
  <2>2. ASSUME StreamInv, ListInv, StreamNext PROVE ListInv'
    BY <2>2, ListAssign, ListPrepare, ListSyncStop, ListCleanup, ListRelease, ListHwParams,
       ListStartStop, ListDspTake, ListDspPrepare, ListDspFails, ListDspStart, ListDspCleanup,
       ListStopStreams, Zenon DEF StreamNext
  <2>3. QED
    BY <2>1, <2>2
<1>3. QED
  BY <1>1, <1>2, StreamInvariant, PTL DEF StreamSpec

\* What a stream plays from describes the buffer of the program that runs it
\* (snd_hdac_stream_setup_bdle and set_params): the whole buffer, cut where the hardware
\* needs it, an interrupt a period, and the controller told of its length and entries;
\* for any set-ups, but those whose list does not fit and those a failed load has stored
\* the parameters of.
THEOREM ListIsRight == StreamSpec => []ListRight
<1>1. StreamInv /\ ListInv => ListRight
  <2>1. ASSUME StreamInv, ListInv, NEW u \in Substreams, pcm[u].at = "running"
        PROVE  \/ TooMany(pcm[u].setup, TRUE) \/ LooksLoaded(pcm[u].setup)
               \/ /\ hw[pcm[u].dev].lvi = Len(bdl[pcm[u].dev]) - 1
                  /\ hw[pcm[u].dev].cbl = pcm[u].setup.bufsize
                  /\ Describes(bdl[pcm[u].dev], pcm[u].setup)
    <3>1. PICK s, x : s = pcm[u].dev /\ x = pcm[u].setup
      OBVIOUS
    <3>2. /\ x # NoSetup /\ x \in Setups /\ StoredFor(s, x)
          /\ hw[s].cbl = x.bufsize /\ hw[s].lvi = sd[s].frags - 1
      BY <2>1, <3>1 DEF ListInv, SetupKept, Programmed
    <3>3. s \in Sds
      BY <2>1, <3>1 DEF StreamInv, Owners
    <3>4. ~sd[s].locked
      <4>1. pcm[u].at \in {"prepared", "running", "stopping"}
        BY <2>1
      <4>2. QED
        BY <2>1, <3>1, <4>1, Zenon DEF StreamInv, Active
    <3>5. ~Overlaid(s)
      BY <2>1, <3>3, <3>4, NotOverlaid
    <3>6. Excused(x) \/ FullList(s, x)
      BY <2>1, <3>1, <3>2, <3>5 DEF ListInv, ListWritten
    <3>7. CASE Excused(x)
      BY <3>1, <3>7, Zenon DEF Excused, Crowded
    <3>8. CASE FullList(s, x) /\ ~Crowded(x)
      <4>1. WrittenList(x) = EntryList(x)
        BY <3>8, Zenon DEF WrittenList, Written, Crowded, EntryList
      <4>2. bdl[s] = EntryList(x) /\ sd[s].frags = Len(bdl[s])
        BY <3>8, <4>1 DEF FullList
      <4>3. Whole(x)
        BY <3>2, SetupIs
      <4>4. Describes(bdl[s], x)
        BY <4>2, <4>3, DescribesRight
      <4>5. hw[s].lvi = Len(bdl[s]) - 1 /\ hw[s].cbl = x.bufsize
        BY <3>2, <4>2
      <4>6. QED
        BY <3>1, <4>4, <4>5, Zenon
    <3>9. QED
      BY <3>6, <3>7, <3>8 DEF Excused
  <2>2. QED
    BY <2>1, Zenon DEF ListRight
<1>2. QED
  BY <1>1, StreamInvariant, ListInvariant, PTL

-----------------------------------------------------------------------------
(* HdaQueries: connection lists.                                           *)

\* What the loop has found so far.
ConnState == [list : Seq(Nat), prev : Nat, nulls : Nat, ret : {"ok", "invalid", "ENOSPC", "EIO"}]

\* A question about connections.
ConnAsk(q) ==
  /\ q.entries \in Seq(Entry) /\ Len(q.entries) \in Nat
  /\ q.long \in BOOLEAN /\ q.broken \in Nat

\* One turn of the loop, the verb that reads the next entries included.
Fails(long, broken, i) ==
  (i - 1) % (IF long THEN 2 ELSE 4) = 0 /\ broken \in i..(i + (IF long THEN 1 ELSE 3))
Turned(st, q, room, i) ==
  IF st.ret = "ok" /\ Fails(q.long, q.broken, i) THEN [st EXCEPT !.ret = "EIO"]
  ELSE ConnEntry(st, q.entries[i], room)
TurnBody(g, q, room, i) == IF i = 0 THEN ConnStart ELSE Turned(g[i - 1], q, room, i)
IsRead(g, q, room, m) == g = [i \in 0..m |-> TurnBody(g, q, room, i)]
ReadDefined(q, room, m) == \E g : IsRead(g, q, room, m)

\* There is such a loop.
LEMMA ReadRecursion ==
  ASSUME NEW q, NEW room, NEW m \in Nat
  PROVE  ReadDefined(q, room, m)
<1> DEFINE Bad == {k \in Nat : ~ReadDefined(q, room, k)}
<1>1. SUFFICES ASSUME Bad # {} PROVE FALSE
  OBVIOUS
<1>2. PICK k \in Bad : \A b \in Bad : k <= b
  BY <1>1, LeastStream
<1>3. k \in Nat /\ ~ReadDefined(q, room, k)
  BY <1>2
<1>4. CASE k = 0
  <2>1. PICK g : g = [i \in 0..0 |-> ConnStart]
    OBVIOUS
  <2>2. g = [i \in 0..0 |-> TurnBody(g, q, room, i)]
    BY <2>1 DEF TurnBody
  <2>3. QED
    BY <1>3, <1>4, <2>2, Zenon DEF ReadDefined, IsRead
<1>5. CASE k # 0
  <2>1. PICK n : n = k - 1
    OBVIOUS
  <2>2. n \in Nat /\ ~(k <= n) /\ \A i \in 0..k : i # 0 => i - 1 \in 0..n /\ i - 1 \in 0..k
    BY <1>3, <1>5, <2>1
  <2>3. n \notin Bad
    BY <1>2, <2>2, Zenon
  <2>4. PICK h : IsRead(h, q, room, n)
    BY <2>2, <2>3, Zenon DEF ReadDefined
  <2>5. PICK g : g = [i \in 0..k |-> TurnBody(h, q, room, i)]
    OBVIOUS
  <2>6. ASSUME NEW i \in 0..k
        PROVE  TurnBody(g, q, room, i) = TurnBody(h, q, room, i)
    <3>1. CASE i = 0
      BY <3>1 DEF TurnBody
    <3>2. CASE i # 0
      <4>1. PICK j : j = i - 1
        OBVIOUS
      <4>2. j \in 0..n /\ j \in 0..k
        BY <2>2, <3>2, <4>1
      <4>3. h[j] = TurnBody(h, q, room, j)
        BY <2>4, <4>2, Zenon DEF IsRead
      <4>4. g[j] = TurnBody(h, q, room, j)
        BY <2>5, <4>2, Zenon
      <4>5. g[i - 1] = h[i - 1]
        BY <4>1, <4>3, <4>4
      <4>6. QED
        BY <4>5, Zenon DEF TurnBody
    <3>3. QED
      BY <3>1, <3>2
  <2>7. g = [i \in 0..k |-> TurnBody(g, q, room, i)]
    BY <2>5, <2>6
  <2>8. QED
    BY <1>3, <2>7, Zenon DEF ReadDefined, IsRead
<1>6. QED
  BY <1>4, <1>5

\* Its result.
Closed(g, q) ==
  IF Len(q.entries) = 1 /\ q.broken # 1
  THEN [ret |-> "ok", list |-> <<q.entries[1].val>>]
  ELSE [ret |-> g[Len(q.entries)].ret,
        list |-> IF g[Len(q.entries)].ret = "ok" THEN g[Len(q.entries)].list ELSE <<>>]

\* What is returned is what the last turn leaves, or the only entry.
LEMMA ConnectionsRead ==
  ASSUME NEW q, ConnAsk(q), NEW room
  PROVE  \E g : /\ IsRead(g, q, room, Len(q.entries))
                /\ Connections(q.entries, q.long, q.broken, room) = Closed(g, q)
<1> DEFINE g == CHOOSE g : g = [i \in 0..Len(q.entries) |-> TurnBody(g, q, room, i)]
<1>1. Connections(q.entries, q.long, q.broken, room) = Closed(g, q)
  BY Zenon DEF Connections, Closed, TurnBody, Turned, Fails
<1>2. ReadDefined(q, room, Len(q.entries))
  BY ReadRecursion DEF ConnAsk
<1>3. IsRead(g, q, room, Len(q.entries))
  BY <1>2, Zenon DEF ReadDefined, IsRead
<1> HIDE DEF g
<1>4. QED
  BY <1>1, <1>3

\* An entry of a list that is asked about.
LEMMA AskedEntry ==
  ASSUME NEW q, ConnAsk(q), NEW i \in 1..Len(q.entries)
  PROVE  q.entries[i].val \in Nat /\ q.entries[i].range \in BOOLEAN
<1>1. PICK s : s = q.entries
  OBVIOUS
<1>2. s \in Seq(Entry) /\ i \in 1..Len(s)
  BY <1>1 DEF ConnAsk
<1>3. s[i] \in Entry
  BY <1>2
<1>4. s[i].val \in ConnNids /\ s[i].range \in BOOLEAN
  BY <1>3 DEF Entry
<1>5. QED
  BY <1>1, <1>4, QueriesAssumption

\* What is left to add, entry by entry.
LEMMA ExpandIs ==
  ASSUME NEW prev \in Nat, NEW e, e.val \in Nat, e.range \in BOOLEAN, ~BadRange(prev, e)
  PROVE  Expand(prev, e) \in Seq(Nat)
<1>1. CASE e.range
  <2>1. PICK n : n = e.val - prev
    OBVIOUS
  <2>2. n \in Nat
    BY <1>1, <2>1 DEF BadRange
  <2>3. [i \in 1..n |-> prev + i] \in [1..n -> Nat]
    BY <2>2
  <2>4. QED
    BY <1>1, <2>1, <2>2, <2>3, SeqDef DEF Expand
<1>2. CASE ~e.range
  BY <1>2 DEF Expand
<1>3. QED
  BY <1>1, <1>2

\* A turn of the loop goes on with what it has, or ends it.
LEMMA TurnIs ==
  ASSUME NEW q, ConnAsk(q), NEW st \in ConnState, NEW room \in Nat, NEW i \in 1..Len(q.entries)
  PROVE  /\ Turned(st, q, room, i) \in ConnState
         /\ Turned(st, q, room, i).ret = "ok" =>
              st.ret = "ok" /\ Len(st.list) <= Len(Turned(st, q, room, i).list)
<1>1. PICK e : e = q.entries[i]
  OBVIOUS
<1>2. e.val \in Nat /\ e.range \in BOOLEAN
  BY <1>1, AskedEntry
<1>3. PICK r : r = Turned(st, q, room, i)
  OBVIOUS
<1>4. st.list \in Seq(Nat) /\ st.nulls \in Nat /\ st.prev \in Nat
  BY DEF ConnState
<1>5. CASE r = [st EXCEPT !.ret = "EIO"] \/ r = [st EXCEPT !.ret = "invalid"]
           \/ r = [st EXCEPT !.ret = "ENOSPC"]
  BY <1>3, <1>5 DEF ConnState
<1>6. CASE r = st
  BY <1>3, <1>4, <1>6
<1>7. CASE st.ret = "ok" /\ r = [st EXCEPT !.nulls = @ + IF e.val = 0 THEN 1 ELSE 0]
  <2>1. PICK m : m = st.nulls + IF e.val = 0 THEN 1 ELSE 0
    OBVIOUS
  <2>2. m \in Nat /\ r = [st EXCEPT !.nulls = m]
    BY <1>4, <1>7, <2>1
  <2>3. r \in ConnState /\ r.list = st.list
    BY <2>2 DEF ConnState
  <2>4. Len(st.list) <= Len(r.list)
    BY <1>4, <2>3
  <2>5. QED
    BY <1>3, <1>7, <2>3, <2>4, Zenon
<1>8. CASE /\ st.ret = "ok" /\ ~BadRange(st.prev, e)
           /\ r = [list |-> st.list \o Expand(st.prev, e), prev |-> e.val,
                   nulls |-> st.nulls + IF e.val = 0 THEN 1 ELSE 0, ret |-> "ok"]
  <2>1. PICK x : x = Expand(st.prev, e)
    OBVIOUS
  <2>2. x \in Seq(Nat)
    BY <1>2, <1>4, <1>8, <2>1, ExpandIs
  <2>3. st.list \o x \in Seq(Nat) /\ Len(st.list \o x) = Len(st.list) + Len(x)
        /\ Len(x) \in Nat /\ Len(st.list) \in Nat
    BY <1>4, <2>2
  <2>4. r.list = st.list \o x /\ r.ret = "ok" /\ r \in ConnState
    <3>1. PICK m, l : m = st.nulls + (IF e.val = 0 THEN 1 ELSE 0) /\ l = st.list \o x
      OBVIOUS
    <3>2. m \in Nat /\ l \in Seq(Nat) /\ e.val \in Nat
      BY <1>2, <1>4, <2>3, <3>1
    <3>3. r = [list |-> l, prev |-> e.val, nulls |-> m, ret |-> "ok"]
      BY <1>8, <2>1, <3>1
    <3>4. QED
      BY <3>1, <3>2, <3>3 DEF ConnState
  <2>5. Len(st.list) <= Len(r.list)
    BY <2>3, <2>4
  <2>6. QED
    BY <1>3, <1>8, <2>4, <2>5, Zenon
<1>9. QED
  BY <1>1, <1>3, <1>5, <1>6, <1>7, <1>8, Zenon DEF Turned, ConnEntry

\* A turn with an array does what it does without, or finds no room for what there is.
LEMMA TurnAgrees ==
  ASSUME NEW q, ConnAsk(q), NEW st \in ConnState, NEW room \in Nat, room # CountOnly, Len(st.list) <= room,
         NEW i \in 1..Len(q.entries),
         NEW r, r = Turned(st, q, room, i), NEW c, c = Turned(st, q, CountOnly, i)
  PROVE  \/ r = c /\ Len(r.list) <= room
         \/ r.ret = "ENOSPC" /\ (c.ret = "ok" => Len(c.list) > room)
<1>1. PICK e : e = q.entries[i]
  OBVIOUS
<1>2. e.val \in Nat /\ e.range \in BOOLEAN
  BY <1>1, AskedEntry
<1>3. st.list \in Seq(Nat) /\ st.nulls \in Nat /\ st.prev \in Nat
  BY DEF ConnState
<1>4. CASE st.ret = "ok" /\ Fails(q.long, q.broken, i)
  <2>1. r = [st EXCEPT !.ret = "EIO"] /\ c = [st EXCEPT !.ret = "EIO"]
    BY <1>4, Zenon DEF Turned
  <2>2. QED
    BY <2>1 DEF ConnState
<1>5. CASE ~(st.ret = "ok" /\ Fails(q.long, q.broken, i))
  <2>1. r = ConnEntry(st, e, room) /\ c = ConnEntry(st, e, CountOnly)
    BY <1>1, <1>5, Zenon DEF Turned
  <2>2. CASE st.ret # "ok"
    <3>1. r = st /\ c = st
      BY <2>1, <2>2, Zenon DEF ConnEntry
    <3>2. QED
      BY <3>1
  <2>3. CASE st.ret = "ok" /\ e.val = 0 /\ st.nulls > 0
    <3>1. r = [st EXCEPT !.ret = "invalid"] /\ c = r
      BY <2>1, <2>3, Zenon DEF ConnEntry
    <3>2. QED
      BY <3>1 DEF ConnState
  <2>4. CASE st.ret = "ok" /\ ~(e.val = 0 /\ st.nulls > 0) /\ BadRange(st.prev, e)
    <3>1. r = [st EXCEPT !.nulls = @ + IF e.val = 0 THEN 1 ELSE 0] /\ c = r
      BY <2>1, <2>4, Zenon DEF ConnEntry
    <3>2. QED
      BY <3>1 DEF ConnState
  <2>5. CASE st.ret = "ok" /\ ~(e.val = 0 /\ st.nulls > 0) /\ ~BadRange(st.prev, e)
    <3>1. PICK x : x = Expand(st.prev, e)
      OBVIOUS
    <3>2. x \in Seq(Nat) /\ Len(st.list \o x) = Len(st.list) + Len(x) /\ Len(x) \in Nat /\ Len(st.list) \in Nat
      BY <1>2, <1>3, <2>5, <3>1, ExpandIs
    <3>3. PICK d : d = [list |-> st.list \o x, prev |-> e.val,
                        nulls |-> st.nulls + IF e.val = 0 THEN 1 ELSE 0, ret |-> "ok"]
      OBVIOUS
    <3>4. c = d
      BY <2>1, <2>5, <3>1, <3>3, Zenon DEF ConnEntry, HasRoom
    <3>5. d.list = st.list \o x /\ d.ret = "ok"
      BY <3>3
    <3>6. CASE HasRoom(st, x, room)
      <4>1. r = d
        BY <2>1, <2>5, <3>1, <3>3, <3>6, Zenon DEF ConnEntry
      <4>2. QED
        BY <3>2, <3>4, <3>5, <3>6, <4>1 DEF HasRoom
    <3>7. CASE ~HasRoom(st, x, room)
      <4>1. r = [st EXCEPT !.ret = "ENOSPC"]
        BY <2>1, <2>5, <3>1, <3>7, Zenon DEF ConnEntry
      <4>2. r.ret = "ENOSPC"
        BY <4>1 DEF ConnState
      <4>3. Len(c.list) > room
        BY <3>2, <3>4, <3>5, <3>7 DEF HasRoom
      <4>4. QED
        BY <4>2, <4>3
    <3>8. QED
      BY <3>6, <3>7
  <2>6. QED
    BY <2>2, <2>3, <2>4, <2>5
<1>6. QED
  BY <1>4, <1>5

\* A list for an array and the count without one.
Agree(r, c, room) ==
  \/ r = c /\ Len(r.list) <= room
  \/ r.ret = "ENOSPC" /\ (c.ret = "ok" => Len(c.list) > room)

\* The loop goes from one turn to the next.
LEMMA ReadStep ==
  ASSUME NEW q, NEW room, NEW n \in Nat, NEW g, IsRead(g, q, room, n), NEW i \in 0..n, i # 0
  PROVE  /\ i - 1 \in 0..n
         /\ g[i] = Turned(g[i - 1], q, room, i)
<1>1. i - 1 \in 0..n
  OBVIOUS
<1>2. g[i] = TurnBody(g, q, room, i)
  BY Zenon DEF IsRead
<1>3. QED
  BY <1>1, <1>2, Zenon DEF TurnBody

\* It starts with nothing.
LEMMA ReadStart ==
  ASSUME NEW q, NEW room, NEW n \in Nat, NEW g, IsRead(g, q, room, n)
  PROVE  g[0] = ConnStart
<1>1. 0 \in 0..n
  OBVIOUS
<1>2. g[0] = TurnBody(g, q, room, 0)
  BY <1>1, Zenon DEF IsRead
<1>3. QED
  BY <1>2, Zenon DEF TurnBody

\* Turn by turn the loop with an array and the one without agree.
LEMMA ReadAgrees ==
  ASSUME NEW q, ConnAsk(q), NEW room \in Nat, room # CountOnly,
         NEW a, IsRead(a, q, room, Len(q.entries)), NEW b, IsRead(b, q, CountOnly, Len(q.entries)),
         NEW i \in 0..Len(q.entries)
  PROVE  a[i] \in ConnState /\ b[i] \in ConnState /\ Agree(a[i], b[i], room)
<1> DEFINE Ok(k) == a[k] \in ConnState /\ b[k] \in ConnState /\ Agree(a[k], b[k], room)
           Bad == {k \in 0..Len(q.entries) : ~Ok(k)}
<1>1. PICK n : n = Len(q.entries)
  OBVIOUS
<1>2. n \in Nat
  BY <1>1 DEF ConnAsk
<1>3. IsRead(a, q, room, n) /\ IsRead(b, q, CountOnly, n) /\ CountOnly \in Nat
  BY <1>1 DEF CountOnly
<1>4. SUFFICES ASSUME Bad # {} PROVE FALSE
  BY Zenon
<1> HIDE DEF Ok
<1>4a. Bad \subseteq Nat
  BY <1>1, <1>2
<1>5. PICK k \in Bad : \A x \in Bad : k <= x
  BY <1>4, <1>4a, LeastStream, Zenon
<1> USE DEF Ok
<1>6. k \in 0..n /\ ~Ok(k)
  BY <1>1, <1>5
<1>7. CASE k = 0
  <2>1. a[0] = ConnStart /\ b[0] = ConnStart
    BY <1>2, <1>3, ReadStart
  <2>2. ConnStart \in ConnState /\ Len(ConnStart.list) <= room
    BY DEF ConnStart, ConnState
  <2>3. QED
    BY <1>6, <1>7, <2>1, <2>2, Zenon DEF Agree
<1>8. CASE k # 0
  <2>1. PICK j : j = k - 1
    OBVIOUS
  <2>2. j \in 0..n /\ ~(k <= j) /\ k \in 1..Len(q.entries)
    BY <1>1, <1>2, <1>6, <1>8, <2>1
  <2>3. Ok(j)
    BY <1>1, <1>5, <2>2, Zenon
  <2> HIDE DEF Ok, Bad
  <2>4a. a[k] = Turned(a[k - 1], q, room, k)
    <3>1. k \in 0..n /\ k # 0
      BY <1>6, <1>8, Zenon
    <3>2. QED
      BY <1>2, <1>3, <3>1, ReadStep
  <2>4b. b[k] = Turned(b[k - 1], q, CountOnly, k)
    <3>1. k \in 0..n /\ k # 0
      BY <1>6, <1>8, Zenon
    <3>2. QED
      BY <1>2, <1>3, <3>1, ReadStep
  <2> USE DEF Ok, Bad
  <2>4. a[k] = Turned(a[j], q, room, k) /\ b[k] = Turned(b[j], q, CountOnly, k)
    BY <2>1, <2>4a, <2>4b, Zenon
  <2>5. /\ a[k] \in ConnState /\ b[k] \in ConnState
        /\ b[k].ret = "ok" => b[j].ret = "ok" /\ Len(b[j].list) <= Len(b[k].list)
    BY <1>3, <2>2, <2>3, <2>4, TurnIs
  <2>6. CASE a[j] = b[j] /\ Len(a[j].list) <= room
    <3>1. PICK st : st = a[j]
      OBVIOUS
    <3>2. a[k] = Turned(st, q, room, k) /\ b[k] = Turned(st, q, CountOnly, k)
          /\ st \in ConnState /\ Len(st.list) <= room
      BY <2>3, <2>4, <2>6, <3>1, Zenon
    <3>2a. PICK r, c : r = a[k] /\ c = b[k]
      OBVIOUS
    <3>2b. r = Turned(st, q, room, k) /\ c = Turned(st, q, CountOnly, k)
      BY <3>2, <3>2a, Zenon
    <3>2c. \/ r = c /\ Len(r.list) <= room
           \/ r.ret = "ENOSPC" /\ (c.ret = "ok" => Len(c.list) > room)
      BY <2>2, <3>2, <3>2b, TurnAgrees
    <3>3. Agree(a[k], b[k], room)
      BY <3>2a, <3>2c, Zenon DEF Agree
    <3>4. QED
      BY <1>6, <2>5, <3>3, Zenon
  <2>7. CASE a[j].ret = "ENOSPC" /\ (b[j].ret = "ok" => Len(b[j].list) > room)
    <3>1. a[j].ret # "ok"
      BY <2>7
    <3>2. a[k] = a[j]
      BY <2>4, <3>1, Zenon DEF Turned, ConnEntry
    <3>3. Len(b[j].list) \in Nat /\ Len(b[k].list) \in Nat
      <4>1. PICK x, y : x = b[j] /\ y = b[k]
        OBVIOUS
      <4>2. x \in ConnState /\ y \in ConnState
        BY <2>3, <2>5, <4>1, Zenon
      <4>3. x.list \in Seq(Nat) /\ y.list \in Seq(Nat)
        BY <4>2 DEF ConnState
      <4>4. Len(x.list) \in Nat /\ Len(y.list) \in Nat
        BY <4>3
      <4>5. QED
        BY <4>1, <4>4, Zenon
    <3>4. b[k].ret = "ok" => Len(b[k].list) > room
      BY <2>5, <2>7, <3>3
    <3>5. Agree(a[k], b[k], room)
      BY <2>7, <3>2, <3>4, Zenon DEF Agree
    <3>6. QED
      BY <1>6, <2>5, <3>5, Zenon
  <2>8. QED
    BY <2>3, <2>6, <2>7, Zenon DEF Agree
<1>9. QED
  BY <1>7, <1>8

\* The list and the count.
LEMMA ConnectionsAgree ==
  ASSUME NEW q, ConnAsk(q), NEW room \in Nat, room # CountOnly,
         NEW r, r = Connections(q.entries, q.long, q.broken, room),
         NEW c, c = Connections(q.entries, q.long, q.broken, CountOnly)
  PROVE  Agree(r, c, room)
<1>1. PICK n : n = Len(q.entries)
  OBVIOUS
<1>2. n \in 0..n /\ n \in Nat
  BY <1>1 DEF ConnAsk
<1>3. PICK a : IsRead(a, q, room, n) /\ r = Closed(a, q)
  BY <1>1, ConnectionsRead, Zenon
<1>4. PICK b : IsRead(b, q, CountOnly, n) /\ c = Closed(b, q)
  BY <1>1, ConnectionsRead, Zenon
<1>5. a[n] \in ConnState /\ b[n] \in ConnState /\ Agree(a[n], b[n], room)
  BY <1>1, <1>2, <1>3, <1>4, ReadAgrees, Zenon
<1>6. CASE n = 1 /\ q.broken # 1
  <2>1. PICK v : v = q.entries[1].val
    OBVIOUS
  <2>2. r = [ret |-> "ok", list |-> <<v>>] /\ c = r
    BY <1>1, <1>3, <1>4, <1>6, <2>1, Zenon DEF Closed
  <2>3. Len(r.list) <= room
    BY <2>2 DEF CountOnly
  <2>4. QED
    BY <2>2, <2>3, Zenon DEF Agree
<1>7. CASE ~(n = 1 /\ q.broken # 1)
  <2>1. PICK x, y : x = a[n] /\ y = b[n]
    OBVIOUS
  <2>2. /\ r = [ret |-> x.ret, list |-> IF x.ret = "ok" THEN x.list ELSE <<>>]
        /\ c = [ret |-> y.ret, list |-> IF y.ret = "ok" THEN y.list ELSE <<>>]
    BY <1>1, <1>3, <1>4, <1>7, <2>1, Zenon DEF Closed
  <2>3. x \in ConnState /\ y \in ConnState /\ Agree(x, y, room)
    BY <1>5, <2>1, Zenon
  <2>4. /\ r.ret = x.ret /\ c.ret = y.ret
        /\ x.ret = "ok" => r.list = x.list
        /\ x.ret # "ok" => r.list = <<>>
        /\ y.ret = "ok" => c.list = y.list
    BY <2>2
  <2>5. CASE x = y /\ Len(x.list) <= room
    <3>1. r = c
      BY <2>2, <2>5, Zenon
    <3>2. Len(r.list) <= room
      <4>1. CASE x.ret = "ok"
        BY <2>4, <2>5, <4>1
      <4>2. CASE x.ret # "ok"
        BY <2>4, <4>2
      <4>3. QED
        BY <4>1, <4>2
    <3>3. QED
      BY <3>1, <3>2, Zenon DEF Agree
  <2>6. CASE x.ret = "ENOSPC" /\ (y.ret = "ok" => Len(y.list) > room)
    <3>1. r.ret = "ENOSPC" /\ (c.ret = "ok" => Len(c.list) > room)
      BY <2>4, <2>6, Zenon
    <3>2. QED
      BY <3>1, Zenon DEF Agree
  <2>7. QED
    BY <2>3, <2>5, <2>6, Zenon DEF Agree
<1>8. QED
  BY <1>6, <1>7

\* Lists that rise, and what is in them.
Elems(s) == {s[i] : i \in 1..Len(s)}
Rises(s) == \A i \in 2..Len(s) : s[i - 1] < s[i]

\* Two rising lists, the second behind the first, make one.
LEMMA RisesOn ==
  ASSUME NEW s \in Seq(Nat), NEW x \in Seq(Nat), Len(s) > 0, Len(x) > 0, Rises(s), Rises(x),
         s[Len(s)] < x[1]
  PROVE  /\ Rises(s \o x)
         /\ Elems(s \o x) = Elems(s) \cup Elems(x)
         /\ Len(s \o x) > 0 /\ (s \o x)[Len(s \o x)] = x[Len(x)]
<1>1. PICK m, n : m = Len(s) /\ n = Len(x)
  OBVIOUS
<1>2. m \in Nat /\ n \in Nat /\ m > 0 /\ n > 0
  BY <1>1
<1>3. PICK y : y = s \o x
  OBVIOUS
<1>4. Len(y) = m + n
  BY <1>1, <1>3
<1>5. \A i \in 1..m : y[i] = s[i]
  BY <1>1, <1>3
<1>6. \A i \in (m + 1)..(m + n) : y[i] = x[i - m]
  BY <1>1, <1>3
<1>6a. \A i \in 1..n : y[m + i] = x[i]
  <2> SUFFICES ASSUME NEW i \in 1..n PROVE y[m + i] = x[i]
    OBVIOUS
  <2>1. m + i \in (m + 1)..(m + n) /\ (m + i) - m = i
    BY <1>2
  <2>2. QED
    BY <1>6, <2>1
<1>7. ASSUME NEW i \in 2..(m + n)
      PROVE  y[i - 1] < y[i]
  <2>1. CASE i <= m
    <3>1. i - 1 \in 1..m /\ i \in 1..m /\ i \in 2..m
      BY <1>2, <2>1
    <3>2. s[i - 1] < s[i]
      BY <1>1, <3>1 DEF Rises
    <3>3. QED
      BY <1>5, <3>1, <3>2
  <2>2. CASE i = m + 1
    <3>1. i - 1 = m /\ m \in 1..m /\ 1 \in 1..n
      BY <1>2, <2>2
    <3>2. y[m] = s[m] /\ y[m + 1] = x[1]
      BY <1>5, <1>6a, <3>1
    <3>3. s[m] < x[1]
      BY <1>1
    <3>4. QED
      BY <2>2, <3>1, <3>2, <3>3
  <2>3. CASE i > m + 1
    <3>1. PICK k : k = i - m
      OBVIOUS
    <3>2. k \in 2..n /\ k - 1 \in 1..n /\ k \in 1..n /\ m + (k - 1) = i - 1 /\ m + k = i
      BY <1>2, <2>3, <3>1
    <3>3. x[k - 1] < x[k]
      BY <1>1, <3>2 DEF Rises
    <3>4. y[m + (k - 1)] = x[k - 1] /\ y[m + k] = x[k]
      BY <1>6a, <3>2
    <3>5. QED
      BY <3>2, <3>3, <3>4
  <2>4. QED
    BY <1>2, <2>1, <2>2, <2>3
<1>8. Rises(y)
  BY <1>4, <1>7 DEF Rises
<1>9. Elems(y) = Elems(s) \cup Elems(x)
  <2>1. ASSUME NEW v \in Elems(y)
        PROVE  v \in Elems(s) \/ v \in Elems(x)
    <3>1. PICK i \in 1..(m + n) : v = y[i]
      BY <1>4, <2>1 DEF Elems
    <3>2. CASE i <= m
      <4>1. i \in 1..m
        BY <1>2, <3>2
      <4>2. QED
        BY <1>1, <1>5, <3>1, <4>1 DEF Elems
    <3>3. CASE ~(i <= m)
      <4>1. i \in (m + 1)..(m + n) /\ i - m \in 1..n
        BY <1>2, <3>3
      <4>2. QED
        BY <1>1, <1>6, <3>1, <4>1 DEF Elems
    <3>4. QED
      BY <3>2, <3>3
  <2>2. ASSUME NEW v \in Elems(s)
        PROVE  v \in Elems(y)
    <3>1. PICK i \in 1..m : v = s[i]
      BY <1>1, <2>2 DEF Elems
    <3>2. i \in 1..Len(y) /\ y[i] = v
      BY <1>2, <1>4, <1>5, <3>1
    <3>3. QED
      BY <3>2 DEF Elems
  <2>3. ASSUME NEW v \in Elems(x)
        PROVE  v \in Elems(y)
    <3>1. PICK i \in 1..n : v = x[i]
      BY <1>1, <2>3 DEF Elems
    <3>2. m + i \in 1..Len(y) /\ y[m + i] = v
      BY <1>2, <1>4, <1>6a, <3>1
    <3>3. QED
      BY <3>2 DEF Elems
  <2>4. QED
    BY <2>1, <2>2, <2>3
<1>10. y[m + n] = x[n]
  BY <1>2, <1>6a
<1>11. QED
  BY <1>1, <1>2, <1>3, <1>4, <1>8, <1>9, <1>10

\* The nodes a list's entries name, up to one of them.
Named(e, i) == IF e[i].range THEN (e[i - 1].val + 1)..e[i].val ELSE {e[i].val}
NamedTo(e, m) == UNION {Named(e, i) : i \in 1..m}

\* One entry more names its nodes.
LEMMA NamedNext ==
  ASSUME NEW e, NEW m \in Nat
  PROVE  NamedTo(e, m + 1) = NamedTo(e, m) \cup Named(e, m + 1)
<1> HIDE DEF Named
<1>1. 1..(m + 1) = (1..m) \cup {m + 1}
  OBVIOUS
<1>2. QED
  BY <1>1 DEF NamedTo

\* The list is well formed.
Ascends(q) ==
  /\ Len(q.entries) > 1 /\ q.broken = 0
  /\ q.entries[1].val > 0 /\ ~q.entries[1].range
  /\ \A i \in 2..Len(q.entries) : q.entries[i - 1].val < q.entries[i].val

\* What of it has been read.
ReadTo(st, e, m) ==
  /\ st \in ConnState /\ st.ret = "ok" /\ st.nulls = 0
  /\ st.prev = e[m].val /\ e[m].val > 0
  /\ Elems(st.list) = NamedTo(e, m) /\ Rises(st.list)
  /\ Len(st.list) > 0 /\ st.list[Len(st.list)] = e[m].val

\* After node p, x lists what entry e names.
Adds(p, e, x) ==
  /\ x \in Seq(Nat) /\ Len(x) > 0 /\ Rises(x) /\ p < x[1] /\ x[Len(x)] = e.val
  /\ Elems(x) = IF e.range THEN (p + 1)..e.val ELSE {e.val}

\* An entry adds what it names.
LEMMA AddsNamed ==
  ASSUME NEW p \in Nat, NEW e, e.val \in Nat, e.range \in BOOLEAN, p < e.val,
         NEW x, x = Expand(p, e)
  PROVE  Adds(p, e, x)
<1>1. CASE ~e.range
  <2>1. x = <<e.val>>
    BY <1>1 DEF Expand
  <2>2. x \in Seq(Nat) /\ Len(x) = 1 /\ x[1] = e.val
    BY <2>1
  <2>3. Rises(x) /\ Elems(x) = {e.val}
    BY <2>2 DEF Rises, Elems
  <2>4. QED
    BY <1>1, <2>2, <2>3 DEF Adds
<1>2. CASE e.range
  <2>1. PICK n : n = e.val - p
    OBVIOUS
  <2>2. n \in Nat /\ n > 0 /\ p + n = e.val
    BY <2>1
  <2>3. x = [i \in 1..n |-> p + i]
    BY <1>2, <2>1 DEF Expand
  <2>4. x \in Seq(Nat) /\ Len(x) = n /\ \A i \in 1..n : x[i] = p + i
    BY <2>2, <2>3, SeqDef
  <2>5. 1 \in 1..n /\ n \in 1..n
    BY <2>2
  <2>6. p < x[1] /\ x[n] = e.val
    BY <2>2, <2>4, <2>5
  <2>7. Rises(x)
    <3> SUFFICES ASSUME NEW i \in 2..n PROVE x[i - 1] < x[i]
      BY <2>4 DEF Rises
    <3>1. i - 1 \in 1..n /\ i \in 1..n
      BY <2>2
    <3>2. x[i - 1] = p + (i - 1) /\ x[i] = p + i
      BY <2>4, <3>1
    <3>3. QED
      BY <3>2
  <2>8. Elems(x) = (p + 1)..e.val
    <3>1. ASSUME NEW v \in Elems(x) PROVE v \in (p + 1)..e.val
      <4>1. PICK i \in 1..n : v = x[i]
        BY <2>4 DEF Elems
      <4>2. v = p + i
        BY <2>4, <4>1
      <4>3. QED
        BY <2>2, <4>2
    <3>2. ASSUME NEW v \in (p + 1)..e.val PROVE v \in Elems(x)
      <4>1. v - p \in 1..n
        BY <2>2
      <4>2. x[v - p] = v
        BY <2>4, <4>1
      <4>3. QED
        BY <2>4, <4>1, <4>2 DEF Elems
    <3>3. QED
      BY <3>1, <3>2
  <2>9. QED
    BY <1>2, <2>2, <2>4, <2>6, <2>7, <2>8 DEF Adds
<1>3. QED
  BY <1>1, <1>2

\* No verb fails, so a turn that may go on does.
GoesOn(st, e) == [list |-> st.list \o Expand(st.prev, e), prev |-> e.val, nulls |-> 0, ret |-> "ok"]

\* The entry is added.
LEMMA TurnGoesOn ==
  ASSUME NEW q, ConnAsk(q), Ascends(q), NEW st \in ConnState, st.ret = "ok", st.nulls = 0,
         NEW k \in 1..Len(q.entries), q.entries[k].val > 0, ~BadRange(st.prev, q.entries[k])
  PROVE  Turned(st, q, CountOnly, k) = GoesOn(st, q.entries[k])
<1>0. PICK e, x : e = q.entries[k] /\ x = Expand(st.prev, e)
  OBVIOUS
<1>1. Len(q.entries) \in Nat /\ e.val \in Nat
  BY <1>0, AskedEntry DEF ConnAsk
<1>2. q.broken = 0
  BY Zenon DEF Ascends
<1>3. ~(0 \in k..(k + 1)) /\ ~(0 \in k..(k + 3))
  BY <1>1
<1>4. ~Fails(q.long, q.broken, k)
  BY <1>2, <1>3 DEF Fails
<1>5. ~(e.val = 0 /\ st.nulls > 0) /\ st.nulls + (IF e.val = 0 THEN 1 ELSE 0) = 0
  BY <1>0, <1>1
<1>6. HasRoom(st, x, CountOnly)
  BY DEF HasRoom
<1>7. QED
  BY <1>0, <1>4, <1>5, <1>6, Zenon DEF Turned, ConnEntry, GoesOn

\* The first entry of a well-formed list is its node.
LEMMA ReadsFirst ==
  ASSUME NEW q, ConnAsk(q), Ascends(q)
  PROVE  ReadTo(Turned(ConnStart, q, CountOnly, 1), q.entries, 1)
<1>1. PICK e : e = q.entries[1]
  OBVIOUS
<1>2. 1 \in 1..Len(q.entries) /\ e.val > 0 /\ ~e.range
  BY <1>1 DEF ConnAsk, Ascends
<1>3. e.val \in Nat
  BY <1>1, <1>2, AskedEntry
<1>4. /\ ConnStart \in ConnState /\ ConnStart.ret = "ok" /\ ConnStart.nulls = 0
      /\ ConnStart.prev = 0 /\ ConnStart.list = <<>>
  BY DEF ConnStart, ConnState
<1>5. Expand(ConnStart.prev, e) = <<e.val>> /\ ~BadRange(ConnStart.prev, e)
  BY <1>2, Zenon DEF Expand, BadRange
<1>6. PICK r : r = Turned(ConnStart, q, CountOnly, 1)
  OBVIOUS
<1>7. r = [list |-> ConnStart.list \o <<e.val>>, prev |-> e.val, nulls |-> 0, ret |-> "ok"]
  <2>1. r = GoesOn(ConnStart, q.entries[1])
    BY <1>1, <1>2, <1>4, <1>5, <1>6, TurnGoesOn, Zenon
  <2>2. QED
    BY <1>1, <1>5, <2>1, Zenon DEF GoesOn
<1>8. r.list = <<e.val>> /\ r.prev = e.val /\ r.nulls = 0 /\ r.ret = "ok" /\ r \in ConnState
  BY <1>3, <1>4, <1>7 DEF ConnState
<1>9. Len(r.list) = 1 /\ r.list[1] = e.val
  BY <1>8
<1>10. Rises(r.list) /\ Elems(r.list) = {e.val}
  BY <1>9 DEF Rises, Elems
<1>11. NamedTo(q.entries, 1) = {e.val}
  <2>1. Named(q.entries, 1) = {e.val} /\ 1..1 = {1}
    BY <1>1, <1>2 DEF Named
  <2>2. QED
    BY <2>1, Zenon DEF NamedTo
<1>12. /\ r.ret = "ok" /\ r.nulls = 0 /\ r.prev = q.entries[1].val /\ q.entries[1].val > 0
       /\ Len(r.list) > 0 /\ r.list[Len(r.list)] = q.entries[1].val
  BY <1>1, <1>2, <1>8, <1>9
<1>13. ReadTo(r, q.entries, 1)
  BY <1>8, <1>10, <1>11, <1>12, Zenon DEF ReadTo
<1>14. QED
  BY <1>6, <1>13, Zenon

\* The next one adds what it names.
LEMMA ReadsNext ==
  ASSUME NEW q, ConnAsk(q), Ascends(q), NEW m \in Nat, m > 0, m + 1 \in 1..Len(q.entries),
         NEW st, ReadTo(st, q.entries, m)
  PROVE  ReadTo(Turned(st, q, CountOnly, m + 1), q.entries, m + 1)
<1>1. PICK e, d, k : e = q.entries[k] /\ d = q.entries[m] /\ k = m + 1
  OBVIOUS
<1>2. k \in 1..Len(q.entries) /\ k \in 2..Len(q.entries) /\ m \in 1..Len(q.entries) /\ k - 1 = m
  BY <1>1 DEF ConnAsk
<1>3. e.val \in Nat /\ e.range \in BOOLEAN /\ d.val \in Nat
  BY <1>1, <1>2, AskedEntry
<1>4. d.val < e.val
  BY <1>1, <1>2 DEF Ascends
<1>5. st \in ConnState /\ st.ret = "ok" /\ st.nulls = 0 /\ st.prev = d.val /\ d.val > 0
  BY <1>1, Zenon DEF ReadTo
<1>6. e.val > 0 /\ ~BadRange(st.prev, e)
  BY <1>3, <1>4, <1>5 DEF BadRange
<1>7. PICK x : x = Expand(st.prev, e)
  OBVIOUS
<1>8. /\ x \in Seq(Nat) /\ Len(x) > 0 /\ Rises(x) /\ d.val < x[1] /\ x[Len(x)] = e.val
      /\ Elems(x) = IF e.range THEN (d.val + 1)..e.val ELSE {e.val}
  <2>1. x = Expand(d.val, e)
    BY <1>5, <1>7, Zenon
  <2>2. Adds(d.val, e, x)
    BY <1>3, <1>4, <2>1, AddsNamed, Zenon
  <2>3. QED
    BY <2>2, Zenon DEF Adds
<1>9. PICK r : r = Turned(st, q, CountOnly, k)
  OBVIOUS
<1>10. r = [list |-> st.list \o x, prev |-> e.val, nulls |-> 0, ret |-> "ok"]
  <2>1. st \in ConnState /\ st.ret = "ok" /\ st.nulls = 0
    BY <1>5, Zenon
  <2>2. k \in 1..Len(q.entries) /\ e = q.entries[k] /\ e.val > 0 /\ ~BadRange(st.prev, e)
    BY <1>1, <1>2, <1>6, Zenon
  <2>3. Turned(st, q, CountOnly, k) = GoesOn(st, e)
    BY <2>1, <2>2, TurnGoesOn, Zenon
  <2>4. QED
    BY <1>7, <1>9, <2>3, Zenon DEF GoesOn
<1>11. PICK s : s = st.list
  OBVIOUS
<1>12. /\ s \in Seq(Nat) /\ Rises(s) /\ Len(s) > 0 /\ s[Len(s)] = d.val
       /\ Elems(s) = NamedTo(q.entries, m)
  BY <1>1, <1>5, <1>11 DEF ReadTo, ConnState
<1>13. s \o x \in Seq(Nat)
  BY <1>8, <1>12
<1>14. r.list = s \o x /\ r.prev = e.val /\ r.nulls = 0 /\ r.ret = "ok"
  BY <1>10, <1>11
<1>15. r \in ConnState
  BY <1>3, <1>10, <1>11, <1>13 DEF ConnState
<1>16. s[Len(s)] < x[1]
  BY <1>8, <1>12, Zenon
<1>17. /\ Rises(s \o x) /\ Elems(s \o x) = Elems(s) \cup Elems(x)
       /\ Len(s \o x) > 0 /\ (s \o x)[Len(s \o x)] = x[Len(x)]
  BY <1>8, <1>12, <1>16, RisesOn
<1>18. Elems(x) = Named(q.entries, k)
  BY <1>1, <1>2, <1>8, Zenon DEF Named
<1>19. Elems(r.list) = NamedTo(q.entries, m + 1)
  BY <1>1, <1>12, <1>14, <1>17, <1>18, NamedNext
<1>20. ReadTo(r, q.entries, m + 1)
  BY <1>1, <1>6, <1>8, <1>14, <1>15, <1>17, <1>19, Zenon DEF ReadTo
<1>21. QED
  BY <1>1, <1>9, <1>20

\* So every turn has read its entries.
LEMMA ReadsAll ==
  ASSUME NEW q, ConnAsk(q), Ascends(q), NEW g, IsRead(g, q, CountOnly, Len(q.entries)),
         NEW i \in 1..Len(q.entries)
  PROVE  ReadTo(g[i], q.entries, i)
<1> DEFINE Bad == {k \in 1..Len(q.entries) : ~ReadTo(g[k], q.entries, k)}
<1>1. PICK n : n = Len(q.entries)
  OBVIOUS
<1>2. n \in Nat /\ IsRead(g, q, CountOnly, n)
  BY <1>1 DEF ConnAsk
<1>3. Bad \subseteq Nat
  BY <1>1, <1>2
<1>4. SUFFICES ASSUME Bad # {} PROVE FALSE
  BY Zenon
<1>5. PICK k \in Bad : \A x \in Bad : k <= x
  BY <1>3, <1>4, LeastStream, Zenon
<1>6. k \in 1..n /\ ~ReadTo(g[k], q.entries, k)
  BY <1>1, <1>5
<1>7. k \in 0..n /\ k # 0
  BY <1>2, <1>6
<1>8. g[k] = Turned(g[k - 1], q, CountOnly, k)
  BY <1>2, <1>7, ReadStep
<1>9. CASE k = 1
  <2>1. g[0] = ConnStart /\ k - 1 = 0
    BY <1>2, <1>9, ReadStart
  <2>2. QED
    BY <1>6, <1>8, <1>9, <2>1, ReadsFirst, Zenon
<1>10. CASE k # 1
  <2>1. PICK j : j = k - 1
    OBVIOUS
  <2>2. j \in 1..n /\ j \in Nat /\ j > 0 /\ ~(k <= j) /\ j + 1 = k /\ j + 1 \in 1..Len(q.entries)
    BY <1>1, <1>2, <1>6, <1>10, <2>1
  <2>3. ReadTo(g[j], q.entries, j)
    BY <1>1, <1>5, <2>2, Zenon
  <2>4. ReadTo(Turned(g[j], q, CountOnly, j + 1), q.entries, j + 1)
    BY <2>2, <2>3, ReadsNext
  <2>5. QED
    BY <1>6, <1>8, <2>1, <2>2, <2>4, Zenon
<1>11. QED
  BY <1>9, <1>10

\* A list that ascends is read as what it says.
LEMMA AscendingRead ==
  ASSUME NEW q, ConnAsk(q), Ascends(q),
         NEW c, c = Connections(q.entries, q.long, q.broken, CountOnly)
  PROVE  c.ret = "ok" /\ Elems(c.list) = NamedTo(q.entries, Len(q.entries)) /\ Rises(c.list)
<1>1. PICK n : n = Len(q.entries)
  OBVIOUS
<1>2. n \in 1..n /\ n # 1
  BY <1>1 DEF ConnAsk, Ascends
<1>3. PICK g : IsRead(g, q, CountOnly, n) /\ c = Closed(g, q)
  BY <1>1, ConnectionsRead, Zenon
<1>4. ReadTo(g[n], q.entries, n)
  BY <1>1, <1>2, <1>3, ReadsAll
<1>5. PICK x : x = g[n]
  OBVIOUS
<1>6. x.ret = "ok" /\ Elems(x.list) = NamedTo(q.entries, n) /\ Rises(x.list)
  BY <1>4, <1>5, Zenon DEF ReadTo
<1>7. c = [ret |-> x.ret, list |-> IF x.ret = "ok" THEN x.list ELSE <<>>]
  BY <1>1, <1>2, <1>3, <1>5, Zenon DEF Closed
<1>8. c.ret = "ok" /\ c.list = x.list
  BY <1>6, <1>7
<1>9. QED
  BY <1>1, <1>6, <1>8, Zenon

-----------------------------------------------------------------------------
(* HdaQueries: what a codec makes of verbs.                                *)

\* One verb after the other.
TakeBody(g, verbs, i) == IF i = 0 THEN CodecReset ELSE CodecTakes(g[i - 1], verbs[i])
IsTaken(g, verbs, m) == g = [i \in 0..m |-> TakeBody(g, verbs, i)]
TakenDefined(verbs, m) == \E g : IsTaken(g, verbs, m)

\* There is such a loop.
LEMMA VerbRecursion ==
  ASSUME NEW verbs, NEW m \in Nat
  PROVE  TakenDefined(verbs, m)
<1> DEFINE Bad == {k \in Nat : ~TakenDefined(verbs, k)}
<1>1. SUFFICES ASSUME Bad # {} PROVE FALSE
  OBVIOUS
<1>2. PICK k \in Bad : \A b \in Bad : k <= b
  BY <1>1, LeastStream
<1>3. k \in Nat /\ ~TakenDefined(verbs, k)
  BY <1>2
<1>4. CASE k = 0
  <2>1. PICK g : g = [i \in 0..0 |-> CodecReset]
    OBVIOUS
  <2>2. g = [i \in 0..0 |-> TakeBody(g, verbs, i)]
    BY <2>1 DEF TakeBody
  <2>3. QED
    BY <1>3, <1>4, <2>2, Zenon DEF TakenDefined, IsTaken
<1>5. CASE k # 0
  <2>1. PICK n : n = k - 1
    OBVIOUS
  <2>2. n \in Nat /\ ~(k <= n) /\ \A i \in 0..k : i # 0 => i - 1 \in 0..n /\ i - 1 \in 0..k
    BY <1>3, <1>5, <2>1
  <2>3. n \notin Bad
    BY <1>2, <2>2, Zenon
  <2>4. PICK h : IsTaken(h, verbs, n)
    BY <2>2, <2>3, Zenon DEF TakenDefined
  <2>5. PICK g : g = [i \in 0..k |-> TakeBody(h, verbs, i)]
    OBVIOUS
  <2>6. ASSUME NEW i \in 0..k
        PROVE  TakeBody(g, verbs, i) = TakeBody(h, verbs, i)
    <3>1. CASE i = 0
      BY <3>1 DEF TakeBody
    <3>2. CASE i # 0
      <4>1. PICK j : j = i - 1
        OBVIOUS
      <4>2. j \in 0..n /\ j \in 0..k
        BY <2>2, <3>2, <4>1
      <4>3. h[j] = TakeBody(h, verbs, j)
        BY <2>4, <4>2, Zenon DEF IsTaken
      <4>4. g[j] = TakeBody(h, verbs, j)
        BY <2>5, <4>2, Zenon
      <4>5. g[i - 1] = h[i - 1]
        BY <4>1, <4>3, <4>4
      <4>6. QED
        BY <4>5, Zenon DEF TakeBody
    <3>3. QED
      BY <3>1, <3>2
  <2>7. g = [i \in 0..k |-> TakeBody(g, verbs, i)]
    BY <2>5, <2>6
  <2>8. QED
    BY <1>3, <2>7, Zenon DEF TakenDefined, IsTaken
<1>6. QED
  BY <1>4, <1>5

\* After each of them the codec is where it takes it.
TakenBy(g, verbs, n, c) ==
  c = g[n] /\ g[0] = CodecReset /\ \A i \in 1..n : g[i] = CodecTakes(g[i - 1], verbs[i])

\* After all of them the codec is where the last one takes it.
LEMMA VerbsTaken ==
  ASSUME NEW verbs, NEW n, n \in Nat, Len(verbs) = n
  PROVE  \E g : TakenBy(g, verbs, n, AfterVerbs(verbs))
<1> DEFINE g == CHOOSE g : g = [i \in 0..Len(verbs) |-> TakeBody(g, verbs, i)]
<1>1. AfterVerbs(verbs) = g[Len(verbs)]
  BY Zenon DEF AfterVerbs, TakeBody
<1>2. TakenDefined(verbs, n)
  BY VerbRecursion
<1>3. IsTaken(g, verbs, n)
  BY <1>2, Zenon DEF TakenDefined, IsTaken
<1> HIDE DEF g
<1>4. PICK h : h = g
  OBVIOUS
<1>5. IsTaken(h, verbs, n) /\ AfterVerbs(verbs) = h[n]
  BY <1>1, <1>3, <1>4, Zenon
<1>6. ASSUME NEW i \in 0..n
      PROVE  h[i] = TakeBody(h, verbs, i)
  BY <1>5, Zenon DEF IsTaken
<1>7. h[0] = CodecReset
  <2>1. 0 \in 0..n
    OBVIOUS
  <2>2. QED
    BY <1>6, <2>1, Zenon DEF TakeBody
<1>8. ASSUME NEW i \in 1..n
      PROVE  h[i] = CodecTakes(h[i - 1], verbs[i])
  <2>1. i \in 0..n /\ i # 0
    OBVIOUS
  <2>2. QED
    BY <1>6, <2>1, Zenon DEF TakeBody
<1>9. QED
  BY <1>5, <1>7, <1>8, Zenon DEF TakenBy

CodecState == [amp : [Sides -> Nat], byte : [1..4 -> Nat], index : Nat, coef : [{1, 2} -> Nat]]

\* A codec after a reset.
LEMMA ResetIs ==
  CodecReset \in CodecState /\ CodecReset.amp = [s \in Sides |-> 0]
  /\ CodecReset.byte = [i \in 1..4 |-> 0] /\ CodecReset.index = 0
BY DEF CodecReset, CodecState, Sides

\* A verb for an amplifier, one for a byte, and the index of a coefficient.
LEMMA AmpTaken ==
  ASSUME NEW c \in CodecState, NEW sides, NEW val \in Nat, NEW d, d = CodecTakes(c, Amp(sides, val))
  PROVE  d \in CodecState /\ d.amp = [s \in Sides |-> IF s \in sides THEN val ELSE c.amp[s]]
<1>1. PICK v : v = Amp(sides, val)
  OBVIOUS
<1>2. v.set = "amp" /\ v.sides = sides /\ v.val = val
  BY <1>1 DEF Amp
<1>3. PICK f : f = [s \in Sides |-> IF s \in sides THEN val ELSE c.amp[s]]
  OBVIOUS
<1>4. f \in [Sides -> Nat]
  BY <1>3 DEF CodecState
<1>5. d = [c EXCEPT !.amp = f]
  <2>1. CodecTakes(c, v) = [c EXCEPT !.amp = [s \in Sides |-> IF s \in v.sides THEN v.val ELSE c.amp[s]]]
    BY <1>2 DEF CodecTakes
  <2>2. QED
    BY <1>1, <1>2, <1>3, <2>1, Zenon
<1>6. d \in CodecState /\ d.amp = f
  BY <1>4, <1>5 DEF CodecState
<1>7. QED
  BY <1>3, <1>6

\* A byte of a control is taken.
LEMMA ByteTaken ==
  ASSUME NEW c \in CodecState, NEW i \in 1..4, NEW val \in Nat, NEW d, d = CodecTakes(c, Byte(i, val))
  PROVE  d \in CodecState /\ d.byte = [c.byte EXCEPT ![i] = val]
<1>1. PICK v : v = Byte(i, val)
  OBVIOUS
<1>2. v.set = "byte" /\ v.i = i /\ v.val = val
  BY <1>1 DEF Byte
<1>3. CodecTakes(c, v) = [c EXCEPT !.byte[v.i] = v.val]
  BY <1>2 DEF CodecTakes
<1>4. d = [c EXCEPT !.byte[i] = val]
  BY <1>1, <1>2, <1>3, Zenon
<1>5. QED
  BY <1>4 DEF CodecState

\* What a register is, by its kind.
LEMMA RegisterIs ==
  ASSUME NEW r \in Registers
  PROVE  /\ r.kind = "stereo" => r.val \in [Sides -> Nat]
         /\ r.kind = "half" => r.side \in Sides /\ r.fake \in BOOLEAN /\ r.val \in Nat
         /\ r.kind = "bytes" => r.bytes \in {1, 2, 4} /\ r.val \in [1..4 -> Nat]
         /\ r.kind = "coef" => r.index \in {1, 2}
         /\ r.kind \in {"stereo", "half", "bytes", "coef"}
<1>1. AmpValues \subseteq Nat
  BY QueriesAssumption
<1>2. CASE r \in [kind : {"stereo"}, val : [Sides -> AmpValues]]
  BY <1>1, <1>2 DEF Sides
<1>3. CASE r \in [kind : {"half"}, side : Sides, fake : BOOLEAN, val : AmpValues]
  BY <1>1, <1>3 DEF Sides
<1>4. CASE r \in [kind : {"bytes"}, bytes : {1, 2, 4}, val : [1..4 -> {0, 1}]]
  BY <1>4
<1>5. CASE r \in [kind : {"coef"}, index : {1, 2}, val : {1}]
  BY <1>5
<1>6. QED
  BY <1>2, <1>3, <1>4, <1>5 DEF Registers

\* A control whose value has arrived.
Arrived(c, r) ==
  CASE r.kind = "stereo" -> c.amp = r.val
    [] r.kind = "half" ->
         c.amp = [s \in Sides |-> IF s # r.side \/ (r.fake /\ r.val >= AmpMute) THEN 0 ELSE r.val]
    [] r.kind = "bytes" -> c.byte = [i \in 1..4 |-> IF i <= r.bytes THEN r.val[i] ELSE 0]
    [] r.kind = "coef" -> c.index = r.index

\* Both halves of an amplifier arrive, in one verb or in two.
LEMMA StereoArrives ==
  ASSUME NEW r \in Registers, r.kind = "stereo", NEW c, c = AfterVerbs(Verbs(r))
  PROVE  c.amp = r.val
<1>1. PICK f : f = r.val
  OBVIOUS
<1>2. f \in [Sides -> Nat] /\ f["left"] \in Nat /\ f["right"] \in Nat /\ Sides = {"left", "right"}
  BY <1>1, RegisterIs DEF Sides
<1>3. CASE f["left"] = f["right"]
  <2>1. Verbs(r) = <<Amp(Sides, f["left"])>>
    BY <1>1, <1>3 DEF Verbs
  <2>2. Len(Verbs(r)) = 1 /\ 1 \in 1..1 /\ Verbs(r)[1] = Amp(Sides, f["left"])
    BY <2>1
  <2>3. PICK g : /\ c = g[1] /\ g[0] = CodecReset
                 /\ \A i \in 1..1 : g[i] = CodecTakes(g[i - 1], Verbs(r)[i])
    <3>1. PICK n : n = 1
      OBVIOUS
    <3>2. n \in Nat /\ Len(Verbs(r)) = n
      BY <2>2, <3>1
    <3>3. \E g : TakenBy(g, Verbs(r), n, AfterVerbs(Verbs(r)))
      BY <3>2, VerbsTaken, Zenon
    <3>4. QED
      BY <3>1, <3>3, Zenon DEF TakenBy
  <2>4. c = CodecTakes(CodecReset, Amp(Sides, f["left"]))
    BY <2>2, <2>3
  <2>5. c.amp = [s \in Sides |-> IF s \in Sides THEN f["left"] ELSE CodecReset.amp[s]]
    BY <1>2, <2>4, AmpTaken, ResetIs
  <2>6. QED
    BY <1>1, <1>2, <1>3, <2>5
<1>4. CASE f["left"] # f["right"]
  <2>1. Verbs(r) = <<Amp({"left"}, f["left"]), Amp({"right"}, f["right"])>>
    BY <1>1, <1>4 DEF Verbs
  <2>2. /\ Len(Verbs(r)) = 2 /\ 1 \in 1..2 /\ 2 \in 1..2
        /\ Verbs(r)[1] = Amp({"left"}, f["left"]) /\ Verbs(r)[2] = Amp({"right"}, f["right"])
    BY <2>1
  <2>3. PICK g : /\ c = g[2] /\ g[0] = CodecReset
                 /\ \A i \in 1..2 : g[i] = CodecTakes(g[i - 1], Verbs(r)[i])
    <3>1. PICK n : n = 2
      OBVIOUS
    <3>2. n \in Nat /\ Len(Verbs(r)) = n
      BY <2>2, <3>1
    <3>3. \E g : TakenBy(g, Verbs(r), n, AfterVerbs(Verbs(r)))
      BY <3>2, VerbsTaken, Zenon
    <3>4. QED
      BY <3>1, <3>3, Zenon DEF TakenBy
  <2>4. PICK d : d = g[1]
    OBVIOUS
  <2>5. d = CodecTakes(CodecReset, Amp({"left"}, f["left"])) /\ c = CodecTakes(d, Amp({"right"}, f["right"]))
    BY <2>2, <2>3, <2>4
  <2>6. d \in CodecState /\ d.amp = [s \in Sides |-> IF s \in {"left"} THEN f["left"] ELSE CodecReset.amp[s]]
    BY <1>2, <2>5, AmpTaken, ResetIs
  <2>7. c.amp = [s \in Sides |-> IF s \in {"right"} THEN f["right"] ELSE d.amp[s]]
    BY <1>2, <2>5, <2>6, AmpTaken
  <2>8. QED
    BY <1>1, <1>2, <2>6, <2>7
<1>5. QED
  BY <1>3, <1>4

\* One half arrives alone, a fake mute as gain 0.
LEMMA HalfArrives ==
  ASSUME NEW r \in Registers, r.kind = "half", NEW c, c = AfterVerbs(Verbs(r))
  PROVE  c.amp = [s \in Sides |-> IF s # r.side \/ (r.fake /\ r.val >= AmpMute) THEN 0 ELSE r.val]
<1>1. PICK x, v : x = r.side /\ v = IF r.fake /\ r.val >= AmpMute THEN 0 ELSE r.val
  OBVIOUS
<1>2. x \in Sides /\ v \in Nat
  BY <1>1, RegisterIs
<1>3. Verbs(r) = <<Amp({x}, v)>>
  BY <1>1 DEF Verbs
<1>4. Len(Verbs(r)) = 1 /\ 1 \in 1..1 /\ Verbs(r)[1] = Amp({x}, v)
  BY <1>3
<1>5. PICK g : /\ c = g[1] /\ g[0] = CodecReset
               /\ \A i \in 1..1 : g[i] = CodecTakes(g[i - 1], Verbs(r)[i])
  <2>1. PICK n : n = 1
    OBVIOUS
  <2>2. n \in Nat /\ Len(Verbs(r)) = n
    BY <1>4, <2>1
  <2>3. \E g : TakenBy(g, Verbs(r), n, AfterVerbs(Verbs(r)))
    BY <2>2, VerbsTaken, Zenon
  <2>4. QED
    BY <2>1, <2>3, Zenon DEF TakenBy
<1>6. c = CodecTakes(CodecReset, Amp({x}, v))
  BY <1>4, <1>5
<1>7. c.amp = [s \in Sides |-> IF s \in {x} THEN v ELSE CodecReset.amp[s]]
  BY <1>2, <1>6, AmpTaken, ResetIs
<1>8. QED
  BY <1>1, <1>7, ResetIs

\* The bytes of a control arrive one after the other.
LEMMA BytesArrive ==
  ASSUME NEW r \in Registers, r.kind = "bytes", NEW c, c = AfterVerbs(Verbs(r))
  PROVE  c.byte = [i \in 1..4 |-> IF i <= r.bytes THEN r.val[i] ELSE 0]
<1>1. PICK n, val : n = r.bytes /\ val = r.val
  OBVIOUS
<1>2. n \in {1, 2, 4} /\ val \in [1..4 -> Nat]
  BY <1>1, RegisterIs
<1>3. Verbs(r) = [i \in 1..n |-> Byte(i, val[i])]
  BY <1>1 DEF Verbs
<1>4. Len(Verbs(r)) = n /\ n \in Nat /\ \A i \in 1..n : Verbs(r)[i] = Byte(i, val[i])
  BY <1>2, <1>3
<1>5. PICK g : /\ c = g[n] /\ g[0] = CodecReset
               /\ \A i \in 1..n : g[i] = CodecTakes(g[i - 1], Verbs(r)[i])
  <2>1. \E g : TakenBy(g, Verbs(r), n, AfterVerbs(Verbs(r)))
    BY <1>4, VerbsTaken, Zenon
  <2>2. QED
    BY <2>1, Zenon DEF TakenBy
<1> DEFINE Done(k) == g[k] \in CodecState
                      /\ g[k].byte = [i \in 1..4 |-> IF i <= k THEN val[i] ELSE 0]
<1>6. Done(0)
  BY <1>2, <1>5, ResetIs
<1>7. ASSUME NEW k \in 1..4, k \in 1..n, Done(k - 1)
      PROVE  Done(k)
  <2>1. PICK a, b : a = g[k - 1] /\ b = g[k]
    OBVIOUS
  <2>2. b = CodecTakes(a, Byte(k, val[k])) /\ val[k] \in Nat
    BY <1>2, <1>4, <1>5, <1>7, <2>1
  <2>3. b \in CodecState /\ b.byte = [a.byte EXCEPT ![k] = val[k]]
    BY <1>7, <2>1, <2>2, ByteTaken
  <2>4. a.byte = [i \in 1..4 |-> IF i <= k - 1 THEN val[i] ELSE 0]
    BY <1>7, <2>1
  <2>5. b.byte = [i \in 1..4 |-> IF i <= k THEN val[i] ELSE 0]
    BY <2>3, <2>4
  <2>6. QED
    BY <2>1, <2>3, <2>5
<1> HIDE DEF Done
<1>8. Done(1)
  BY <1>2, <1>6, <1>7
<1>9. n \in {2, 4} => Done(2)
  BY <1>7, <1>8
<1>10. n = 4 => Done(3)
  BY <1>7, <1>9
<1>11. n = 4 => Done(4)
  BY <1>7, <1>10
<1>12. Done(n)
  BY <1>2, <1>8, <1>9, <1>11
<1>13. QED
  BY <1>1, <1>5, <1>12 DEF Done

\* The index of a coefficient arrives.
LEMMA CoefArrives ==
  ASSUME NEW r \in Registers, r.kind = "coef", NEW c, c = AfterVerbs(Verbs(r))
  PROVE  c.index = r.index
<1>1. PICK v, w : v = [set |-> "coef index", val |-> r.index] /\ w = [set |-> "get coef index", val |-> r.val]
  OBVIOUS
<1>2. Verbs(r) = <<v, w>>
  BY <1>1 DEF Verbs
<1>3. Len(Verbs(r)) = 2 /\ 1 \in 1..2 /\ 2 \in 1..2 /\ Verbs(r)[1] = v /\ Verbs(r)[2] = w
  BY <1>2
<1>4. PICK g : /\ c = g[2] /\ g[0] = CodecReset
               /\ \A i \in 1..2 : g[i] = CodecTakes(g[i - 1], Verbs(r)[i])
  <2>1. PICK n : n = 2
    OBVIOUS
  <2>2. n \in Nat /\ Len(Verbs(r)) = n
    BY <1>3, <2>1
  <2>3. \E g : TakenBy(g, Verbs(r), n, AfterVerbs(Verbs(r)))
    BY <2>2, VerbsTaken, Zenon
  <2>4. QED
    BY <2>1, <2>3, Zenon DEF TakenBy
<1>5. PICK d : d = CodecTakes(CodecReset, v)
  OBVIOUS
<1>6. c = CodecTakes(d, w)
  BY <1>3, <1>4, <1>5
<1>7. v.set = "coef index" /\ v.val = r.index /\ w.set = "get coef index"
  BY <1>1
<1>8. d = [CodecReset EXCEPT !.index = v.val]
  BY <1>5, <1>7 DEF CodecTakes
<1>9. c = d
  BY <1>6, <1>7 DEF CodecTakes
<1>10. QED
  BY <1>7, <1>8, <1>9 DEF CodecReset

\* Every register's value arrives.
LEMMA ValueArrives ==
  ASSUME NEW r \in Registers, NEW c, c = AfterVerbs(Verbs(r))
  PROVE  Arrived(c, r)
<1>1. r.kind \in {"stereo", "half", "bytes", "coef"}
  BY RegisterIs
<1>2. CASE r.kind = "stereo"
  BY <1>2, StereoArrives DEF Arrived
<1>3. CASE r.kind = "half"
  BY <1>3, HalfArrives DEF Arrived
<1>4. CASE r.kind = "bytes"
  BY <1>4, BytesArrive DEF Arrived
<1>5. CASE r.kind = "coef"
  BY <1>5, CoefArrives DEF Arrived
<1>6. QED
  BY <1>1, <1>2, <1>3, <1>4, <1>5

-----------------------------------------------------------------------------
(* HdaQueries: formats.                                                    *)

\* The table, row by row.
LEMMA RateTableIs ==
  /\ RateTable[0] = 8000 /\ RateTable[1] = 11025 /\ RateTable[2] = 16000 /\ RateTable[3] = 22050
  /\ RateTable[4] = 32000 /\ RateTable[5] = 44100 /\ RateTable[6] = 48000 /\ RateTable[7] = 88200
  /\ RateTable[8] = 96000 /\ RateTable[9] = 176400 /\ RateTable[10] = 192000 /\ RateTable[11] = 9600
BY DEF RateTable

\* No rate is in it twice.
LEMMA RateIndex ==
  ASSUME NEW i \in 0..10
  PROVE  RateIndexes(RateTable[i]) = {i}
<1>1. \A j \in 0..11 : j \in {0, 1, 2, 3, 4, 5, 6, 7, 8, 9, 10, 11}
  OBVIOUS
<1>2. i \in {0, 1, 2, 3, 4, 5, 6, 7, 8, 9, 10} /\ i \in 0..11
  OBVIOUS
<1>3. ASSUME NEW j \in 0..11, RateTable[j] = RateTable[i]
      PROVE  j = i
  BY <1>1, <1>2, <1>3, RateTableIs
<1>4. QED
  BY <1>2, <1>3 DEF RateIndexes

\* A question about formats, and what the node or the group says.
PcmAsk(q) ==
  /\ q.pcm \in PcmChoices /\ q.afgPcm \in {NoPcm, [rates |-> {6}, bits |-> {16}]}
  /\ q.streams \in SUBSET {"pcm", "ac3"} /\ q.afgStreams \in {{}, {"pcm"}}

\* What is said of rates and widths is in the tables.
LEMMA PcmSaid ==
  ASSUME NEW q, PcmAsk(q)
  PROVE  /\ QueryPcm(q).rates \subseteq 0..10 /\ QueryPcm(q).bits \subseteq Widths
         /\ QueryStream(q) \subseteq {"pcm", "ac3"}
         /\ QueryPcm(q).rates # {} => QueryPcm(q) # NoPcm
<1>1. NoPcm.rates = {} /\ NoPcm.bits = {}
  BY DEF NoPcm
<1>2. q.pcm.rates \subseteq 0..10 /\ q.pcm.bits \subseteq Widths
  BY QueriesAssumption DEF PcmAsk, PcmChoices
<1>3. q.afgPcm.rates \subseteq 0..10 /\ q.afgPcm.bits \subseteq Widths
  BY <1>1 DEF PcmAsk, Widths
<1>4. QueryPcm(q) = q.pcm \/ QueryPcm(q) = q.afgPcm
  BY Zenon DEF QueryPcm
<1>5. QueryStream(q) \subseteq {"pcm", "ac3"}
  BY DEF QueryStream, PcmAsk
<1>6. QED
  BY <1>1, <1>2, <1>3, <1>4, <1>5

\* The widest format of a list.
Widest(wide, b) == b \in wide /\ \A a \in wide : a <= b

\* A list of widths has a widest.
LEMMA WidestIs ==
  ASSUME NEW wide, wide \subseteq Widths, wide # {}
  PROVE  Widest(wide, CHOOSE b \in wide : \A a \in wide : a <= b)
<1>1. \E b \in wide : \A a \in wide : a <= b
  <2>1. CASE 32 \in wide
    BY <2>1 DEF Widths
  <2>2. CASE 32 \notin wide /\ 24 \in wide
    BY <2>2 DEF Widths
  <2>3. CASE 32 \notin wide /\ 24 \notin wide /\ 20 \in wide
    BY <2>3 DEF Widths
  <2>4. CASE 32 \notin wide /\ 24 \notin wide /\ 20 \notin wide /\ 16 \in wide
    BY <2>4 DEF Widths
  <2>5. CASE 32 \notin wide /\ 24 \notin wide /\ 20 \notin wide /\ 16 \notin wide
    <3>1. wide = {8}
      BY <2>5 DEF Widths
    <3>2. QED
      BY <3>1
  <2>6. QED
    BY <2>1, <2>2, <2>3, <2>4, <2>5
<1>2. QED
  BY <1>1, Zenon DEF Widest

\* The width a program's format asks for is one the codec has.
LEMMA OfferedWidth ==
  ASSUME NEW bits, bits \subseteq Widths, NEW digital \in BOOLEAN,
         NEW p, p = PcmFormats(bits, digital), NEW f \in p.formats,
         NEW sub, sub = "STD" \/ (f = "S32" /\ sub \in p.subformats)
  PROVE  FormatBits(f, sub, p.bps) \in bits
<1>1. PICK wide : wide = bits \ (IF digital THEN {32} ELSE {})
  OBVIOUS
<1>2. wide \subseteq bits /\ wide \subseteq Widths
  BY <1>1
<1>3. PICK bps : bps = p.bps
  OBVIOUS
<1>4. /\ p.formats = {IF b = 8 THEN "U8" ELSE IF b = 16 THEN "S16" ELSE "S32" : b \in wide}
                     \cup (IF digital /\ 32 \in bits THEN {"IEC958"} ELSE {})
      /\ p.subformats = {IF b = 20 THEN "MSBITS_20" ELSE IF b = 24 THEN "MSBITS_24" ELSE "MSBITS_MAX" :
                           b \in wide \ {8, 16}}
      /\ p.bps = IF wide = {} THEN 0 ELSE CHOOSE b \in wide : \A a \in wide : a <= b
  BY <1>1 DEF PcmFormats
<1>5. wide # {} => Widest(wide, bps)
  BY <1>2, <1>3, <1>4, WidestIs
<1>6. wide = {} => bps = 0
  BY <1>3, <1>4
<1>7. bps # 0 => bps \in wide /\ \A a \in wide : a <= bps
  BY <1>5, <1>6 DEF Widest
<1>8. wide # {} => bps # 0
  BY <1>2, <1>5 DEF Widest, Widths
<1>9. bps \in {0, 8, 16, 20, 24, 32}
  BY <1>2, <1>6, <1>7 DEF Widths
<1>10. \/ f = "U8" /\ 8 \in wide
       \/ f = "S16" /\ 16 \in wide
       \/ f = "S32" /\ \E b \in wide : b # 8 /\ b # 16
       \/ f = "IEC958" /\ 32 \in bits
  BY <1>4
<1>11. CASE f = "U8" /\ 8 \in wide
  <2>1. FormatBits(f, sub, bps) = 8
    BY <1>7, <1>8, <1>9, <1>11 DEF FormatBits
  <2>2. QED
    BY <1>2, <1>3, <1>11, <2>1
<1>12. CASE f = "S16" /\ 16 \in wide
  <2>1. FormatBits(f, sub, bps) = 16
    BY <1>7, <1>8, <1>9, <1>12 DEF FormatBits
  <2>2. QED
    BY <1>2, <1>3, <1>12, <2>1
<1>13. CASE f = "IEC958" /\ 32 \in bits
  <2>1. FormatBits(f, sub, bps) = IF bps # 0 /\ bps < 32 THEN bps ELSE 32
    BY <1>13 DEF FormatBits
  <2>2. QED
    BY <1>2, <1>3, <1>7, <1>13, <2>1
<1>14. CASE f = "S32" /\ \E b \in wide : b # 8 /\ b # 16
  <2>1. bps \in {20, 24, 32} /\ bps \in wide
    <3>1. PICK b \in wide : b # 8 /\ b # 16
      BY <1>14
    <3>2. b \in {20, 24, 32}
      BY <1>2, <3>1 DEF Widths
    <3>3. b <= bps /\ bps \in wide
      BY <1>7, <1>8, <3>1
    <3>4. QED
      BY <1>9, <3>2, <3>3
  <2>2. CASE sub = "MSBITS_20"
    <3>1. 20 \in wide
      BY <1>4, <2>2
    <3>2. FormatBits(f, sub, bps) = 20
      BY <1>14, <2>1, <2>2 DEF FormatBits
    <3>3. QED
      BY <1>2, <1>3, <3>1, <3>2
  <2>3. CASE sub = "MSBITS_24"
    <3>1. 24 \in wide
      BY <1>4, <2>3
    <3>2. 24 <= bps
      BY <1>7, <2>1, <3>1
    <3>3. FormatBits(f, sub, bps) = 24
      BY <1>14, <2>1, <2>3, <3>2 DEF FormatBits
    <3>4. QED
      BY <1>2, <1>3, <3>1, <3>3
  <2>4. CASE sub \notin {"MSBITS_20", "MSBITS_24"}
    <3>1. FormatBits(f, sub, bps) = bps
      BY <1>14, <2>1, <2>4 DEF FormatBits
    <3>2. QED
      BY <1>2, <1>3, <2>1, <3>1
  <2>5. QED
    BY <2>2, <2>3, <2>4
<1>15. QED
  BY <1>10, <1>11, <1>12, <1>13, <1>14

\* A stream format that is made of a rate of the table and a width.
MadeOf(fmt, i, bits, no) == fmt.rate = i /\ fmt.bits = bits /\ fmt.nonPcm = no

\* The format has the rate, the width and the kind it is made of.
LEMMA FormatMade ==
  ASSUME NEW i \in 0..10, NEW bits \in Widths, NEW no
  PROVE  MadeOf(StreamFormat(2, bits, RateTable[i], no), i, bits, no)
<1>0. PICK fmt : fmt = StreamFormat(2, bits, RateTable[i], no)
  OBVIOUS
<1>1. PICK hz : hz = RateTable[i]
  OBVIOUS
<1>2. RateIndexes(hz) = {i}
  BY <1>1, RateIndex
<1>3. (CHOOSE k \in RateIndexes(hz) : TRUE) = i
  BY <1>2
<1>4. 2 \in 1..16 /\ RateIndexes(hz) # {}
  BY <1>2
<1>5. fmt = [rate |-> i, channels |-> 2 - 1, bits |-> bits, nonPcm |-> no]
  BY <1>0, <1>1, <1>3, <1>4, Zenon DEF StreamFormat
<1>6. fmt.rate = i /\ fmt.bits = bits /\ fmt.nonPcm = no
  BY <1>5
<1>7. QED
  BY <1>0, <1>6, Zenon DEF MadeOf

\* Whatever is offered is supported.
Offered(q, r) ==
  \A hz \in r.rates, f \in r.pcm.formats :
    \A sub \in {"STD"} \cup (IF f = "S32" THEN r.pcm.subformats ELSE {}) :
      IsSupported(q, StreamFormat(2, FormatBits(f, sub, r.pcm.bps), hz, FALSE))

\* So the check accepts it.
LEMMA OfferedIsSupported ==
  ASSUME NEW q, PcmAsk(q), q.digital \in BOOLEAN, NEW r, r = SupportedPcm(q), r.ret = "ok"
  PROVE  Offered(q, r)
<1>1. PICK val, streams : val = QueryPcm(q) /\ streams = QueryStream(q)
  OBVIOUS
<1>2. /\ val.rates \subseteq 0..10 /\ val.bits \subseteq Widths /\ streams \subseteq {"pcm", "ac3"}
      /\ val.rates # {} => val # NoPcm
  BY <1>1, PcmSaid, Zenon
<1>3. PICK said : said = IF "pcm" \in streams THEN PcmFormats(val.bits, q.digital)
                       ELSE [formats |-> {}, subformats |-> {}, bps |-> 0]
  OBVIOUS
<1>4. PICK all : all = IF streams = {"ac3"} THEN [said EXCEPT !.formats = {"U8"}, !.bps = 8] ELSE said
  OBVIOUS
<1>5. r = IF val.rates = {} \/ streams = {} \/ all.formats = {}
          THEN [ret |-> "EIO", rates |-> {}, pcm |-> NoPcm]
          ELSE [ret |-> "ok", rates |-> {RateTable[i] : i \in val.rates}, pcm |-> all]
  BY <1>1, <1>3, <1>4, Zenon DEF SupportedPcm
<1>6. ~(val.rates = {} \/ streams = {} \/ all.formats = {})
  <2>1. SUFFICES ASSUME val.rates = {} \/ streams = {} \/ all.formats = {} PROVE FALSE
    OBVIOUS
  <2>2. r = [ret |-> "EIO", rates |-> {}, pcm |-> NoPcm]
    BY <1>5, <2>1, Zenon
  <2>3. QED
    BY <2>2
<1>7. r.rates = {RateTable[i] : i \in val.rates} /\ r.pcm = all
  BY <1>5, <1>6
<1>8. ASSUME NEW f \in all.formats,
             NEW sub \in {"STD"} \cup (IF f = "S32" THEN all.subformats ELSE {})
      PROVE  FormatBits(f, sub, all.bps) \in Widths
             /\ ("pcm" \in streams => FormatBits(f, sub, all.bps) \in val.bits)
  <2>1. CASE "pcm" \in streams
    <3>1. all = PcmFormats(val.bits, q.digital)
      BY <1>3, <1>4, <2>1
    <3>2. sub = "STD" \/ (f = "S32" /\ sub \in all.subformats)
      BY <1>8
    <3>3. FormatBits(f, sub, all.bps) \in val.bits
      BY <1>2, <1>8, <3>1, <3>2, OfferedWidth
    <3>4. QED
      BY <1>2, <3>3
  <2>2. CASE "pcm" \notin streams
    <3>1. streams = {"ac3"}
      BY <1>2, <1>6, <2>2
    <3>2. all.formats = {"U8"} /\ all.bps = 8
      BY <1>3, <1>4, <2>2, <3>1
    <3>3. f = "U8"
      BY <1>8, <3>2
    <3>4. PICK b : b = all.bps
      OBVIOUS
    <3>5. FormatBits(f, sub, b) = 8
      BY <3>2, <3>3, <3>4 DEF FormatBits
    <3>6. QED
      BY <2>2, <3>4, <3>5 DEF Widths
  <2>3. QED
    BY <2>1, <2>2
<1>9. ASSUME NEW i \in val.rates, NEW bits \in Widths, "pcm" \in streams => bits \in val.bits,
             NEW no, no = FALSE
      PROVE  IsSupported(q, StreamFormat(2, bits, RateTable[i], no))
  <2>1. i \in 0..10
    BY <1>2
  <2>2. PICK fmt : fmt = StreamFormat(2, bits, RateTable[i], no)
    OBVIOUS
  <2>3. fmt.rate = i /\ fmt.bits = bits /\ fmt.nonPcm = no
    <3>1. MadeOf(StreamFormat(2, bits, RateTable[i], no), i, bits, no)
      BY <2>1, FormatMade
    <3>2. QED
      BY <2>2, <3>1, Zenon DEF MadeOf
  <2>4. fmt.rate # -1 /\ fmt.rate \in 0..10
    BY <2>1, <2>3
  <2>5. QueryPcm(q) # NoPcm /\ fmt.rate \in QueryPcm(q).rates /\ QueryStream(q) # {}
        /\ ("pcm" \in QueryStream(q) => fmt.bits \in QueryPcm(q).bits)
    BY <1>1, <1>2, <1>6, <1>9, <2>3, Zenon
  <2>6. IsSupported(q, fmt)
    BY <1>9, <2>3, <2>4, <2>5, Zenon DEF IsSupported
  <2>7. QED
    BY <2>2, <2>6, Zenon
<1>10. ASSUME NEW hz \in r.rates, NEW f \in r.pcm.formats,
              NEW sub \in {"STD"} \cup (IF f = "S32" THEN r.pcm.subformats ELSE {})
       PROVE  IsSupported(q, StreamFormat(2, FormatBits(f, sub, r.pcm.bps), hz, FALSE))
  <2>1. PICK i \in val.rates : hz = RateTable[i]
    BY <1>7
  <2>2. PICK bits : bits = FormatBits(f, sub, all.bps)
    OBVIOUS
  <2>3. f \in all.formats /\ sub \in {"STD"} \cup (IF f = "S32" THEN all.subformats ELSE {})
    BY <1>7, <1>10, Zenon
  <2>4. bits \in Widths /\ ("pcm" \in streams => bits \in val.bits)
    BY <1>8, <2>2, <2>3, Zenon
  <2>5. PICK no : no = FALSE
    OBVIOUS
  <2>6. IsSupported(q, StreamFormat(2, bits, RateTable[i], no))
    BY <1>9, <2>4, <2>5, Zenon
  <2>7. QED
    BY <1>7, <2>1, <2>2, <2>5, <2>6, Zenon
<1>11. QED
  BY <1>10, Zenon DEF Offered

-----------------------------------------------------------------------------
(* HdaQueries: function groups.                                            *)

\* A codec that is accepted has the widgets its group says, the root's if it has no audio group.
GroupsRight(r, start, l) ==
  r.widgets # {} /\ (start > l /\ r.afg # 0 => r.widgets \cap (1..l) = {})

\* The numbers of the group are those of the widgets.
LEMMA GroupsAre ==
  ASSUME NEW types, NEW start \in Nat, NEW nums \in Nat, NEW l \in Nat, Len(types) = l,
         NEW r, r = Groups(types, start, nums), r.ret = "ok"
  PROVE  GroupsRight(r, start, l)
<1>1. PICK afg, sub : /\ afg = LastOf(types, "audio")
                      /\ sub = IF afg # 0 THEN [start |-> start, nums |-> nums]
                               ELSE [start |-> 1, nums |-> Len(types)]
  OBVIOUS
<1>2. sub.start \in Nat /\ sub.nums \in Nat
  BY <1>1
<1>3. CASE afg = 0 /\ LastOf(types, "modem") = 0
  <2>1. r = [ret |-> "ENODEV", afg |-> 0, widgets |-> {}]
    BY <1>1, <1>3 DEF Groups
  <2>2. QED
    BY <2>1
<1>4. CASE /\ afg # 0 \/ LastOf(types, "modem") # 0
           /\ sub.start = 0 \/ sub.nums \notin 1..254
  <2>1. r = [ret |-> "EINVAL", afg |-> afg, widgets |-> {}]
    BY <1>1, <1>4 DEF Groups
  <2>2. QED
    BY <2>1
<1>5. CASE /\ afg # 0 \/ LastOf(types, "modem") # 0
           /\ ~(sub.start = 0 \/ sub.nums \notin 1..254)
  <2>1. r = [ret |-> "ok", afg |-> afg, widgets |-> sub.start..(sub.start + sub.nums - 1)]
    BY <1>1, <1>5 DEF Groups
  <2>2. r.afg = afg /\ r.widgets = sub.start..(sub.start + sub.nums - 1)
    BY <2>1
  <2>3. sub.start \in r.widgets
    <3>1. PICK a, b : a = sub.start /\ b = sub.nums
      OBVIOUS
    <3>2. a \in Nat /\ b \in Nat /\ b \in 1..254
      BY <1>2, <1>5, <3>1, Zenon
    <3>3. a \in a..(a + b - 1)
      BY <3>2
    <3>4. QED
      BY <2>2, <3>1, <3>3, Zenon
  <2>4. ASSUME start > l, afg # 0
        PROVE  r.widgets \cap (1..l) = {}
    <3>1. sub.start = start
      BY <1>1, <2>4
    <3>2. QED
      BY <1>2, <2>2, <2>4, <3>1
  <2>5. r.widgets # {} /\ (start > l /\ r.afg # 0 => r.widgets \cap (1..l) = {})
    BY <2>2, <2>3, <2>4
  <2>6. QED
    BY <2>5, Zenon DEF GroupsRight
<1>6. QED
  BY <1>3, <1>4, <1>5

-----------------------------------------------------------------------------
(* HdaQueries: what is asked and what is answered.                         *)

ConnAsks == [kind : {"conns"}, entries : Lists, long : BOOLEAN, broken : {0, 1, 3}]
PcmAsks ==
  [kind : {"pcm"}, pcm : PcmChoices, afgPcm : {NoPcm, [rates |-> {6}, bits |-> {16}]},
   streams : SUBSET {"pcm", "ac3"}, afgStreams : {{}, {"pcm"}}, ovrd : BOOLEAN, digital : BOOLEAN]
GroupAsks ==
  [kind : {"groups"}, types : UNION {[1..n -> {"audio", "modem", "other"}] : n \in 0..3},
   start : {0, 2, 16}, nums : {0, 4, 255}]
WriteAsks == [kind : {"write"}, reg : Registers]

\* A question is told by its kind.
LEMMA AskIs ==
  ASSUME NEW q \in HdaAsks
  PROVE  /\ q.kind = "conns" => q \in ConnAsks
         /\ q.kind = "pcm" => q \in PcmAsks
         /\ q.kind = "groups" => q \in GroupAsks
         /\ q.kind = "write" => q \in WriteAsks
<1> DEFINE MatchAsks ==
             [kind : {"match"}, dev : [type : {"core", "legacy"}, vendor : {1, 2}, rev : {1, 2}],
              drv : [type : {"core"}, match : {"none", "yes", "no"},
                     table : [1..2 -> [vendor : {0, 1, 2}, rev : {0, 1}]]]]
           GfxAsks ==
             [kind : {"gfx"}, bind : {-1, 0, 1}, nomodeset : BOOLEAN,
              displays : {{d} : d \in [path : Paths, intel : BOOLEAN, denied : BOOLEAN]}, hdac : Paths]
<1>1. \/ q \in ConnAsks \/ q \in PcmAsks \/ q \in GroupAsks \/ q \in WriteAsks
      \/ q \in MatchAsks \/ q \in GfxAsks
  BY Zenon DEF HdaAsks, ConnAsks, PcmAsks, GroupAsks, WriteAsks
<1>2. q \in ConnAsks => q.kind = "conns"
  BY DEF ConnAsks
<1>3. q \in PcmAsks => q.kind = "pcm"
  BY DEF PcmAsks
<1>4. q \in GroupAsks => q.kind = "groups"
  BY DEF GroupAsks
<1>5. q \in WriteAsks => q.kind = "write"
  BY DEF WriteAsks
<1>6. q \in MatchAsks => q.kind = "match"
  OBVIOUS
<1>7. q \in GfxAsks => q.kind = "gfx"
  OBVIOUS
<1> HIDE DEF MatchAsks, GfxAsks
<1>8. QED
  BY <1>1, <1>2, <1>3, <1>4, <1>5, <1>6, <1>7

\* The lists asked about are sequences of entries.
LEMMA ConnAsksAre ==
  ASSUME NEW q \in ConnAsks
  PROVE  ConnAsk(q)
<1>1. PICK e : e = q.entries
  OBVIOUS
<1>2. e \in Lists /\ q.long \in BOOLEAN /\ q.broken \in Nat
  BY <1>1 DEF ConnAsks
<1>3. PICK n \in ConnLengths : e \in [1..n -> Entry]
  BY <1>2 DEF Lists
<1>4. n \in Nat
  BY <1>3, QueriesAssumption
<1>5. e \in Seq(Entry) /\ Len(e) \in Nat
  BY <1>3, <1>4, SeqDef
<1>6. QED
  BY <1>1, <1>2, <1>5, Zenon DEF ConnAsk

\* The group has a first node and a number of them.
LEMMA GroupAsksAre ==
  ASSUME NEW q \in GroupAsks
  PROVE  q.start \in Nat /\ q.nums \in Nat /\ Len(q.types) \in Nat
<1>1. PICK t : t = q.types
  OBVIOUS
<1>2. q.start \in Nat /\ q.nums \in Nat
      /\ t \in UNION {[1..n -> {"audio", "modem", "other"}] : n \in 0..3}
  BY <1>1 DEF GroupAsks
<1>3. PICK n \in 0..3 : t \in [1..n -> {"audio", "modem", "other"}]
  BY <1>2
<1>4. t \in Seq({"audio", "modem", "other"})
  BY <1>3, SeqDef
<1>5. QED
  BY <1>1, <1>2, <1>4

\* What is answered is what was asked.
AnswerTo(q, x) ==
  /\ q.kind = "conns" => x = [room \in ConnRooms \cup {CountOnly} |->
                                Connections(q.entries, q.long, q.broken, room)]
  /\ q.kind = "pcm" => x = SupportedPcm(q)
  /\ q.kind = "groups" => x = Groups(q.types, q.start, q.nums)
  /\ q.kind = "write" => x = AfterVerbs(Verbs(q.reg))

\* The inductive invariant: one of the questions, answered or not.
QueriesInv == hdaAsk \in HdaAsks /\ (HdaAnswered => AnswerTo(hdaAsk, HdaReply))

\* The question stays one of those there are, and its answer is what the function
\* of the core it asks about returns.
THEOREM QueriesInvariant == QueriesSpec => []QueriesInv
<1>1. QueriesInit => QueriesInv
  BY Zenon DEF QueriesInit, QueriesInv, HdaAnswered
<1>2. QueriesInv /\ [QueriesNext]_queriesVars => QueriesInv'
  <2> SUFFICES ASSUME QueriesInv, [QueriesNext]_queriesVars PROVE QueriesInv'
    OBVIOUS
  <2>1. CASE UNCHANGED queriesVars
    BY <2>1 DEF queriesVars, QueriesInv, HdaAnswered, HdaReply, AnswerTo
  <2>2. CASE QueriesNext
    <3>1. hdaAsk' = hdaAsk /\ hdaAsk \in HdaAsks
      BY <2>2, Zenon DEF QueriesNext, QueriesInv
    <3>2. CASE AskConns
      <4>1. PICK x : x = [room \in ConnRooms \cup {CountOnly} |->
                            Connections(hdaAsk.entries, hdaAsk.long, hdaAsk.broken, room)]
        OBVIOUS
      <4>2. hdaAsk.kind = "conns" /\ hdaAnswer' = <<x>>
        BY <3>2, <4>1, Zenon DEF AskConns
      <4>3. HdaReply' = x
        BY <4>2 DEF HdaReply
      <4>4. AnswerTo(hdaAsk, x)
        BY <4>1, <4>2 DEF AnswerTo
      <4>5. QED
        BY <3>1, <4>3, <4>4 DEF QueriesInv
    <3>3. CASE AskPcm
      <4>1. hdaAsk.kind = "pcm" /\ hdaAnswer' = <<SupportedPcm(hdaAsk)>>
        BY <3>3, Zenon DEF AskPcm
      <4>2. HdaReply' = SupportedPcm(hdaAsk)
        BY <4>1 DEF HdaReply
      <4>3. QED
        BY <3>1, <4>1, <4>2 DEF QueriesInv, AnswerTo
    <3>4. CASE AskGroups
      <4>1. hdaAsk.kind = "groups" /\ hdaAnswer' = <<Groups(hdaAsk.types, hdaAsk.start, hdaAsk.nums)>>
        BY <3>4, Zenon DEF AskGroups
      <4>2. HdaReply' = Groups(hdaAsk.types, hdaAsk.start, hdaAsk.nums)
        BY <4>1 DEF HdaReply
      <4>3. QED
        BY <3>1, <4>1, <4>2 DEF QueriesInv, AnswerTo
    <3>5. CASE AskWrite
      <4>1. hdaAsk.kind = "write" /\ hdaAnswer' = <<AfterVerbs(Verbs(hdaAsk.reg))>>
        BY <3>5, Zenon DEF AskWrite
      <4>2. HdaReply' = AfterVerbs(Verbs(hdaAsk.reg))
        BY <4>1 DEF HdaReply
      <4>3. QED
        BY <3>1, <4>1, <4>2 DEF QueriesInv, AnswerTo
    <3>6. CASE AskMatch \/ AskGfx
      <4>1. hdaAsk.kind = "match" \/ hdaAsk.kind = "gfx"
        BY <3>6, Zenon DEF AskMatch, AskGfx
      <4>2. QED
        BY <3>1, <4>1 DEF QueriesInv, AnswerTo
    <3>7. QED
      BY <2>2, <3>2, <3>3, <3>4, <3>5, <3>6, Zenon DEF QueriesNext
  <2>3. QED
    BY <2>1, <2>2
<1>3. QED
  BY <1>1, <1>2, PTL DEF QueriesSpec

-----------------------------------------------------------------------------
(* HdaQueries: the answers are right.                                      *)

\* Of what is asked of connections, by the invariant.
LEMMA CountIsRight ==
  ASSUME QueriesInv
  PROVE  CountAgrees
<1> SUFFICES ASSUME hdaAsk.kind = "conns", HdaAnswered, NEW room \in ConnRooms
             PROVE  Agree(HdaReply[room], HdaReply[CountOnly], room)
  BY Zenon DEF CountAgrees, Agree
<1>1. PICK q, x : q = hdaAsk /\ x = HdaReply
  OBVIOUS
<1>2. ConnAsk(q)
  BY <1>1, AskIs, ConnAsksAre DEF QueriesInv
<1>3. x = [r \in ConnRooms \cup {CountOnly} |-> Connections(q.entries, q.long, q.broken, r)]
  BY <1>1, Zenon DEF QueriesInv, AnswerTo
<1>4. /\ x[room] = Connections(q.entries, q.long, q.broken, room)
      /\ x[CountOnly] = Connections(q.entries, q.long, q.broken, CountOnly)
  BY <1>3, Zenon
<1>5. room \in Nat /\ room # CountOnly
  BY QueriesAssumption DEF CountOnly
<1>6. Agree(x[room], x[CountOnly], room)
  BY <1>2, <1>4, <1>5, ConnectionsAgree
<1>7. QED
  BY <1>1, <1>6, Zenon

\* Of ascending lists.
LEMMA RangesAreRight ==
  ASSUME QueriesInv
  PROVE  RangesExpand
<1> DEFINE list == HdaReply[CountOnly].list
<1> SUFFICES ASSUME hdaAsk.kind = "conns", HdaAnswered, Ascends(hdaAsk)
             PROVE  /\ HdaReply[CountOnly].ret = "ok"
                    /\ Elems(list) = NamedTo(hdaAsk.entries, Len(hdaAsk.entries)) /\ Rises(list)
  BY Zenon DEF RangesExpand, Ascends, Elems, NamedTo, Named, Rises
<1>1. PICK q, x : q = hdaAsk /\ x = HdaReply
  OBVIOUS
<1>2. ConnAsk(q)
  BY <1>1, AskIs, ConnAsksAre DEF QueriesInv
<1>3. x = [r \in ConnRooms \cup {CountOnly} |-> Connections(q.entries, q.long, q.broken, r)]
  BY <1>1, Zenon DEF QueriesInv, AnswerTo
<1>4. x[CountOnly] = Connections(q.entries, q.long, q.broken, CountOnly)
  BY <1>3, Zenon
<1>5. Ascends(q)
  BY <1>1, Zenon
<1>6. /\ x[CountOnly].ret = "ok" /\ Rises(x[CountOnly].list)
      /\ Elems(x[CountOnly].list) = NamedTo(q.entries, Len(q.entries))
  BY <1>2, <1>4, <1>5, AscendingRead
<1>7. QED
  BY <1>1, <1>6, Zenon

\* Of rates and formats.
LEMMA OfferedIsRight ==
  ASSUME QueriesInv
  PROVE  OfferedSupported
<1> SUFFICES ASSUME hdaAsk.kind = "pcm", HdaAnswered, HdaReply.ret = "ok"
             PROVE  Offered(hdaAsk, HdaReply)
  BY Zenon DEF OfferedSupported, Offered
<1>1. PICK q, x : q = hdaAsk /\ x = HdaReply
  OBVIOUS
<1>2. q \in PcmAsks
  BY <1>1, AskIs DEF QueriesInv
<1>3. PcmAsk(q) /\ q.digital \in BOOLEAN
  BY <1>2 DEF PcmAsks, PcmAsk
<1>4. x = SupportedPcm(q) /\ x.ret = "ok"
  BY <1>1, Zenon DEF QueriesInv, AnswerTo
<1>5. Offered(q, x)
  BY <1>3, <1>4, OfferedIsSupported
<1>6. QED
  BY <1>1, <1>5, Zenon

\* Of what is written.
LEMMA WriteIsRight ==
  ASSUME QueriesInv
  PROVE  WriteArrives
<1> SUFFICES ASSUME hdaAsk.kind = "write", HdaAnswered
             PROVE  Arrived(HdaReply, hdaAsk.reg)
  BY Zenon DEF WriteArrives, Arrived
<1>1. PICK q, x : q = hdaAsk /\ x = HdaReply
  OBVIOUS
<1>2. q \in WriteAsks
  BY <1>1, AskIs DEF QueriesInv
<1>3. q.reg \in Registers
  BY <1>2 DEF WriteAsks
<1>4. x = AfterVerbs(Verbs(q.reg))
  BY <1>1, Zenon DEF QueriesInv, AnswerTo
<1>5. Arrived(x, q.reg)
  BY <1>3, <1>4, ValueArrives
<1>6. QED
  BY <1>1, <1>5, Zenon

\* Of function groups.
LEMMA GroupsAreRight ==
  ASSUME QueriesInv
  PROVE  WidgetsOfAfg
<1> SUFFICES ASSUME hdaAsk.kind = "groups", HdaAnswered, HdaReply.ret = "ok"
             PROVE  /\ HdaReply.widgets # {}
                    /\ hdaAsk.start > Len(hdaAsk.types) /\ HdaReply.afg # 0 =>
                         HdaReply.widgets \cap (1..Len(hdaAsk.types)) = {}
  BY Zenon DEF WidgetsOfAfg
<1>1. PICK q, x : q = hdaAsk /\ x = HdaReply
  OBVIOUS
<1>2. q \in GroupAsks
  BY <1>1, AskIs DEF QueriesInv
<1>3. q.start \in Nat /\ q.nums \in Nat /\ Len(q.types) \in Nat
  BY <1>2, GroupAsksAre
<1>4. x = Groups(q.types, q.start, q.nums) /\ x.ret = "ok"
  BY <1>1, Zenon DEF QueriesInv, AnswerTo
<1>5. x.widgets # {} /\ (q.start > Len(q.types) /\ x.afg # 0 => x.widgets \cap (1..Len(q.types)) = {})
  <2>1. PICK l : l = Len(q.types)
    OBVIOUS
  <2>2. q.start \in Nat /\ q.nums \in Nat /\ l \in Nat
    BY <1>3, <2>1, Zenon
  <2>3. GroupsRight(x, q.start, l)
    BY <1>4, <2>1, <2>2, GroupsAre, Zenon
  <2>4. QED
    BY <2>1, <2>3, Zenon DEF GroupsRight
<1>6. QED
  BY <1>1, <1>5, Zenon

\* Whatever is asked of the core, what it reads out of a codec and what it writes
\* to it is what the codec's words say: a list and its count agree, an ascending
\* list is read as what it names, a format that is offered is supported, a value
\* that is written arrives, and a codec's widgets are its group's.
THEOREM QueriesAreRight == QueriesSpec => []QueriesRight
<1>1. QueriesInv => QueriesRight
  BY CountIsRight, RangesAreRight, OfferedIsRight, WriteIsRight, GroupsAreRight, Zenon DEF QueriesRight
<1>2. QED
  BY <1>1, QueriesInvariant, PTL
=============================================================================
