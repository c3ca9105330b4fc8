----------------------------- MODULE WidgetTree -----------------------------
(***************************************************************************)
(* A codec device from snd_hdac_device_init to its release (device.c), and *)
(* the tree of its widgets in sysfs (sysfs.c): every step can fail, and    *)
(* the widgets can change while the tree stands.                           *)
(*                                                                         *)
(* External: the driver core, which calls the release when the last        *)
(* reference is put, and the kobjects, which a missing put leaves behind.  *)
(***************************************************************************)
EXTENDS Integers, Sequences, FiniteSets

CONSTANTS
  WidgetRanges,    \* ranges of widgets a codec may report: [start, num]
  AfgNode,         \* node of the audio group
  MaxRefreshes     \* bound: changes of the range

\* A codec reports the nodes below the group, and the group is none of them
\* (snd_hdac_get_sub_nodes of codec->afg).
ASSUME WidgetAssumption ==
  /\ WidgetRanges \subseteq [start : Nat \ {0}, num : Nat \ {0}]
  /\ \A r \in WidgetRanges : AfgNode \notin r.start..(r.start + r.num - 1)
  /\ AfgNode \in Nat /\ MaxRefreshes \in Nat

VARIABLES
  dev,        \* none, inited, registered, unregistered
  usage_cnt,  \* run-time PM references of the device
  onBus,      \* it is in codec_list and caddr_tbl
  range,      \* start_nid, num_nodes
  tree,       \* codec->widgets: [there, nodes, afg], a node 0 is NULL
  objects,    \* nodes that have a kobject in sysfs
  refreshes,  \* counter of the bound
  holes       \* history: an entry of the array of nodes has been left NULL

widgetVars == <<dev, usage_cnt, onBus, range, tree, objects, refreshes, holes>>

NoRange == [start |-> 0, num |-> 0]
NoTree == [there |-> FALSE, nodes |-> <<>>, afg |-> FALSE]
NidsOf(r) == r.start..(r.start + r.num - 1)

WidgetInit ==
  /\ dev = "none" /\ usage_cnt = 0 /\ onBus = FALSE /\ range = NoRange
  /\ tree = NoTree /\ objects = {} /\ refreshes = 0 /\ holes = FALSE

-----------------------------------------------------------------------------
(* The device.                                                             *)

\* snd_hdac_device_init
DeviceInit(r) ==
  /\ dev = "none"
  /\ dev' = "inited" /\ usage_cnt' = usage_cnt + 1 /\ onBus' = TRUE /\ range' = r
  /\ UNCHANGED <<tree, objects, refreshes, holes>>

\* Mutant of DeviceInitFails: the error path returns without a put.
DeviceInitFails_NoPut ==
  /\ dev = "none"
  /\ usage_cnt' = 1 /\ onBus' \in BOOLEAN
  /\ UNCHANGED <<dev, range, tree, objects, refreshes, holes>>

\* ... any step of which may fail: put_device calls the release, which takes
\* back the reference and the place on the bus
DeviceInitFails ==
  /\ dev = "none"
  /\ usage_cnt' = 0 /\ onBus' = FALSE
  /\ UNCHANGED <<dev, range, tree, objects, refreshes, holes>>

\* snd_hdac_device_exit, from the release
DeviceRelease ==
  /\ dev \in {"inited", "unregistered"}
  /\ dev' = "none" /\ usage_cnt' = usage_cnt - 1 /\ onBus' = FALSE /\ range' = NoRange
  /\ UNCHANGED <<tree, objects, refreshes, holes>>

-----------------------------------------------------------------------------
(* The tree.                                                               *)

\* What widget_tree_free finds: the nodes before the first NULL, and the group
FreedNodes(t) ==
  LET stop == {i \in 1..Len(t.nodes) : t.nodes[i] = 0}
      end  == IF stop = {} THEN Len(t.nodes) ELSE (CHOOSE i \in stop : \A j \in stop : i <= j) - 1
  IN  {t.nodes[i] : i \in 1..end} \cup (IF t.afg THEN {AfgNode} ELSE {})

\* A tree of which the first n nodes were made, and maybe the group's
PartTree(n, afg) ==
  [there |-> TRUE, afg |-> afg,
   nodes |-> [i \in 1..range.num |-> IF i <= n THEN range.start + i - 1 ELSE 0]]
ObjectsOf(t) == ({t.nodes[i] : i \in 1..Len(t.nodes)} \ {0}) \cup (IF t.afg THEN {AfgNode} ELSE {})

\* snd_hdac_device_register: device_add and hda_widget_sysfs_init
Register ==
  /\ dev = "inited"
  /\ dev' = "registered"
  /\ tree' = PartTree(range.num, TRUE)
  /\ objects' = objects \cup ObjectsOf(PartTree(range.num, TRUE))
  /\ UNCHANGED <<usage_cnt, onBus, range, refreshes, holes>>

\* Mutant of RegisterFails: the nodes made so far are left to the release.
RegisterFails_Keeps ==
  /\ dev = "inited"
  /\ \E n \in 0..range.num : objects' = objects \cup ObjectsOf(PartTree(n, FALSE))
  /\ tree' = NoTree
  /\ UNCHANGED <<dev, usage_cnt, onBus, range, refreshes, holes>>

\* ... at node n the tree fails, and what there is of it is freed
RegisterFails ==
  /\ dev = "inited"
  /\ \E n \in 0..range.num :
       objects' = (objects \cup ObjectsOf(PartTree(n, FALSE))) \ FreedNodes(PartTree(n, FALSE))
  /\ tree' = NoTree
  /\ UNCHANGED <<dev, usage_cnt, onBus, range, refreshes, holes>>

\* snd_hdac_device_unregister
Unregister ==
  /\ dev = "registered"
  /\ dev' = "unregistered" /\ onBus' = FALSE
  /\ objects' = objects \ FreedNodes(tree) /\ tree' = NoTree
  /\ UNCHANGED <<usage_cnt, range, refreshes, holes>>

\* Mutant of Node: old nodes are looked up with the new range's offset.
Node_NewOffset(r, i, failed) ==
  LET nid == r.start + i - 1
  IN  IF nid \in failed THEN 0
      ELSE IF nid \in NidsOf(range) /\ i <= Len(tree.nodes) THEN tree.nodes[i] ELSE nid

\* Entry i of the new array: made now, unless that fails, or taken over
Node(r, i, failed) ==
  LET nid == r.start + i - 1
  IN  IF nid \in NidsOf(range) THEN tree.nodes[nid - range.start + 1]
      ELSE IF nid \in failed THEN 0 ELSE nid

\* snd_hdac_refresh_widgets and hda_widget_sysfs_reinit: the nodes that are gone
\* are freed, new ones made; a node that cannot be made is passed over
Refresh(r, failed) ==
  /\ dev = "registered" /\ refreshes < MaxRefreshes /\ r # range
  /\ failed \subseteq NidsOf(r) \ NidsOf(range)
  /\ tree' = [tree EXCEPT !.nodes = [i \in 1..r.num |-> Node(r, i, failed)]]
  /\ objects' = (objects \ (ObjectsOf([tree EXCEPT !.afg = FALSE]) \ NidsOf(r)))
                  \cup ((NidsOf(r) \ NidsOf(range)) \ failed)
  /\ range' = r /\ refreshes' = refreshes + 1
  /\ holes' = (holes \/ failed # {})
  /\ UNCHANGED <<dev, usage_cnt, onBus>>

\* ... or it fails before it has changed anything, the range included
RefreshFails ==
  /\ dev = "registered" /\ refreshes < MaxRefreshes
  /\ refreshes' = refreshes + 1
  /\ UNCHANGED <<dev, usage_cnt, onBus, range, tree, objects, holes>>

WidgetNext ==
  \/ \E r \in WidgetRanges : DeviceInit(r) \/ \E failed \in SUBSET NidsOf(r) : Refresh(r, failed)
  \/ DeviceInitFails \/ DeviceRelease \/ Register \/ RegisterFails \/ Unregister \/ RefreshFails

WidgetSpec == WidgetInit /\ [][WidgetNext]_widgetVars

-----------------------------------------------------------------------------
(* Properties.                                                             *)

\* The entry for each node is that node's, so that the next refresh and the end
\* free the right ones.
NodeAtItsPlace ==
  tree.there =>
    /\ Len(tree.nodes) = range.num
    /\ \A i \in 1..Len(tree.nodes) : tree.nodes[i] \in {0, range.start + i - 1}

\* Nothing stays in sysfs without its tree, and none is missing from it, whatever
\* failed on the way, unless a refresh left a hole in the array: the end stops
\* there and leaves the nodes behind it.
NoNodeLeft == ~holes => objects = IF tree.there THEN ObjectsOf(tree) ELSE {}

\* A device that is gone, or never came to be, holds no reference and no address.
DeviceUndone == dev = "none" => usage_cnt = 0 /\ ~onBus

\* The tree, sysfs and the device's references agree, whatever step of building or
\* refreshing them fails.
TreeKept == NodeAtItsPlace /\ NoNodeLeft /\ DeviceUndone
=============================================================================
